-------------------------- MODULE LifecycleProofs --------------------------
(***************************************************************************)
(* What Lifecycle's run checks on two processes, two VMs and two pids,     *)
(* proved for any number of them.                                          *)
(*                                                                         *)
(* Running answers FALSE only when it has just found no pidfile, or has    *)
(* just removed it.  While every live qemu is the one its pidfile names    *)
(* (LiveIsSeen), that answer means that no live qemu of the VM can be      *)
(* seen.  The answer stays true for Destroy, which holds the flock that a  *)
(* launch needs, and it stays true of the one process Stop is to stop,     *)
(* which does not come back.                                               *)
(***************************************************************************)
EXTENDS Lifecycle, FiniteSetTheorems, WellFoundedInduction, TLAPS

-----------------------------------------------------------------------------
(* The inductive invariant *)

RunningSteps == {"r_read", "r_check", "r_remove"}

\* The step of its operation p is at: the one it will be at when Running returns.
At(p) == IF pc[p] \in RunningSteps THEN job[p].cont ELSE pc[p]

\* Which operations can be at which step, and that each works on a VM.
Located(p) ==
    LET o == job[p].op IN
    /\ o \in {"none", "poll", "start", "stop", "destroy"} \cup SnapOps
    /\ o # "none" => job[p].name \in Names
    /\ o \in SnapOps => job[p].tag \in Tags
    /\ o = "none" => At(p) = "idle" /\ pc[p] = "idle"
    /\ o = "poll" => At(p) = "p_done"
    /\ o = "start" => At(p) \in {"s_lock", "s_limit", "s_launch"}
    /\ o = "stop" => At(p) \in {"t_state", "t_ask", "t_term", "t_kill"} \cup Waits
    /\ o = "destroy" => At(p) \in {"d_stop", "d_delete"}
    /\ o \in SnapOps =>
         At(p) \in {"n_list", "n_do", "q_send", "q_read", "i_open", "i_run", "i_done"}

\* Start, past its lock call, and Destroy hold the flock.
Holds(p) ==
    \/ job[p].op = "start" /\ pc[p] # "s_lock"
    \/ job[p].op = "destroy"

\* The pid Running found dead, or another VM's, does not become this VM's.
Stale(p) ==
    /\ pc[p] \in {"r_check", "r_remove"} => job[p].seen \in Pids
    /\ pc[p] = "r_remove" => live[job[p].seen] # job[p].name

\* No live qemu of the VM can be seen.
NoneSeen(n) == \A q \in Pids \ lost : live[q] # n

\* From Destroy's check on, nothing of the VM runs.
DestroyInv(p) ==
    job[p].op = "destroy" /\ (At(p) = "d_delete" \/ (pc[p] = "d_stop" /\ ~job[p].up))
        => NoneSeen(job[p].name)

\* Stop has nothing left to do: the qemu it is to stop is gone or cannot be
\* seen.
Over(p) ==
    LET v == job[p].victim IN v = NoPid \/ v \in lost \/ live[v] = NoName

StopInv(p) ==
    job[p].op = "stop" =>
        /\ job[p].victim # NoPid => live[job[p].victim] \in {job[p].name, NoName}
        /\ pc[p] \in {"t_state", "t_ask"} \cup Waits /\ ~job[p].up => Over(p)
        /\ job[p].await # NoPid => job[p].await = job[p].victim \/ Over(p)
        /\ At(p) \in {"t_wait_term", "t_kill"} => job[p].pid \in Pids

\* A reply that says the snapshot command succeeded is about a command that did.
SnapInv(p) ==
    /\ pc[p] = "q_read" /\ ~job[p].did =>
         \A i \in 1..Len(job[p].inbox) : job[p].inbox[i] # "return"
    /\ pc[p] = "i_done" => job[p].did
    /\ pc[p] \in RunningSteps => job[p].cont \notin {"q_read", "i_done"}

ActorInv(p) ==
    /\ Located(p)
    /\ Holds(p) => lock = p
    /\ Stale(p)
    /\ DestroyInv(p)
    /\ StopInv(p)
    /\ SnapInv(p)

Inv == TypeOK /\ LiveIsSeen /\ \A p \in Actors : ActorInv(p)

-----------------------------------------------------------------------------
(* Lemmas about the operators *)

\* A nonempty set of numbers has a least element.
LEMMA MinInSet ==
    ASSUME NEW S \in SUBSET Nat, S # {}
    PROVE  Min(S) \in S /\ \A x \in S : Min(S) <= x
  <1>1. PICK x \in S : \A y \in S : ~(<<y, x>> \in OpToRel(<, Nat))
    BY NatLessThanWellFounded, WFMin, Zenon
  <1>2. \A y \in S : ~(y < x)
    BY <1>1, Zenon DEF OpToRel
  <1>3. \E m \in S : \A y \in S : m =< y
    BY <1>2
  <1> QED
    BY <1>3 DEF Min

\* The job an actor starts from and the one an operation starts with.
LEMMA NoJobType == NoJob \in Job
  <1>1. <<>> \in Seq({"event", "return", "error"})
    OBVIOUS
  <1> QED
    BY <1>1 DEF NoJob, Job, AllOps, SnapOps, Steps

\* A call starts with a job of the right type.
LEMMA NewJobType ==
    ASSUME NEW o \in AllOps, NEW n \in Names
    PROVE  /\ NewJob(o, n) \in Job
           /\ NewJob(o, n).op = o /\ NewJob(o, n).name = n
           /\ NewJob(o, n).await = NoPid
  <1>1. NewJob(o, n) \in Job
    BY NoJobType DEF NewJob, Job
  <1> QED
    BY <1>1 DEF NewJob, NoJob

\* What Start, Stop and the snapshot operations note in it.
LEMMA NoteInJob ==
    ASSUME NEW j \in Job
    PROVE  /\ \A t \in Tags : /\ [j EXCEPT !.tag = t] \in Job
                              /\ [j EXCEPT !.tag = t].op = j.op
                              /\ [j EXCEPT !.tag = t].name = j.name
                              /\ [j EXCEPT !.tag = t].tag = t
           /\ \A q \in Pids \cup {NoPid} : /\ [j EXCEPT !.victim = q] \in Job
                                           /\ [j EXCEPT !.victim = q].op = j.op
                                           /\ [j EXCEPT !.victim = q].name = j.name
                                           /\ [j EXCEPT !.victim = q].victim = q
           /\ \A r \in Nat : /\ [j EXCEPT !.ram = r] \in Job
                             /\ [j EXCEPT !.ram = r].op = j.op
                             /\ [j EXCEPT !.ram = r].name = j.name
                             /\ [j EXCEPT !.ram = r].await = j.await
  BY DEF Job

\* The two jobs are of the same operation on the same VM, and of the same qemu.
SameTask(j, k) ==
    /\ k.op = j.op /\ k.name = j.name /\ k.tag = j.tag /\ k.ram = j.ram
    /\ k.pid = j.pid /\ k.victim = j.victim

\* What the invariant says of a job, apart from where Running is.
SameJob(j, k) ==
    /\ SameTask(j, k)
    /\ k.seen = j.seen /\ k.up = j.up /\ k.cont = j.cont /\ k.await = j.await
    /\ k.inbox = j.inbox /\ k.did = j.did

\* The edits that steps make to a job, field by field.
LEMMA SeenEdit ==
    ASSUME NEW j \in Job, NEW q \in Pids \cup {NoPid}
    PROVE  /\ [j EXCEPT !.seen = q] \in Job
           /\ SameTask(j, [j EXCEPT !.seen = q])
           /\ [j EXCEPT !.seen = q].seen = q
           /\ [j EXCEPT !.seen = q].cont = j.cont
           /\ [j EXCEPT !.seen = q].await = j.await
  BY DEF Job, SameTask

LEMMA AwaitEdit ==
    ASSUME NEW j \in Job, NEW q \in Pids \cup {NoPid}
    PROVE  /\ [j EXCEPT !.await = q] \in Job
           /\ SameTask(j, [j EXCEPT !.await = q])
           /\ [j EXCEPT !.await = q].await = q
           /\ [j EXCEPT !.await = q].up = j.up
  BY DEF Job, SameTask

LEMMA PidEdit ==
    ASSUME NEW j \in Job, NEW q \in Pids \cup {NoPid}
    PROVE  /\ [j EXCEPT !.pid = q] \in Job
           /\ [j EXCEPT !.pid = q].op = j.op
           /\ [j EXCEPT !.pid = q].name = j.name
           /\ [j EXCEPT !.pid = q].victim = j.victim
           /\ [j EXCEPT !.pid = q].pid = q
           /\ [j EXCEPT !.pid = q].tag = j.tag
  BY DEF Job

LEMMA OpenEdit ==
    ASSUME NEW j \in Job, NEW b \in BOOLEAN
    PROVE  [j EXCEPT !.open = b] \in Job /\ SameJob(j, [j EXCEPT !.open = b])
  BY DEF Job, SameTask, SameJob

LEMMA DidEdit ==
    ASSUME NEW j \in Job, NEW b \in BOOLEAN
    PROVE  /\ [j EXCEPT !.did = b] \in Job
           /\ SameTask(j, [j EXCEPT !.did = b])
           /\ [j EXCEPT !.did = b].did = b
           /\ [j EXCEPT !.did = b].await = j.await
  BY DEF Job, SameTask

\* No actor but p has moved on; others may have lost the disk they have open.
OthersStay(p) ==
    \A o \in Actors \ {p} : pc'[o] = pc[o] /\ SameJob(job[o], job'[o])

\* What the ways to leave a step do to p and to the others.
LEMMA GotoEffect ==
    ASSUME TypeOK, NEW p \in Actors, NEW step \in Steps, Goto(p, step)
    PROVE  /\ pc' \in [Actors -> Steps] /\ pc'[p] = step
           /\ \A o \in Actors \ {p} : pc'[o] = pc[o]
           /\ lock' = lock /\ reply' = "none"
  BY DEF TypeOK, Goto, Silent

\* What returning changes of the caller.
LEMMA ReturnEffect ==
    ASSUME TypeOK, NEW p \in Actors, NEW r, Return(p, r)
    PROVE  /\ pc' \in [Actors -> Steps] /\ pc'[p] = "idle"
           /\ job' \in [Actors -> Job] /\ job'[p] = NoJob
           /\ OthersStay(p)
           /\ lock' = IF lock = p THEN NoActor ELSE lock
           /\ reply' = r
  BY NoJobType DEF TypeOK, Steps, Return, OthersStay, SameJob, SameTask

\* What asking whether the VM runs changes of the caller.
LEMMA CallRunningEffect ==
    ASSUME TypeOK, NEW p \in Actors, NEW j \in Job, NEW step \in Steps,
           CallRunning(p, j, step)
    PROVE  /\ pc' \in [Actors -> Steps] /\ pc'[p] = "r_read"
           /\ job' \in [Actors -> Job]
           /\ SameTask(j, job'[p])
           /\ job'[p].cont = step /\ job'[p].await = NoPid
           /\ OthersStay(p)
           /\ reply' = "none"
  <1>1. /\ [j EXCEPT !.cont = step, !.await = NoPid] \in Job
        /\ SameTask(j, [j EXCEPT !.cont = step, !.await = NoPid])
        /\ [j EXCEPT !.cont = step, !.await = NoPid].cont = step
        /\ [j EXCEPT !.cont = step, !.await = NoPid].await = NoPid
    BY DEF Job, SameTask
  <1> QED
    BY <1>1 DEF TypeOK, Steps, CallRunning, Silent, OthersStay, SameJob, SameTask

\* What the answer to that question changes.
LEMMA AnswerEffect ==
    ASSUME TypeOK, NEW p \in Actors, NEW up \in BOOLEAN, Answer(p, up)
    PROVE  /\ pc' \in [Actors -> Steps] /\ pc'[p] = job[p].cont
           /\ job' \in [Actors -> Job]
           /\ SameTask(job[p], job'[p])
           /\ job'[p].up = up /\ job'[p].await = job[p].await
           /\ OthersStay(p)
           /\ lock' = lock /\ reply' = "none"
  <1> DEFINE k == [job[p] EXCEPT !.up = up, !.seen = NoPid, !.cont = "idle"]
  <1>1. job[p] \in Job /\ job[p].cont \in Steps
    BY DEF TypeOK, Job
  <1>2. k \in Job /\ SameTask(job[p], k) /\ k.up = up /\ k.await = job[p].await
    <2>1. "idle" \in Steps
      BY DEF Steps
    <2>2. k \in Job
      BY <1>1, <2>1 DEF Job
    <2> QED
      BY <1>1, <2>2 DEF Job, SameTask
  <1>3. job' = [job EXCEPT ![p] = k]
    BY DEF Answer, TypeOK
  <1> QED
    BY <1>1, <1>2, <1>3, GotoEffect
    DEF TypeOK, Answer, OthersStay, SameJob, SameTask

-----------------------------------------------------------------------------
(* How steps act on the invariant *)

\* To actor o the world is as before, but that qemus may have gone, and, when
\* o does not hold the flock, one may have been launched on a pid o does not name.
Env(o) ==
    /\ \A q \in Pids : \/ live'[q] \in {live[q], NoName}
                       \/ q \in FreePids /\ lock # o
    /\ \A q \in lost \ lost' : live'[q] = NoName

\* An actor that stays where it is keeps its invariant.
LEMMA Stable ==
    ASSUME TypeOK, TypeOK', NEW o \in Actors, ActorInv(o),
           pc'[o] = pc[o], SameJob(job[o], job'[o]),
           lock = o => lock' = o, Env(o)
    PROVE  ActorInv(o)'
  <1> USE DEF SameJob, SameTask
  <1>1. At(o)' = At(o) /\ Located(o)'
    BY DEF ActorInv, Located, At
  <1>2. (Holds(o) => lock = o)' /\ SnapInv(o)'
    BY DEF ActorInv, Holds, SnapInv
  <1>3. /\ job[o].seen \in Pids \cup {NoPid}
        /\ job[o].victim \in Pids \cup {NoPid}
    BY DEF TypeOK, Job
  <1>4. \A q \in {job[o].seen, job[o].victim} : q # NoPid =>
          live'[q] \in {live[q], NoName}
    BY <1>3 DEF Env, FreePids
  <1>5. Stale(o)'
    <2>1. pc[o] \in {"r_check", "r_remove"} => job[o].name \in Names
      BY DEF ActorInv, Located
    <2>2. pc[o] \in {"r_check", "r_remove"} => job[o].seen # NoPid
      BY PidAssumption DEF ActorInv, Stale, NoPid
    <2> QED
      BY <1>3, <1>4, <2>1, <2>2, NoneAssumption DEF ActorInv, Stale
  <1>6. DestroyInv(o)'
    <2> SUFFICES ASSUME job[o].op = "destroy",
                        At(o) = "d_delete" \/ (pc[o] = "d_stop" /\ ~job[o].up),
                        NEW q \in Pids \ lost'
                 PROVE  live'[q] # job[o].name
      BY <1>1 DEF DestroyInv, NoneSeen
    <2>1. lock = o /\ job[o].name \in Names /\ NoneSeen(job[o].name)
      BY DEF ActorInv, Holds, Located, DestroyInv
    <2>2. live'[q] \in {live[q], NoName}
      BY <2>1 DEF Env
    <2>3. q \in lost => live'[q] = NoName
      BY DEF Env
    <2> QED
      BY <2>1, <2>2, <2>3, NoneAssumption DEF NoneSeen
  <1>7. StopInv(o)'
    <2>1. Over(o) => Over(o)'
      BY <1>3, <1>4 DEF Over, Env
    <2> QED
      BY <1>1, <1>4, <2>1 DEF ActorInv, StopInv
  <1> QED
    BY <1>1, <1>2, <1>5, <1>6, <1>7 DEF ActorInv

\* The flock is left alone, or p takes it or gives it back.
LockMoves(p) == lock' = lock \/ {lock, lock'} \subseteq {p, NoActor}

\* A step of p: the others keep their invariants.
LEMMA ActorStep ==
    ASSUME Inv, TypeOK', NEW p \in Actors, OthersStay(p), LockMoves(p),
           \A o \in Actors \ {p} : Env(o), LiveIsSeen', ActorInv(p)'
    PROVE  Inv'
  <1>1. ASSUME NEW o \in Actors \ {p} PROVE ActorInv(o)'
    <2>1. lock = o => lock' = o
      BY NoneAssumption DEF LockMoves
    <2> QED
      BY <1>1, <2>1, Stable DEF Inv, OthersStay
  <1> QED
    BY <1>1 DEF Inv

\* A step of p that changes neither the pidfiles nor the processes.
LEMMA QuietStep ==
    ASSUME Inv, NEW p \in Actors, OthersStay(p), LockMoves(p),
           pc' \in [Actors -> Steps], job' \in [Actors -> Job],
           UNCHANGED <<recVars, pidfile, qemuVars>>, snaps' \in [Names -> SUBSET Tags],
           ActorInv(p)'
    PROVE  Inv'
  <1>1. TypeOK'
    BY DEF Inv, TypeOK, LockMoves, recVars, qemuVars
  <1>2. LiveIsSeen' /\ \A o \in Actors \ {p} : Env(o)
    BY DEF Inv, LiveIsSeen, Env, qemuVars
  <1> QED
    BY <1>1, <1>2, ActorStep

\* An actor that has returned has nothing to keep.
LEMMA ReturnKeeps ==
    ASSUME TypeOK, NEW p \in Actors, NEW r, Return(p, r)
    PROVE  ActorInv(p)' /\ LockMoves(p)
  <1>1. pc'[p] = "idle" /\ job'[p] = NoJob
    BY ReturnEffect
  <1>2. job'[p].op = "none" /\ job'[p].await = NoPid
    BY <1>1 DEF NoJob
  <1>3. LockMoves(p)
    BY ReturnEffect DEF LockMoves
  <1> QED
    BY <1>1, <1>2, <1>3
    DEF ActorInv, Located, At, Holds, Stale, DestroyInv, StopInv, SnapInv,
        RunningSteps, SnapOps

\* A caller that returns and touches nothing else keeps the invariant.
LEMMA QuietReturn ==
    ASSUME Inv, NEW p \in Actors, NEW r, Return(p, r), UNCHANGED <<fileVars, qemuVars>>
    PROVE  Inv'
  <1>1. snaps' \in [Names -> SUBSET Tags] /\ UNCHANGED <<recVars, pidfile, qemuVars>>
    BY DEF Inv, TypeOK, fileVars
  <1> QED
    BY <1>1, ReturnEffect, ReturnKeeps, QuietStep DEF Inv

\* Where a job may call Running from, and what must be so when it does.
Callable(p, j, step) ==
    /\ j.op \in {"poll", "start", "stop", "destroy"} \cup SnapOps
    /\ j.name \in Names
    /\ j.op = "poll" => step = "p_done"
    /\ j.op = "start" => step \in {"s_limit", "s_launch"} /\ lock' = p
    /\ j.op = "stop" =>
         /\ step \in {"t_state", "t_ask"} \cup Waits
         /\ j.victim # NoPid => live'[j.victim] \in {j.name, NoName}
         /\ step = "t_wait_term" => j.pid \in Pids
    /\ j.op = "destroy" =>
         /\ step \in {"d_stop", "d_delete"} /\ lock' = p
         /\ step = "d_delete" => \A q \in Pids \ lost' : live'[q] # j.name
    /\ j.op \in SnapOps => step \in {"n_list", "n_do"} /\ j.tag \in Tags

\* A caller that asks whether the VM runs knows afterwards what it knew.
LEMMA CallKeeps ==
    ASSUME TypeOK, NEW p \in Actors, NEW j \in Job, NEW step \in Steps,
           CallRunning(p, j, step), Callable(p, j, step)
    PROVE  ActorInv(p)'
  <1> DEFINE k == job'[p]
  <1>1. /\ pc'[p] = "r_read" /\ k.cont = step /\ k.await = NoPid
        /\ k.op = j.op /\ k.name = j.name /\ k.victim = j.victim /\ k.pid = j.pid
        /\ k.tag = j.tag
    BY CallRunningEffect DEF SameTask
  <1>2. At(p)' = step
    BY <1>1 DEF At, RunningSteps
  <1>3. Located(p)'
    BY <1>1, <1>2 DEF Callable, Located, SnapOps
  <1>4. (Holds(p) => lock = p)' /\ Stale(p)' /\ SnapInv(p)'
    BY <1>1 DEF Callable, Holds, Stale, SnapInv, RunningSteps, SnapOps, Waits
  <1>5. DestroyInv(p)'
    BY <1>1, <1>2 DEF Callable, DestroyInv, NoneSeen
  <1>6. StopInv(p)'
    BY <1>1, <1>2 DEF Callable, StopInv, Waits
  <1> QED
    BY <1>3, <1>4, <1>5, <1>6 DEF ActorInv

\* Running's answer: FALSE is given when the VM has no pidfile (any more).
LEMMA AnswerKeeps ==
    ASSUME Inv, NEW p \in Actors, NEW up \in BOOLEAN, pc[p] \in RunningSteps,
           Answer(p, up), ~up => pidfile'[job[p].name] = NoPid,
           LiveIsSeen', live' = live, lost \subseteq lost'
    PROVE  ActorInv(p)'
  <1> DEFINE j == job[p]  k == job'[p]
  <1>1. /\ pc'[p] = j.cont /\ k.up = up /\ k.await = j.await
        /\ k.op = j.op /\ k.name = j.name /\ k.victim = j.victim
        /\ k.pid = j.pid /\ k.tag = j.tag /\ lock' = lock
    BY AnswerEffect DEF SameTask, Inv
  <1>2. ActorInv(p) /\ j.op # "none" /\ At(p) = j.cont
    BY DEF Inv, ActorInv, Located, At, RunningSteps
  <1>3. j.name \in Names /\ j.victim \in Pids \cup {NoPid}
    BY <1>2 DEF ActorInv, Located, Inv, TypeOK, Job
  <1>4. j.cont \notin RunningSteps /\ At(p)' = j.cont /\ Located(p)'
    BY <1>1, <1>2, <1>3 DEF ActorInv, Located, At, RunningSteps, SnapOps, Waits
  <1>5. (Holds(p) => lock = p)' /\ Stale(p)'
    BY <1>1, <1>2, <1>4 DEF ActorInv, Holds, Stale, RunningSteps
  <1>6. SnapInv(p)'
    BY <1>1, <1>2, <1>4 DEF ActorInv, SnapInv
  <1>7. ~up => \A q \in Pids \ lost' : live'[q] # j.name
    <2>1. j.name # NoName /\ \A q \in Pids : q # NoPid
      BY <1>3, NoneAssumption, PidAssumption DEF NoPid
    <2>2. \A q \in Pids \ lost' : live'[q] # NoName => pidfile'[live'[q]] = q
      BY DEF LiveIsSeen
    <2> QED
      BY <2>1, <2>2
  <1>8. DestroyInv(p)'
    BY <1>1, <1>2, <1>4, <1>7 DEF ActorInv, DestroyInv, NoneSeen
  <1>9. StopInv(p)'
    <2>1. Over(p) => Over(p)'
      BY <1>1 DEF Over
    <2>2. j.op = "stop" /\ ~up => Over(p)'
      BY <1>1, <1>2, <1>3, <1>7 DEF ActorInv, StopInv, Over, NoneSeen
    <2> QED
      BY <1>1, <1>2, <1>4, <2>1, <2>2 DEF ActorInv, StopInv
  <1> QED
    BY <1>4, <1>5, <1>6, <1>8, <1>9 DEF ActorInv

-----------------------------------------------------------------------------
(* The invariant is inductive *)

\* The invariant holds before anything runs.
LEMMA InvInit == Init => Inv
  <1> SUFFICES ASSUME Init PROVE Inv
    OBVIOUS
  <1>1. ASSUME NEW n \in Names PROVE Min(RAMs[n]) \in RAMs[n] /\ RAMs[n] \subseteq Nat
    <2>1. RAMs[n] \in SUBSET Nat /\ RAMs[n] # {}
      BY RAMAssumption
    <2> QED
      BY <2>1, MinInSet
  <1>2. TypeOK
    <2>1. ram \in [Names -> Nat] /\ \A n \in Names : ram[n] \in RAMs[n]
      BY <1>1 DEF Init
    <2> QED
      BY <2>1, NoJobType DEF Init, TypeOK, Steps
  <1>3. ASSUME NEW p \in Actors PROVE ActorInv(p)
    <2>1. pc[p] = "idle" /\ job[p].op = "none"
      BY DEF Init, NoJob
    <2> QED
      BY <2>1 DEF ActorInv, Located, At, Holds, Stale, DestroyInv, StopInv, SnapInv,
                  RunningSteps, SnapOps
  <1> QED
    BY <1>2, <1>3 DEF Inv, LiveIsSeen, Init

\* qemu.Running, and the polls that call it.
LEMMA RunningKeeps ==
    ASSUME Inv, NEW p \in Actors,
           \/ RunningRead(p) \/ RunningCheck(p) \/ RunningRemove(p) \/ PollDone(p)
    PROVE  Inv'
  <1> USE DEF RunningSteps
  <1>0. TypeOK /\ job[p] \in Job /\ LiveIsSeen /\ ActorInv(p)
    BY DEF Inv, TypeOK
  <1>1. CASE RunningRead(p)
    <2> DEFINE q == pidfile[job[p].name]
    <2>0. UNCHANGED <<recVars, pidfile, qemuVars>> /\ snaps' \in [Names -> SUBSET Tags]
      BY <1>0, <1>1 DEF RunningRead, fileVars, TypeOK
    <2>1. CASE q = NoPid /\ Answer(p, FALSE)
      <3>1. LiveIsSeen' /\ live' = live /\ lost' = lost /\ pc[p] \in RunningSteps
            /\ pidfile'[job[p].name] = NoPid
        BY <1>0, <1>1, <2>0, <2>1 DEF LiveIsSeen, qemuVars, RunningRead
      <3>2. ActorInv(p)'
        BY <2>1, <3>1, AnswerKeeps
      <3> QED
        BY <1>0, <2>0, <2>1, <3>2, AnswerEffect, QuietStep DEF LockMoves
    <2>2. CASE q # NoPid /\ job' = [job EXCEPT ![p].seen = q] /\ Goto(p, "r_check")
      <3>1. q \in Pids /\ pc[p] = "r_read" /\ job[p].name \in Names
        BY <1>0, <1>1, <2>2 DEF RunningRead, TypeOK, ActorInv, Located
      <3>2. /\ job' \in [Actors -> Job] /\ SameTask(job[p], job'[p])
            /\ job'[p].seen = q /\ job'[p].cont = job[p].cont
            /\ job'[p].await = job[p].await
            /\ OthersStay(p) /\ pc'[p] = "r_check" /\ lock' = lock
            /\ pc' \in [Actors -> Steps]
        <4> DEFINE k == [job[p] EXCEPT !.seen = q]
        <4>1. /\ k \in Job /\ SameTask(job[p], k) /\ k.seen = q
              /\ k.cont = job[p].cont /\ k.await = job[p].await
          BY <1>0, <3>1, SeenEdit
        <4>2. job' = [job EXCEPT ![p] = k]
          BY <1>0, <2>2 DEF TypeOK
        <4> HIDE DEF k
        <4>3. /\ pc' \in [Actors -> Steps] /\ pc'[p] = "r_check" /\ lock' = lock
              /\ \A o \in Actors \ {p} : pc'[o] = pc[o]
          BY <1>0, <2>2, GotoEffect DEF Steps
        <4> QED
          BY <1>0, <4>1, <4>2, <4>3 DEF TypeOK, OthersStay, SameJob, SameTask
      <3>3. At(p)' = At(p) /\ Located(p)' /\ (Holds(p) => lock = p)'
        BY <1>0, <3>1, <3>2 DEF At, ActorInv, Located, Holds, SameTask
      <3>4. Stale(p)' /\ SnapInv(p)'
        BY <1>0, <3>1, <3>2 DEF Stale, SnapInv, ActorInv
      <3>5. DestroyInv(p)' /\ StopInv(p)'
        BY <1>0, <2>0, <3>1, <3>2, <3>3
        DEF ActorInv, DestroyInv, StopInv, Over, NoneSeen, SameTask, qemuVars, Waits
      <3> QED
        BY <2>0, <3>2, <3>3, <3>4, <3>5, QuietStep DEF ActorInv, LockMoves
    <2> QED
      BY <1>1, <2>1, <2>2 DEF RunningRead
  <1>2. CASE RunningCheck(p)
    <2>0. UNCHANGED <<recVars, pidfile, qemuVars>> /\ snaps' \in [Names -> SUBSET Tags]
      BY <1>0, <1>2 DEF RunningCheck, fileVars, TypeOK
    <2>1. CASE Answer(p, TRUE)
      <3>1. LiveIsSeen' /\ live' = live /\ lost' = lost /\ pc[p] \in RunningSteps
        BY <1>0, <1>2, <2>0, <2>1 DEF LiveIsSeen, qemuVars, RunningCheck
      <3>2. ActorInv(p)'
        BY <2>1, <3>1, AnswerKeeps
      <3> QED
        BY <1>0, <2>0, <2>1, <3>2, AnswerEffect, QuietStep DEF LockMoves
    <2>2. CASE live[job[p].seen] # job[p].name /\ Goto(p, "r_remove") /\ UNCHANGED job
      <3>1. /\ pc' \in [Actors -> Steps] /\ pc'[p] = "r_remove" /\ job' = job
            /\ OthersStay(p) /\ lock' = lock /\ pc[p] = "r_check"
        BY <1>0, <1>2, <2>2, GotoEffect
        DEF RunningCheck, OthersStay, SameJob, SameTask, Steps
      <3>2. At(p)' = At(p) /\ Located(p)' /\ (Holds(p) => lock = p)'
        BY <1>0, <3>1 DEF At, ActorInv, Located, Holds
      <3>3. Stale(p)' /\ SnapInv(p)'
        BY <1>0, <2>0, <2>2, <3>1 DEF Stale, SnapInv, ActorInv, qemuVars
      <3>4. DestroyInv(p)' /\ StopInv(p)'
        BY <1>0, <2>0, <3>1, <3>2
        DEF ActorInv, DestroyInv, StopInv, Over, NoneSeen, qemuVars, Waits
      <3> QED
        BY <1>0, <2>0, <3>1, <3>2, <3>3, <3>4, QuietStep DEF ActorInv, LockMoves, TypeOK
    <2> QED
      BY <1>2, <2>1, <2>2 DEF RunningCheck
  <1>3. CASE RunningRemove(p)
    <2> DEFINE n == job[p].name
    <2>1. /\ pc[p] = "r_remove" /\ n \in Names /\ live[job[p].seen] # n
          /\ pidfile' = [pidfile EXCEPT ![n] = NoPid]
          /\ lost' = IF Seen(n) /\ pidfile[n] # job[p].seen
                       THEN lost \cup {pidfile[n]} ELSE lost
          /\ live' = live /\ resized' = resized /\ UNCHANGED <<recVars, snaps>>
          /\ Answer(p, FALSE)
      BY <1>0, <1>3 DEF RunningRemove, ActorInv, Located, Stale
    <2>2. lost \subseteq lost' /\ lost' \subseteq {q \in Pids : live[q] # NoName}
      BY <1>0, <2>1, NoneAssumption DEF TypeOK, Seen
    <2>3. /\ job' \in [Actors -> Job] /\ pc' \in [Actors -> Steps]
          /\ OthersStay(p) /\ lock' = lock
      BY <1>0, <2>1, AnswerEffect
    <2>4. TypeOK'
      BY <1>0, <2>1, <2>2, <2>3 DEF TypeOK, recVars
    <2>5. LiveIsSeen'
      <3> SUFFICES ASSUME NEW q \in Pids \ lost', live[q] # NoName
                   PROVE  pidfile'[live[q]] = q
        BY <2>1 DEF LiveIsSeen
      <3>1. pidfile[live[q]] = q /\ live[q] \in Names
        BY <1>0, <2>2 DEF LiveIsSeen, TypeOK
      <3>2. live[q] # n
        BY <1>0, <2>1, <3>1, PidAssumption DEF Seen, NoPid
      <3> QED
        BY <1>0, <2>1, <3>1, <3>2 DEF TypeOK
    <2>6. ActorInv(p)'
      <3>1. pidfile'[n] = NoPid
        BY <1>0, <2>1 DEF TypeOK
      <3> QED
        BY <2>1, <2>2, <2>5, <3>1, AnswerKeeps
    <2>7. \A o \in Actors \ {p} : Env(o)
      BY <2>1, <2>2 DEF Env
    <2> QED
      BY <2>3, <2>4, <2>5, <2>6, <2>7, ActorStep DEF LockMoves
  <1>4. CASE PollDone(p)
    BY <1>4, QuietReturn DEF PollDone
  <1> QED
    BY <1>1, <1>2, <1>3, <1>4

\* A quiet step of p that calls Running.
LEMMA QuietCall ==
    ASSUME Inv, NEW p \in Actors, NEW j \in Job, NEW step \in Steps,
           CallRunning(p, j, step), Callable(p, j, step), LockMoves(p),
           UNCHANGED <<fileVars, qemuVars>>
    PROVE  Inv'
  <1>1. snaps' \in [Names -> SUBSET Tags] /\ UNCHANGED <<recVars, pidfile, qemuVars>>
    BY DEF Inv, TypeOK, fileVars
  <1>2. ActorInv(p)'
    BY CallKeeps DEF Inv
  <1> QED
    BY <1>1, <1>2, CallRunningEffect, QuietStep DEF Inv

\* The first step of each operation.
LEMMA BeginKeeps ==
    ASSUME Inv, NEW p \in Actors, Begin(p)
    PROVE  Inv'
  <1>0. TypeOK /\ LiveIsSeen
    BY DEF Inv
  <1>o. {"poll", "start", "stop", "destroy"} \cup SnapOps \subseteq AllOps
    BY DEF AllOps
  <1>1. ASSUME NEW n \in Names, Poll(p, n) PROVE Inv'
    <2> DEFINE j == NewJob("poll", n)
    <2>1. j \in Job /\ j.op = "poll" /\ j.name = n
      BY <1>o, NewJobType
    <2>2. Callable(p, j, "p_done") /\ LockMoves(p)
      BY <1>1, <2>1 DEF Callable, LockMoves, Poll, SnapOps
    <2> QED
      BY <1>1, <2>1, <2>2, QuietCall DEF Poll, Steps
  <1>2. ASSUME NEW n \in Names, Start(p, n) PROVE Inv'
    <2> DEFINE j == [NewJob("start", n) EXCEPT !.ram = ram[n]]
    <2>1. j \in Job /\ j.op = "start" /\ j.name = n /\ j.await = NoPid
      <3>1. ram[n] \in Nat
        BY <1>0 DEF TypeOK
      <3>2. /\ NewJob("start", n) \in Job /\ NewJob("start", n).op = "start"
            /\ NewJob("start", n).name = n /\ NewJob("start", n).await = NoPid
        BY <1>o, NewJobType
      <3> QED
        BY <3>1, <3>2, NoteInJob
    <2>2. /\ pc' \in [Actors -> Steps] /\ pc'[p] = "s_lock" /\ lock' = lock
          /\ \A o \in Actors \ {p} : pc'[o] = pc[o]
          /\ job' = [job EXCEPT ![p] = j]
          /\ UNCHANGED <<recVars, pidfile, qemuVars, snaps>>
      BY <1>0, <1>2, GotoEffect DEF Start, fileVars, Steps
    <2> HIDE DEF j
    <2>3. job' \in [Actors -> Job] /\ job'[p] = j /\ OthersStay(p)
      BY <1>0, <2>1, <2>2 DEF TypeOK, OthersStay, SameJob, SameTask
    <2>4. ActorInv(p)'
      BY <2>1, <2>2, <2>3
      DEF ActorInv, Located, At, RunningSteps, Holds, Stale, DestroyInv, StopInv, SnapInv,
          SnapOps
    <2> QED
      BY <1>0, <2>2, <2>3, <2>4, QuietStep DEF LockMoves, TypeOK
  <1>3. ASSUME NEW n \in Names, Stop(p, n) PROVE Inv'
    <2> DEFINE v == IF Live(n) = {} THEN NoPid ELSE Min(Live(n))
               j == [NewJob("stop", n) EXCEPT !.victim = v]
    <2>1. v \in Pids \cup {NoPid} /\ (v # NoPid => live[v] = n)
      <3>1. Live(n) \in SUBSET Nat /\ Live(n) # {} => Min(Live(n)) \in Live(n)
        BY MinInSet
      <3>2. Live(n) \subseteq Pids /\ Live(n) \in SUBSET Nat
        BY PidAssumption DEF Live
      <3> QED
        BY <3>1, <3>2 DEF Live
    <2> HIDE DEF v
    <2>2. j \in Job /\ j.op = "stop" /\ j.name = n /\ j.victim = v
      BY <1>o, <2>1, NewJobType, NoteInJob
    <2>3. CallRunning(p, j, "t_state") /\ UNCHANGED <<lock, fileVars, qemuVars>>
      BY <1>3 DEF Stop, v
    <2> HIDE DEF j
    <2>4. Callable(p, j, "t_state") /\ LockMoves(p)
      BY <2>1, <2>2, <2>3 DEF Callable, LockMoves, qemuVars, SnapOps
    <2> QED
      BY <2>2, <2>3, <2>4, QuietCall DEF Steps
  <1>4. ASSUME NEW n \in Names, Destroy(p, n) PROVE Inv'
    <2> DEFINE j == NewJob("destroy", n)
    <2>1. j \in Job /\ j.op = "destroy" /\ j.name = n
      BY <1>o, NewJobType
    <2>2. Callable(p, j, "d_stop") /\ LockMoves(p)
      BY <1>4, <2>1 DEF Callable, LockMoves, Destroy, SnapOps
    <2> QED
      BY <1>4, <2>1, <2>2, QuietCall DEF Destroy, Steps
  <1>5. ASSUME NEW n \in Names, NEW o \in SnapOps, NEW t \in Tags, Snapshot(p, o, n, t)
        PROVE  Inv'
    <2> DEFINE j == [NewJob(o, n) EXCEPT !.tag = t]
               step == IF o = "delete" THEN "n_list" ELSE "n_do"
    <2>1. j \in Job /\ j.op = o /\ j.name = n /\ j.tag = t
      BY <1>o, NewJobType, NoteInJob
    <2>2. CallRunning(p, j, step) /\ UNCHANGED <<lock, fileVars, qemuVars>>
      BY <1>5 DEF Snapshot
    <2>3. step \in {"n_list", "n_do"}
      OBVIOUS
    <2> HIDE DEF j, step
    <2>4. Callable(p, j, step) /\ LockMoves(p) /\ step \in Steps
      BY <2>1, <2>2, <2>3 DEF Callable, LockMoves, SnapOps, Steps
    <2> QED
      BY <2>1, <2>2, <2>4, QuietCall
  <1> QED
    BY <1>1, <1>2, <1>3, <1>4, <1>5 DEF Begin

\* core.Start.
LEMMA StartKeeps ==
    ASSUME Inv, NEW p \in Actors,
           \/ StartLock(p) \/ StartLimit(p) \/ Launch(p) \/ StartFails(p)
    PROVE  Inv'
  <1>0. TypeOK /\ job[p] \in Job /\ LiveIsSeen /\ ActorInv(p)
    BY DEF Inv, TypeOK
  <1> USE DEF Steps, SnapOps, RunningSteps, Waits
  <1>1. CASE StartLock(p)
    <2>1. job[p].op = "start" /\ job[p].name \in Names
      BY <1>0, <1>1 DEF StartLock, ActorInv, Located, At
    <2>2. Callable(p, job[p], "s_limit") /\ LockMoves(p)
      BY <1>1, <2>1 DEF StartLock, Callable, LockMoves
    <2> QED
      BY <1>0, <1>1, <2>2, QuietCall DEF StartLock
  <1>2. CASE StartLimit(p)
    <2>1. job[p].op = "start" /\ job[p].name \in Names /\ lock = p
      BY <1>0, <1>2 DEF StartLimit, ActorInv, Located, At, Holds
    <2>2. /\ pidfile' = [n \in Names |-> IF n \in recs /\ ~Seen(n) THEN NoPid ELSE pidfile[n]]
          /\ UNCHANGED <<lock, recVars, snaps, qemuVars>>
          /\ CallRunning(p, job[p], "s_launch")
      BY <1>2 DEF StartLimit
    <2>3. ActorInv(p)'
      <3>1. Callable(p, job[p], "s_launch")
        BY <2>1, <2>2 DEF Callable
      <3> QED
        BY <1>0, <2>2, <3>1, CallKeeps
    <2>4. /\ pc' \in [Actors -> Steps] /\ job' \in [Actors -> Job] /\ OthersStay(p)
      BY <1>0, <2>2, CallRunningEffect
    <2>5. TypeOK'
      BY <1>0, <2>2, <2>4 DEF TypeOK, recVars, qemuVars
    <2>6. LiveIsSeen' /\ \A o \in Actors \ {p} : Env(o)
      BY <1>0, <2>2, PidAssumption DEF LiveIsSeen, Env, qemuVars, Seen, TypeOK, NoPid
    <2> QED
      BY <2>2, <2>3, <2>4, <2>5, <2>6, ActorStep DEF LockMoves
  <1>3. CASE Launch(p)
    <2> DEFINE n == job[p].name  q == Min(FreePids)
    <2>1. n \in Names /\ lock = p
      BY <1>0, <1>3 DEF Launch, ActorInv, Located, At, Holds
    <2>2. q \in FreePids
      <3>1. FreePids \in SUBSET Nat
        BY PidAssumption DEF FreePids
      <3> QED
        BY <1>3, <3>1, MinInSet DEF Launch
    <2>3. q \in Pids /\ live[q] = NoName
      BY <2>2 DEF FreePids
    <2>4. /\ Live(n) = {}
          /\ live' = [live EXCEPT ![q] = n]
          /\ resized' = IF n \in recs /\ ram[n] # job[p].ram THEN resized \cup {q} ELSE resized
          /\ pidfile' = [pidfile EXCEPT ![n] = q]
          /\ Return(p, "ok")
          /\ UNCHANGED <<recVars, snaps, lost>>
      BY <1>3 DEF Launch
    <2> HIDE DEF n, q
    <2>5. /\ pc' \in [Actors -> Steps] /\ job' \in [Actors -> Job] /\ OthersStay(p)
          /\ ActorInv(p)' /\ LockMoves(p)
      BY <1>0, <2>4, ReturnEffect, ReturnKeeps
    <2>6. \A o \in Actors \ {p} : Env(o)
      BY <1>0, <2>1, <2>2, <2>3, <2>4 DEF Env, TypeOK
    <2>7. TypeOK'
      <3>1. live' \in [Pids -> Names \cup {NoName}] /\ pidfile' \in [Names -> Pids \cup {NoPid}]
        BY <1>0, <2>1, <2>3, <2>4 DEF TypeOK
      <3>2. lost' \cup resized' \subseteq {x \in Pids : live'[x] # NoName}
        BY <1>0, <2>1, <2>3, <2>4, NoneAssumption DEF TypeOK
      <3>3. lock' \in Actors \cup {NoActor}
        BY <1>0, <2>5 DEF LockMoves, TypeOK
      <3> QED
        BY <1>0, <2>4, <2>5, <3>1, <3>2, <3>3 DEF TypeOK, recVars
    <2>8. LiveIsSeen'
      <3> SUFFICES ASSUME NEW x \in Pids \ lost, live'[x] # NoName
                   PROVE  pidfile'[live'[x]] = x
        BY <2>4 DEF LiveIsSeen
      <3>1. CASE x = q
        BY <1>0, <2>1, <2>3, <2>4, <3>1 DEF TypeOK
      <3>2. CASE x # q
        <4>1. live'[x] = live[x] /\ live[x] # n /\ pidfile[live[x]] = x /\ live[x] \in Names
          BY <1>0, <2>1, <2>3, <2>4, <3>2 DEF TypeOK, Live, LiveIsSeen
        <4> QED
          BY <1>0, <2>1, <2>4, <4>1 DEF TypeOK
      <3> QED
        BY <3>1, <3>2
    <2> QED
      BY <2>5, <2>6, <2>7, <2>8, ActorStep
  <1>4. CASE StartFails(p)
    BY <1>4, QuietReturn DEF StartFails
  <1> QED
    BY <1>1, <1>2, <1>3, <1>4

\* core.Stop.
LEMMA StopKeeps ==
    ASSUME Inv, NEW p \in Actors,
           \/ StopState(p) \/ StopAsk(p) \/ StopAwait(p) \/ StopGone(p)
           \/ StopTimeout(p) \/ StopTerm(p)
    PROVE  Inv'
  <1>0. TypeOK /\ job[p] \in Job /\ LiveIsSeen /\ ActorInv(p)
    BY DEF Inv, TypeOK
  <1>1. /\ pc[p] \in {"t_state", "t_ask", "t_term", "t_kill"} \cup Waits
        /\ UNCHANGED <<fileVars, qemuVars>>
    BY DEF StopState, StopAsk, StopAwait, StopGone, StopTimeout, StopTerm
  <1>2. job[p].op = "stop" /\ job[p].name \in Names
    BY <1>0, <1>1 DEF ActorInv, Located, At, RunningSteps, SnapOps, Waits
  <1>3. /\ job[p].victim # NoPid => live'[job[p].victim] \in {job[p].name, NoName}
        /\ Over(p) => Over(p)'
           \/ job[p].victim # job'[p].victim
        /\ live' = live /\ lost' = lost /\ pidfile' = pidfile
    BY <1>0, <1>1, <1>2 DEF ActorInv, StopInv, Over, qemuVars, fileVars
  <1>4. ASSUME NEW r, Return(p, r) PROVE Inv'
    BY <1>1, <1>4, QuietReturn
  <1>5. ASSUME NEW step \in {"t_ask", "t_wait"}, CallRunning(p, job[p], step), lock' = lock
        PROVE  Inv'
    <2>1. Callable(p, job[p], step) /\ LockMoves(p) /\ step \in Steps
      BY <1>2, <1>3, <1>5 DEF Callable, LockMoves, SnapOps, Steps, Waits
    <2> QED
      BY <1>0, <1>1, <1>5, <2>1, QuietCall
  <1>6. ASSUME NEW step \in {"t_term", "t_kill"}, Goto(p, step), UNCHANGED job,
               step = "t_kill" => pc[p] = "t_wait_term"
        PROVE  Inv'
    <2>1. /\ pc' \in [Actors -> Steps] /\ pc'[p] = step /\ lock' = lock
          /\ OthersStay(p) /\ LockMoves(p)
      BY <1>0, <1>6, GotoEffect DEF Steps, OthersStay, SameJob, SameTask, LockMoves
    <2>2. At(p)' = step /\ Located(p)' /\ (Holds(p) => lock = p)' /\ Stale(p)'
      BY <1>2, <1>6, <2>1 DEF At, Located, Holds, Stale, RunningSteps, SnapOps
    <2>3. DestroyInv(p)' /\ SnapInv(p)'
      BY <1>2, <1>6, <2>1, <2>2 DEF DestroyInv, SnapInv, RunningSteps
    <2>4. StopInv(p)'
      <3>1. pc[p] = "t_wait_term" => At(p) = "t_wait_term"
        BY DEF At, RunningSteps
      <3> QED
        BY <1>0, <1>2, <1>3, <1>6, <2>1, <2>2, <3>1 DEF ActorInv, StopInv, Over, Waits
    <2> QED
      BY <1>0, <1>1, <1>6, <2>1, <2>2, <2>3, <2>4, QuietStep
      DEF ActorInv, TypeOK, fileVars
  <1>7. CASE StopAwait(p)
    <2> DEFINE q == pidfile[job[p].name]  k == [job[p] EXCEPT !.await = q]
    <2>1. q \in Pids
      BY <1>0, <1>2, <1>7 DEF StopAwait, TypeOK
    <2>2. k \in Job /\ SameTask(job[p], k) /\ k.await = q /\ k.up = job[p].up
      <3> HIDE DEF q
      <3> QED
        BY <1>0, <2>1, AwaitEdit
    <2>3. /\ job' = [job EXCEPT ![p] = k] /\ pc' = pc /\ lock' = lock
          /\ pc[p] \in Waits /\ job[p].up
      BY <1>0, <1>7 DEF StopAwait, TypeOK
    <2> HIDE DEF k
    <2>4. job' \in [Actors -> Job] /\ job'[p] = k /\ OthersStay(p) /\ LockMoves(p)
      BY <1>0, <2>2, <2>3 DEF TypeOK, OthersStay, SameJob, SameTask, LockMoves
    <2>5. Located(p)' /\ (Holds(p) => lock = p)' /\ Stale(p)' /\ DestroyInv(p)' /\ SnapInv(p)'
      <3>1. k.op = "stop" /\ k.name \in Names
        BY <1>2, <2>2 DEF SameTask
      <3>2. Located(p)'
        BY <1>0, <1>2, <2>3, <2>4, <3>1
        DEF ActorInv, Located, At, RunningSteps, SnapOps, Waits
      <3> QED
        BY <2>3, <2>4, <3>1, <3>2 DEF Holds, Stale, DestroyInv, SnapInv, RunningSteps, Waits
    <2>6. StopInv(p)'
      <3>1. job[p].victim \in Pids \cup {NoPid}
        BY <1>0 DEF Job
      <3>2. q = job[p].victim \/ Over(p)
        BY <1>0, <1>2, <3>1, NoneAssumption DEF ActorInv, StopInv, Over, LiveIsSeen
      <3>3. Over(p) => Over(p)'
        BY <1>3, <2>2, <2>4 DEF SameTask
      <3>4. At(p)' = At(p) /\ StopInv(p)
        BY <1>0, <2>3, <2>4 DEF ActorInv, At, RunningSteps, Waits
      <3>5. k.op = "stop" /\ k.victim = job[p].victim /\ k.name = job[p].name
            /\ k.pid = job[p].pid /\ k.await = q /\ k.up
        BY <1>2, <2>2, <2>3 DEF SameTask
      <3> HIDE DEF q
      <3> QED
        BY <1>2, <1>3, <2>3, <2>4, <3>2, <3>3, <3>4, <3>5 DEF StopInv
    <2> QED
      BY <1>0, <1>1, <2>3, <2>4, <2>5, <2>6, QuietStep DEF ActorInv, TypeOK, fileVars
  <1>8. CASE StopState(p) \/ StopAsk(p) \/ StopGone(p) \/ StopTimeout(p)
    BY <1>4, <1>5, <1>6, <1>8 DEF StopState, StopAsk, StopGone, StopTimeout, Waits
  <1>9. CASE StopTerm(p)
    <2> DEFINE q == pidfile[job[p].name]  k == [job[p] EXCEPT !.pid = q]
    <2>1. CASE q # NoPid /\ CallRunning(p, k, "t_wait_term") /\ lock' = lock
      <3>0. q \in Pids
        BY <1>0, <1>2, <2>1 DEF TypeOK
      <3>1. /\ k \in Job /\ k.op = job[p].op /\ k.name = job[p].name
            /\ k.victim = job[p].victim /\ k.pid \in Pids
        BY <1>0, <3>0, PidEdit
      <3> HIDE DEF k
      <3>2. Callable(p, k, "t_wait_term") /\ LockMoves(p)
        BY <1>2, <1>3, <2>1, <3>1
        DEF Callable, LockMoves, SnapOps, Waits
      <3> QED
        BY <1>1, <2>1, <3>1, <3>2, QuietCall DEF Steps, Waits
    <2> QED
      BY <1>4, <1>9, <2>1 DEF StopTerm
  <1> QED
    BY <1>7, <1>8, <1>9

\* A qemu dies: no other sees a new process, and LiveIsSeen stays.
LEMMA DiesKeeps ==
    ASSUME TypeOK, LiveIsSeen, NEW q \in Pids, Dies(q),
           \A n \in Names : pidfile'[n] # pidfile[n] => pidfile[n] = q
    PROVE  /\ live' \in [Pids -> Names \cup {NoName}]
           /\ lost' \cup resized' \subseteq {x \in Pids : live'[x] # NoName}
           /\ LiveIsSeen' /\ \A o \in Actors : Env(o)
           /\ \A x \in Pids : live'[x] \in {live[x], NoName}
  <1>1. /\ live' = [live EXCEPT ![q] = NoName]
        /\ lost' = lost \ {q} /\ resized' = resized \ {q}
    BY DEF Dies
  <1>2. live' \in [Pids -> Names \cup {NoName}] /\ live'[q] = NoName
        /\ \A x \in Pids \ {q} : live'[x] = live[x]
    BY <1>1 DEF TypeOK
  <1>3. lost' \cup resized' \subseteq {x \in Pids : live'[x] # NoName}
    BY <1>1, <1>2 DEF TypeOK
  <1>4. LiveIsSeen'
    BY <1>1, <1>2, NoneAssumption DEF LiveIsSeen, TypeOK
  <1>5. \A o \in Actors : Env(o)
    BY <1>1, <1>2 DEF Env
  <1> QED
    BY <1>2, <1>3, <1>4, <1>5

\* The kill at the end of Stop keeps the invariant.
LEMMA StopKillKeeps ==
    ASSUME Inv, NEW p \in Actors, StopKill(p)
    PROVE  Inv'
  <1>0. TypeOK /\ job[p] \in Job /\ LiveIsSeen /\ ActorInv(p)
    BY DEF Inv, TypeOK
  <1> DEFINE q == job[p].pid
  <1>2. /\ job[p].op = "stop" /\ job[p].name \in Names /\ UNCHANGED fileVars
        /\ job[p].victim \in Pids \cup {NoPid}
        /\ job[p].victim # NoPid => live[job[p].victim] \in {job[p].name, NoName}
    BY <1>0 DEF StopKill, ActorInv, Located, At, RunningSteps, SnapOps, Waits, StopInv, Job
  <1>3. CASE Return(p, "err") /\ UNCHANGED qemuVars
    BY <1>2, <1>3, QuietReturn
  <1>4. ASSUME CallRunning(p, job[p], "t_wait_kill"), lock' = lock,
               \A x \in Pids : live'[x] \in {live[x], NoName}
        PROVE  ActorInv(p)' /\ LockMoves(p)
    <2>1. job[p].victim # NoPid => live'[job[p].victim] \in {job[p].name, NoName}
      BY <1>2, <1>4
    <2>2. Callable(p, job[p], "t_wait_kill") /\ LockMoves(p)
      BY <1>2, <1>4, <2>1 DEF Callable, LockMoves, SnapOps, Waits
    <2> QED
      BY <1>0, <1>4, <2>2, CallKeeps DEF Steps, Waits
  <1>5. CASE CallRunning(p, job[p], "t_wait_kill") /\ lock' = lock /\ UNCHANGED qemuVars
    <2>1. ActorInv(p)' /\ LockMoves(p)
      BY <1>0, <1>4, <1>5 DEF qemuVars, TypeOK
    <2>2. /\ pc' \in [Actors -> Steps] /\ job' \in [Actors -> Job] /\ OthersStay(p)
      BY <1>0, <1>5, CallRunningEffect DEF Steps, Waits
    <2> QED
      BY <1>0, <1>2, <1>5, <2>1, <2>2, QuietStep DEF fileVars, TypeOK
  <1>6. CASE /\ CallRunning(p, job[p], "t_wait_kill") /\ lock' = lock /\ Dies(q)
    <2>1. q \in Pids
      BY <1>0, <1>2 DEF StopKill, ActorInv, StopInv, At, RunningSteps
    <2>2. /\ live' \in [Pids -> Names \cup {NoName}]
          /\ lost' \cup resized' \subseteq {x \in Pids : live'[x] # NoName}
          /\ LiveIsSeen' /\ \A o \in Actors : Env(o)
          /\ \A x \in Pids : live'[x] \in {live[x], NoName}
      BY <1>0, <1>2, <1>6, <2>1, DiesKeeps DEF fileVars
    <2>3. ActorInv(p)' /\ LockMoves(p)
      BY <1>4, <1>6, <2>2
    <2>4. /\ pc' \in [Actors -> Steps] /\ job' \in [Actors -> Job] /\ OthersStay(p)
      BY <1>0, <1>6, CallRunningEffect DEF Steps, Waits
    <2>5. TypeOK'
      BY <1>0, <1>2, <1>6, <2>2, <2>4 DEF TypeOK, fileVars, recVars
    <2> QED
      BY <2>2, <2>3, <2>4, <2>5, ActorStep
  <1> QED
    BY <1>2, <1>3, <1>5, <1>6 DEF StopKill

\* core.Destroy.
LEMMA DestroyKeeps ==
    ASSUME Inv, NEW p \in Actors, DestroyStop(p) \/ DestroyDelete(p)
    PROVE  Inv'
  <1>0. TypeOK /\ job[p] \in Job /\ LiveIsSeen /\ ActorInv(p)
    BY DEF Inv, TypeOK
  <1>1. job[p].op = "destroy" /\ job[p].name \in Names /\ lock = p
    BY <1>0 DEF DestroyStop, DestroyDelete, ActorInv, Located, At, Holds, RunningSteps,
                SnapOps, Waits
  <1>2. CASE DestroyStop(p) /\ job[p].up
    BY <1>2, QuietReturn DEF DestroyStop
  <1>3. CASE DestroyStop(p) /\ ~job[p].up
    <2>1. /\ CallRunning(p, job[p], "d_delete") /\ UNCHANGED <<lock, fileVars, qemuVars>>
          /\ NoneSeen(job[p].name)
      BY <1>0, <1>1, <1>3 DEF DestroyStop, ActorInv, DestroyInv
    <2>2. Callable(p, job[p], "d_delete") /\ LockMoves(p)
      BY <1>1, <2>1 DEF Callable, LockMoves, NoneSeen, SnapOps, qemuVars
    <2> QED
      BY <1>0, <2>1, <2>2, QuietCall DEF Steps
  <1>4. CASE DestroyDelete(p)
    <2> DEFINE n == job[p].name
    <2>1. /\ recs' = recs \ {n} /\ pidfile' = [pidfile EXCEPT ![n] = NoPid]
          /\ snaps' = [snaps EXCEPT ![n] = {}] /\ lock' = NoActor
          /\ pc' = [pc EXCEPT ![p] = "idle"]
          /\ UNCHANGED <<ram, qemuVars>>
      BY <1>4 DEF DestroyDelete
    <2>2. NoneSeen(n)
      BY <1>0, <1>1, <1>4 DEF DestroyDelete, ActorInv, DestroyInv, At, RunningSteps
    <2>3. /\ job'[p] = NoJob
          /\ \A o \in Actors \ {p} : \/ job'[o] = [job[o] EXCEPT !.open = FALSE]
                                     \/ job'[o] = job[o]
          /\ DOMAIN job' = Actors
          /\ job' = [o \in Actors |-> job'[o]]
      BY <1>4 DEF DestroyDelete
    <2>4. \A o \in Actors \ {p} : job'[o] \in Job /\ SameJob(job[o], job'[o])
      <3> SUFFICES ASSUME NEW o \in Actors \ {p}
                   PROVE  job'[o] \in Job /\ SameJob(job[o], job'[o])
        OBVIOUS
      <3>1. job[o] \in Job /\ SameJob(job[o], job[o])
        BY <1>0 DEF TypeOK, SameJob, SameTask
      <3> QED
        BY <2>3, <3>1, OpenEdit
    <2>5. job' \in [Actors -> Job] /\ pc' \in [Actors -> Steps] /\ OthersStay(p)
      BY <1>0, <2>1, <2>3, <2>4, NoJobType DEF TypeOK, Steps, OthersStay
    <2>6. TypeOK'
      BY <1>0, <1>1, <2>1, <2>5 DEF TypeOK, qemuVars
    <2>7. LiveIsSeen' /\ \A o \in Actors \ {p} : Env(o)
      BY <1>0, <1>1, <2>1, <2>2 DEF LiveIsSeen, Env, NoneSeen, qemuVars, TypeOK
    <2>8. ActorInv(p)' /\ LockMoves(p)
      <3>1. pc'[p] = "idle" /\ job'[p].op = "none" /\ lock' = NoActor
        BY <1>0, <2>1, <2>3 DEF NoJob, TypeOK
      <3> QED
        BY <1>1, <3>1
        DEF ActorInv, Located, At, Holds, Stale, DestroyInv, StopInv, SnapInv,
            RunningSteps, SnapOps, LockMoves
    <2> QED
      BY <2>5, <2>6, <2>7, <2>8, ActorStep
  <1> QED
    BY <1>2, <1>3, <1>4

SnapSteps == {"n_list", "n_do", "q_send", "q_read", "i_open", "i_run", "i_done"}

\* A snapshot operation goes on to another of its steps.
LEMMA SnapStep ==
    ASSUME Inv, NEW p \in Actors, job[p].op \in SnapOps, NEW step \in SnapSteps,
           NEW k \in Job, k.op = job[p].op, k.name = job[p].name, k.tag = job[p].tag,
           pc' = [pc EXCEPT ![p] = step], job' = [job EXCEPT ![p] = k], lock' = lock,
           UNCHANGED <<recVars, pidfile, qemuVars>>, snaps' \in [Names -> SUBSET Tags],
           step = "q_read" /\ ~k.did => \A i \in 1..Len(k.inbox) : k.inbox[i] # "return",
           step = "i_done" => k.did
    PROVE  Inv'
  <1>1. TypeOK /\ ActorInv(p)
    BY DEF Inv
  <1>2. /\ pc' \in [Actors -> Steps] /\ job' \in [Actors -> Job] /\ OthersStay(p)
        /\ pc'[p] = step /\ job'[p] = k /\ LockMoves(p)
    BY <1>1 DEF TypeOK, SnapSteps, Steps, OthersStay, SameJob, SameTask, LockMoves
  <1>3. At(p)' = step
    BY <1>2 DEF At, RunningSteps, SnapSteps
  <1>4. Located(p)'
    BY <1>1, <1>2, <1>3 DEF ActorInv, Located, SnapSteps, SnapOps
  <1>5. (Holds(p) => lock = p)' /\ DestroyInv(p)' /\ StopInv(p)'
    BY <1>2 DEF Holds, DestroyInv, StopInv, SnapOps
  <1>6. Stale(p)' /\ SnapInv(p)'
    BY <1>2 DEF Stale, SnapInv, SnapSteps, RunningSteps
  <1> QED
    BY <1>2, <1>4, <1>5, <1>6, QuietStep DEF ActorInv

\* core.TakeSnapshot, Restore and DeleteSnapshot.
LEMMA SnapshotKeeps ==
    ASSUME Inv, NEW p \in Actors,
           \/ SnapshotList(p) \/ RestoreState(p) \/ QmpDial(p) \/ QmpSend(p)
           \/ QmpRead(p) \/ QmpLost(p) \/ ImgOpen(p) \/ ImgRun(p) \/ ImgDone(p)
    PROVE  Inv'
  <1> DEFINE j == job[p]
  <1>0. TypeOK /\ j \in Job /\ ActorInv(p)
    BY DEF Inv, TypeOK
  <1>1. /\ pc[p] \in SnapSteps /\ UNCHANGED <<recVars, pidfile, qemuVars>>
    BY DEF SnapshotList, RestoreState, QmpDial, QmpSend, QmpRead, QmpLost, ImgOpen,
           ImgRun, ImgDone, SnapSteps, fileVars
  <1>2. j.op \in SnapOps /\ j.name \in Names /\ j.tag \in Tags
    BY <1>0, <1>1 DEF ActorInv, Located, At, RunningSteps, SnapOps, SnapSteps, Waits
  <1>3. SnapInv(p)
    BY <1>0 DEF ActorInv
  <1>4. ASSUME NEW r, Return(p, r), UNCHANGED snaps PROVE Inv'
    BY <1>1, <1>4, QuietReturn DEF fileVars
  <1>5. ASSUME NEW step \in {"n_list", "n_do"}, CallRunning(p, j, step), lock' = lock,
               UNCHANGED snaps
        PROVE  Inv'
    <2>1. Callable(p, j, step) /\ LockMoves(p) /\ step \in Steps
      BY <1>2, <1>5 DEF Callable, LockMoves, SnapOps, Steps
    <2> QED
      BY <1>0, <1>1, <1>5, <2>1, QuietCall DEF fileVars
  <1>6. ASSUME NEW step \in {"q_send", "i_open", "i_run"}, NEW k \in Job,
               k.op = j.op, k.name = j.name, k.tag = j.tag, Goto(p, step),
               job' = [job EXCEPT ![p] = k], UNCHANGED snaps
        PROVE  Inv'
    BY <1>0, <1>1, <1>2, <1>6, SnapStep DEF SnapSteps, Goto, TypeOK
  <1>7. CASE SnapshotList(p)
    <2>1. CASE Goto(p, "i_open") /\ UNCHANGED job
      <3>1. job' = [job EXCEPT ![p] = j]
        BY <1>0, <2>1 DEF TypeOK
      <3> QED
        BY <1>0, <1>6, <1>7, <2>1, <3>1 DEF SnapshotList, fileVars
    <2> QED
      BY <1>4, <1>5, <1>7, <2>1 DEF SnapshotList, fileVars
  <1>8. CASE RestoreState(p)
    BY <1>4, <1>5, <1>8 DEF RestoreState, fileVars
  <1>9. CASE QmpDial(p)
    <2>1. CASE /\ Live(j.name) # {} /\ job' = [job EXCEPT ![p].pid = Min(Live(j.name))]
               /\ Goto(p, "q_send")
      <3> DEFINE q == Min(Live(j.name))  k == [j EXCEPT !.pid = q]
      <3>1. q \in Pids
        <4>1. Live(j.name) \in SUBSET Nat /\ Live(j.name) \subseteq Pids
          BY PidAssumption DEF Live
        <4> QED
          BY <2>1, <4>1, MinInSet
      <3>2. job' = [job EXCEPT ![p] = k]
        BY <1>0, <2>1 DEF TypeOK
      <3> HIDE DEF q
      <3>3. k \in Job /\ k.op = j.op /\ k.name = j.name /\ k.tag = j.tag
        BY <1>0, <3>1, PidEdit
      <3> HIDE DEF k
      <3> QED
        BY <1>6, <1>9, <2>1, <3>2, <3>3 DEF QmpDial, fileVars
    <2> QED
      BY <1>4, <1>9, <2>1 DEF QmpDial, fileVars
  <1>10. snaps' \in [Names -> SUBSET Tags]
    <2>1. SnapsAfter(j.op, j.name, j.tag) \in [Names -> SUBSET Tags]
      BY <1>0, <1>2 DEF SnapsAfter, TypeOK
    <2>2. snaps' = snaps \/ snaps' = SnapsAfter(j.op, j.name, j.tag)
      BY DEF SnapshotList, RestoreState, QmpDial, QmpSend, QmpRead, QmpLost, ImgOpen,
             ImgRun, ImgDone, fileVars
    <2> QED
      BY <1>0, <2>1, <2>2 DEF TypeOK
  <1>11. CASE QmpSend(p)
    <2> DEFINE yes == Doable(j.op, j.name, j.tag)
               answer == IF yes THEN "return" ELSE "error"
    <2>1. PICK box \in {<<answer>>, <<"event", answer>>} :
             job' = [job EXCEPT ![p].inbox = box, ![p].did = yes]
      BY <1>11 DEF QmpSend
    <2>2. yes \in BOOLEAN /\ box \in Seq({"event", "return", "error"})
      <3>1. yes \in BOOLEAN
        <4>1. CASE j.op = "take"
          BY <4>1 DEF Doable
        <4>2. CASE j.op # "take"
          BY <4>2 DEF Doable
        <4> QED
          BY <4>1, <4>2
      <3> HIDE DEF yes
      <3>2. answer \in {"return", "error"}
        OBVIOUS
      <3> HIDE DEF answer
      <3>3. \A a \in {"return", "error"} :
              /\ <<a>> \in Seq({"event", "return", "error"})
              /\ <<"event", a>> \in Seq({"event", "return", "error"})
        OBVIOUS
      <3> QED
        BY <3>1, <3>2, <3>3
    <2>3. ~yes => \A i \in 1..Len(box) : box[i] # "return"
      OBVIOUS
    <2> DEFINE k == [j EXCEPT !.inbox = box, !.did = yes]
    <2>4. job' = [job EXCEPT ![p] = k]
      BY <1>0, <2>1 DEF TypeOK
    <2> HIDE DEF yes
    <2>5. /\ k \in Job /\ k.op = j.op /\ k.name = j.name /\ k.tag = j.tag
          /\ k.did = yes /\ k.inbox = box
      BY <1>0, <2>2 DEF Job
    <2> HIDE DEF k
    <2>6. pc' = [pc EXCEPT ![p] = "q_read"] /\ lock' = lock
      BY <1>11 DEF QmpSend, Goto
    <2> QED
      BY <1>1, <1>2, <1>10, <2>3, <2>4, <2>5, <2>6, SnapStep DEF SnapSteps
  <1>12. CASE QmpRead(p)
    <2>1. CASE /\ Head(j.inbox) = "event" /\ job' = [job EXCEPT ![p].inbox = Tail(@)]
               /\ UNCHANGED <<lock, pc, snaps>>
      <3> DEFINE k == [j EXCEPT !.inbox = Tail(j.inbox)]
      <3>1. j.inbox \in Seq({"event", "return", "error"}) /\ j.inbox # <<>>
        BY <1>0, <1>12 DEF QmpRead, Job
      <3>2. /\ Tail(j.inbox) \in Seq({"event", "return", "error"})
            /\ \A i \in 1..Len(Tail(j.inbox)) :
                 i + 1 \in 1..Len(j.inbox) /\ Tail(j.inbox)[i] = j.inbox[i + 1]
        BY <3>1
      <3>3. job' = [job EXCEPT ![p] = k]
        BY <1>0, <2>1 DEF TypeOK
      <3>4. /\ k \in Job /\ k.op = j.op /\ k.name = j.name /\ k.tag = j.tag
            /\ k.did = j.did /\ k.inbox = Tail(j.inbox)
        BY <1>0, <3>2 DEF Job
      <3> HIDE DEF k
      <3>5. pc[p] = "q_read" /\ pc' = [pc EXCEPT ![p] = "q_read"]
        BY <1>0, <1>12, <2>1 DEF QmpRead, TypeOK
      <3>6. ~k.did => \A i \in 1..Len(k.inbox) : k.inbox[i] # "return"
        BY <1>3, <3>2, <3>4, <3>5 DEF SnapInv
      <3> QED
        BY <1>1, <1>2, <1>10, <2>1, <3>3, <3>4, <3>5, <3>6, SnapStep DEF SnapSteps
    <2> QED
      BY <1>4, <1>12, <2>1 DEF QmpRead, fileVars
  <1>13. CASE QmpLost(p) \/ ImgDone(p)
    BY <1>4, <1>13 DEF QmpLost, ImgDone, fileVars
  <1>14. CASE ImgOpen(p)
    <2>1. CASE job' = [job EXCEPT ![p].open = TRUE] /\ Goto(p, "i_run")
      <3> DEFINE k == [j EXCEPT !.open = TRUE]
      <3>1. job' = [job EXCEPT ![p] = k]
        BY <1>0, <2>1 DEF TypeOK
      <3>2. k \in Job /\ k.op = j.op /\ k.name = j.name /\ k.tag = j.tag
        BY <1>0, OpenEdit DEF SameJob, SameTask
      <3> HIDE DEF k
      <3> QED
        BY <1>6, <1>14, <2>1, <3>1, <3>2 DEF ImgOpen, fileVars
    <2> QED
      BY <1>4, <1>14, <2>1 DEF ImgOpen, fileVars
  <1>15. CASE ImgRun(p)
    <2>1. CASE job' = [job EXCEPT ![p].did = TRUE] /\ Goto(p, "i_done")
      <3> DEFINE k == [j EXCEPT !.did = TRUE]
      <3>1. job' = [job EXCEPT ![p] = k]
        BY <1>0, <2>1 DEF TypeOK
      <3>2. k \in Job /\ k.op = j.op /\ k.name = j.name /\ k.tag = j.tag /\ k.did
        BY <1>0, DidEdit DEF SameTask
      <3> HIDE DEF k
      <3>3. pc' = [pc EXCEPT ![p] = "i_done"] /\ lock' = lock
        BY <2>1 DEF Goto
      <3> QED
        BY <1>1, <1>2, <1>10, <3>1, <3>2, <3>3, SnapStep DEF SnapSteps
    <2> QED
      BY <1>4, <1>15, <2>1 DEF ImgRun
  <1> QED
    BY <1>7, <1>8, <1>9, <1>11, <1>12, <1>13, <1>14, <1>15

\* The record edits, and a qemu that exits or crashes.
LEMMA OutsideKeeps ==
    ASSUME Inv,
           \/ \E n \in Names : \E r \in RAMs[n] : Create(n, r) \/ UpdateRAM(n, r)
           \/ \E q \in Pids : QemuExits(q)
    PROVE  Inv'
  <1>0. TypeOK /\ LiveIsSeen
    BY DEF Inv
  <1>1. ASSUME TypeOK', LiveIsSeen', UNCHANGED <<lock, pc, job>>, \A o \in Actors : Env(o)
        PROVE  Inv'
    <2>1. ASSUME NEW o \in Actors PROVE ActorInv(o)'
      <3>1. ActorInv(o) /\ pc'[o] = pc[o] /\ SameJob(job[o], job'[o]) /\ (lock = o => lock' = o)
        BY <1>1 DEF Inv, SameJob, SameTask
      <3> QED
        BY <1>0, <1>1, <3>1, Stable
    <2> QED
      BY <1>1, <2>1 DEF Inv
  <1>2. ASSUME NEW n \in Names, NEW r \in RAMs[n], Create(n, r) \/ UpdateRAM(n, r)
        PROVE  Inv'
    <2>1. /\ ram' = [ram EXCEPT ![n] = r] /\ recs' \in {recs, recs \cup {n}}
          /\ resized' = resized \cup {q \in Live(n) : mem[q] # r}
          /\ UNCHANGED <<lock, pc, job, pidfile, snaps, live, lost>>
      BY <1>2 DEF Create, UpdateRAM
    <2>2. r \in Nat
      BY RAMAssumption
    <2>3. resized' \subseteq {q \in Pids : live[q] # NoName}
      BY <1>0, <2>1, NoneAssumption DEF TypeOK, Live
    <2>4. TypeOK'
      BY <1>0, <2>1, <2>2, <2>3 DEF TypeOK
    <2>5. LiveIsSeen' /\ \A o \in Actors : Env(o)
      BY <1>0, <2>1 DEF LiveIsSeen, Env
    <2> QED
      BY <1>1, <2>1, <2>4, <2>5
  <1>3. ASSUME NEW q \in Pids, QemuExits(q) PROVE Inv'
    <2>1. /\ Dies(q) /\ UNCHANGED <<lock, pc, job, recVars, snaps>>
          /\ pidfile' \in [Names -> Pids \cup {NoPid}]
          /\ \A n \in Names : pidfile'[n] # pidfile[n] => pidfile[n] = q
      BY <1>0, <1>3 DEF QemuExits, TypeOK
    <2>2. /\ live' \in [Pids -> Names \cup {NoName}]
          /\ lost' \cup resized' \subseteq {x \in Pids : live'[x] # NoName}
          /\ LiveIsSeen' /\ \A o \in Actors : Env(o)
      BY <1>0, <2>1, DiesKeeps
    <2>3. TypeOK'
      BY <1>0, <2>1, <2>2 DEF TypeOK, recVars
    <2> QED
      BY <1>1, <2>1, <2>2, <2>3
  <1> QED
    BY <1>2, <1>3

\* Every step keeps it.
LEMMA InvNext == Inv /\ [Next]_vars => Inv'
  <1> SUFFICES ASSUME Inv, [Next]_vars PROVE Inv'
    OBVIOUS
  <1>1. ASSUME NEW p \in Actors, Begin(p) PROVE Inv'
    BY <1>1, BeginKeeps
  <1>2. ASSUME NEW p \in Actors, Step(p) PROVE Inv'
    <2>1. CASE RunningRead(p) \/ RunningCheck(p) \/ RunningRemove(p) \/ PollDone(p)
      BY <2>1, RunningKeeps
    <2>2. CASE StartLock(p) \/ StartLimit(p) \/ Launch(p) \/ StartFails(p)
      BY <2>2, StartKeeps
    <2>3. CASE \/ StopState(p) \/ StopAsk(p) \/ StopAwait(p) \/ StopGone(p)
               \/ StopTimeout(p) \/ StopTerm(p)
      BY <2>3, StopKeeps
    <2>4. CASE StopKill(p)
      BY <2>4, StopKillKeeps
    <2>5. CASE DestroyStop(p) \/ DestroyDelete(p)
      BY <2>5, DestroyKeeps
    <2>6. CASE \/ SnapshotList(p) \/ RestoreState(p) \/ QmpDial(p) \/ QmpSend(p)
               \/ QmpRead(p) \/ QmpLost(p) \/ ImgOpen(p) \/ ImgRun(p) \/ ImgDone(p)
      BY <2>6, SnapshotKeeps
    <2> QED
      BY <1>2, <2>1, <2>2, <2>3, <2>4, <2>5, <2>6 DEF Step
  <1>3. CASE \/ \E n \in Names : \E r \in RAMs[n] : Create(n, r) \/ UpdateRAM(n, r)
             \/ \E q \in Pids : QemuExits(q)
    BY <1>3, OutsideKeeps
  <1>4. CASE UNCHANGED vars
    BY <1>4 DEF vars, Inv, TypeOK, LiveIsSeen, ActorInv, Located, At, Holds, Stale,
                DestroyInv, NoneSeen, StopInv, Over, SnapInv
  <1> QED
    BY <1>1, <1>2, <1>3, <1>4 DEF Next

\* So it always holds.
LEMMA InvHolds == Spec => []Inv
  BY InvInit, InvNext, PTL DEF Spec

-----------------------------------------------------------------------------
(* Sums over finite sets.  MapThenSumSet adds the members of a set one at a *)
(* time, in the order CHOOSE has them; what a sum is worth does not depend   *)
(* on it.                                                                   *)

\* The sum of f over S.
Total(f, S) == MapThenSumSet(LAMBDA x : f[x], S)

\* g is the recursion MapThenSumSet unfolds, on the subsets of S with at most n elements.
Small(S, n) == {s \in SUBSET S : Cardinality(s) <= n}
Pick1(s) == CHOOSE x \in s : TRUE
Sums(f, D, g) == g = [s \in D |-> IF s = {} THEN 0 ELSE f[Pick1(s)] + g[s \ {Pick1(s)}]]

Solves(f, S, g) == Sums(f, SUBSET S, g)

LEMMA TotalIs == ASSUME NEW f, NEW S
    PROVE Total(f, S) = (CHOOSE g : Sums(f, SUBSET S, g))[S]
    BY DEF Total, MapThenSumSet, MapThenFoldSet, Sums, Pick1

LEMMA Smaller ==
    ASSUME NEW s, IsFiniteSet(s), NEW x \in s
    PROVE /\ IsFiniteSet(s \ {x})
          /\ Cardinality(s) \in Nat
          /\ Cardinality(s \ {x}) \in Nat
          /\ Cardinality(s) = Cardinality(s \ {x}) + 1
  <1>1. Cardinality(s) \in Nat
    BY FS_CardinalityType
  <1>2. IsFiniteSet(s \ {x}) /\ Cardinality(s \ {x}) = Cardinality(s) - 1
    BY FS_RemoveElement
  <1>3. Cardinality(s \ {x}) \in Nat
    BY <1>2, FS_CardinalityType
  <1> QED BY <1>1, <1>2, <1>3

LEMMA PickIn == \A s : s # {} => Pick1(s) \in s
    BY DEF Pick1

\* Two unfoldings of the recursion agree wherever both are defined.
LEMMA SumsAgree ==
    ASSUME NEW f, NEW S, IsFiniteSet(S), NEW T \in SUBSET S, NEW g, NEW h,
           Solves(f, S, g), Solves(f, T, h)
    PROVE  \A s \in SUBSET T : g[s] = h[s]
  <1> DEFINE Bad == {Cardinality(s) : s \in {t \in SUBSET T : g[t] # h[t]}}
  <1> SUFFICES ASSUME Bad # {} PROVE FALSE
    OBVIOUS
  <1>1. Bad \in SUBSET Nat
    BY FS_Subset, FS_CardinalityType
  <1>2. PICK n \in Bad : \A m \in Bad : n <= m
    BY <1>1, MinInSet
  <1>3. PICK s \in SUBSET T : g[s] # h[s] /\ n = Cardinality(s)
    BY <1>2
  <1>4. CASE s = {}
    BY <1>3, <1>4 DEF Solves, Sums
  <1>5. CASE s # {}
    <2> DEFINE x == Pick1(s)
    <2>1. x \in s
      BY <1>5, PickIn
    <2> HIDE DEF x
    <2>2. s \ {x} \in SUBSET T /\ s \in SUBSET S /\ IsFiniteSet(s)
      BY FS_Subset
    <2>3. g[s] = f[x] + g[s \ {x}] /\ h[s] = f[x] + h[s \ {x}]
      BY <1>5, <1>3, <2>2 DEF Solves, Sums, x
    <2>4. g[s \ {x}] # h[s \ {x}]
      BY <2>3, <1>3
    <2>5. Cardinality(s \ {x}) \in Bad
      BY <2>2, <2>4
    <2>6. Cardinality(s) = Cardinality(s \ {x}) + 1 /\ Cardinality(s \ {x}) \in Nat
      BY <2>1, <2>2, Smaller
    <2>7. n <= Cardinality(s \ {x})
      BY <2>5, <1>2
    <2> QED BY <2>6, <2>7, <1>3
  <1> QED BY <1>4, <1>5

LEMMA SmallClosed ==
    ASSUME NEW S, IsFiniteSet(S), NEW n \in Nat
    PROVE /\ \A s \in Small(S, n) : IsFiniteSet(s)
          /\ \A s \in Small(S, n) : \A x \in s : s \ {x} \in Small(S, n)
          /\ \A s \in Small(S, n + 1) : \A x \in s : s \ {x} \in Small(S, n)
          /\ Small(S, n) \subseteq Small(S, n + 1)
  <1>1. \A s \in SUBSET S : IsFiniteSet(s) /\ Cardinality(s) \in Nat
    BY FS_Subset, FS_CardinalityType
  <1>2. \A s \in SUBSET S : \A x \in s : /\ Cardinality(s \ {x}) \in Nat
                                         /\ Cardinality(s) = Cardinality(s \ {x}) + 1
    BY <1>1, Smaller
  <1> QED BY <1>1, <1>2 DEF Small

\* The recursion has a solution on the subsets of a finite set.
LEMMA SumsExist ==
    ASSUME NEW f, NEW S, IsFiniteSet(S)
    PROVE \E g : Sums(f, SUBSET S, g)
  <1> DEFINE Bad == {n \in Nat : ~\E g : Sums(f, Small(S, n), g)}
  <1>1. Bad = {}
    <2> SUFFICES ASSUME Bad # {} PROVE FALSE
      OBVIOUS
    <2>1. PICK n \in Bad : \A m \in Bad : n <= m
      BY MinInSet
    <2>2. CASE n = 0
      <3>1. \A s \in Small(S, 0) : s = {}
        <4>1. \A s \in SUBSET S : IsFiniteSet(s) /\ Cardinality(s) \in Nat
          BY FS_Subset, FS_CardinalityType
        <4>2. \A s \in SUBSET S : Cardinality(s) = 0 => s = {}
          BY <4>1, FS_EmptySet
        <4> QED BY <4>1, <4>2 DEF Small
      <3>2. Sums(f, Small(S, 0), [s \in Small(S, 0) |-> 0])
        BY <3>1 DEF Sums
      <3> QED BY <2>2, <3>2
    <2>3. CASE n # 0
      <3> DEFINE k == n - 1
      <3>1. k \in Nat /\ n = k + 1
        BY <2>3
      <3> HIDE DEF k
      <3>2. PICK g : Sums(f, Small(S, k), g)
        BY <3>1, <2>1
      <3> DEFINE h == [s \in Small(S, n) |-> IF s = {} THEN 0 ELSE f[Pick1(s)] + g[s \ {Pick1(s)}]]
      <3>3. \A s \in Small(S, n) : s # {} => s \ {Pick1(s)} \in Small(S, k)
        BY <3>1, SmallClosed, PickIn
      <3>4. \A s \in Small(S, k) : s \in Small(S, n) /\ h[s] = g[s]
        BY <3>1, <3>2, SmallClosed DEF Sums
      <3>5. Sums(f, Small(S, n), h)
        BY <3>3, <3>4 DEF Sums
      <3> QED BY <3>5
    <2> QED BY <2>2, <2>3
  <1>2. Cardinality(S) \in Nat
    BY FS_CardinalityType
  <1>3. Small(S, Cardinality(S)) = SUBSET S
    BY FS_Subset DEF Small
  <1> QED BY <1>1, <1>2, <1>3

LEMMA TotalSums ==
    ASSUME NEW f, NEW S, IsFiniteSet(S)
    PROVE \E g : Solves(f, S, g) /\ Total(f, S) = g[S]
  <1>1. \E g : Solves(f, S, g)
    BY SumsExist DEF Solves
  <1> DEFINE g == CHOOSE g : Solves(f, S, g)
  <1>2. Solves(f, S, g)
    BY <1>1
  <1> QED BY <1>2, TotalIs DEF Solves

\* The sum over a set is what its chosen element adds to the sum over the rest.
LEMMA TotalUnfolds ==
    ASSUME NEW f, NEW S, IsFiniteSet(S)
    PROVE /\ S = {} => Total(f, S) = 0
          /\ S # {} => Total(f, S) = f[Pick1(S)] + Total(f, S \ {Pick1(S)})
  <1>1. PICK g : Solves(f, S, g) /\ Total(f, S) = g[S]
    BY TotalSums
  <1>2. S = {} => Total(f, S) = 0
    BY <1>1 DEF Solves, Sums
  <1>3. ASSUME S # {}
        PROVE  Total(f, S) = f[Pick1(S)] + Total(f, S \ {Pick1(S)})
    <2>0. PICK T : T = S \ {Pick1(S)}
      OBVIOUS
    <2>1. IsFiniteSet(T) /\ T \in SUBSET S
      BY <2>0, FS_Subset
    <2>2. g[S] = f[Pick1(S)] + g[T]
      BY <1>1, <1>3, <2>0 DEF Solves, Sums
    <2>3. PICK h : Solves(f, T, h) /\ Total(f, T) = h[T]
      BY <2>1, TotalSums
    <2>6. g[T] = h[T]
      <3>1. \A s \in SUBSET T : g[s] = h[s]
        BY <1>1, <2>1, <2>3, SumsAgree
      <3> QED BY <3>1
    <2> QED BY <1>1, <2>2, <2>3, <2>6, <2>0
  <1> QED BY <1>2, <1>3

LEMMA TotalType ==
    ASSUME NEW S, IsFiniteSet(S), NEW f, \A x \in S : f[x] \in Nat
    PROVE  Total(f, S) \in Nat
  <1> DEFINE Bad == {Cardinality(s) : s \in {t \in SUBSET S : Total(f, t) \notin Nat}}
  <1> SUFFICES ASSUME Bad # {} PROVE FALSE
    BY Zenon
  <1>1. Bad \in SUBSET Nat
    BY FS_Subset, FS_CardinalityType
  <1>2. PICK n \in Bad : \A m \in Bad : n <= m
    BY <1>1, MinInSet
  <1>3. PICK s \in SUBSET S : Total(f, s) \notin Nat /\ n = Cardinality(s)
    BY <1>2
  <1>4. IsFiniteSet(s)
    BY FS_Subset
  <1>5. s # {}
    <2>1. s = {} => Total(f, s) = 0
      BY <1>4, TotalUnfolds
    <2> QED BY <2>1, <1>3
  <1>6. PICK x : x = Pick1(s)
    OBVIOUS
  <1>7. x \in s /\ f[x] \in Nat /\ s \ {x} \in SUBSET S
    BY <1>5, <1>6, PickIn
  <1>8. Total(f, s) = f[x] + Total(f, s \ {x})
    BY <1>4, <1>5, <1>6, TotalUnfolds
  <1>9. Total(f, s \ {x}) \notin Nat
    BY <1>3, <1>7, <1>8
  <1>10. Cardinality(s) = Cardinality(s \ {x}) + 1 /\ Cardinality(s \ {x}) \in Nat
    BY <1>4, <1>7, Smaller
  <1>11. Cardinality(s \ {x}) \in Bad
    BY <1>7, <1>9
  <1>12. n <= Cardinality(s \ {x})
    BY <1>2, <1>11
  <1> QED BY <1>3, <1>10, <1>12

\* Any element can be taken out of a sum, not only the one MapThenSumSet chooses.
LEMMA TotalRemove ==
    ASSUME NEW S, IsFiniteSet(S), NEW f, \A x \in S : f[x] \in Nat, NEW a \in S
    PROVE  Total(f, S) = f[a] + Total(f, S \ {a})
  <1> DEFINE Splits(t) == \A x \in t : Total(f, t) = f[x] + Total(f, t \ {x})
             Bad == {Cardinality(s) : s \in {t \in SUBSET S : ~Splits(t)}}
  <1> SUFFICES ASSUME Bad # {} PROVE FALSE
    BY Zenon
  <1>1. Bad \in SUBSET Nat
    BY FS_Subset, FS_CardinalityType
  <1>2. PICK n \in Bad : \A m \in Bad : n <= m
    BY <1>1, MinInSet
  <1>3. PICK s \in SUBSET S : ~Splits(s) /\ n = Cardinality(s)
    BY <1>2
  <1>4. PICK x \in s : Total(f, s) # f[x] + Total(f, s \ {x})
    BY <1>3
  <1>5. IsFiniteSet(s) /\ s # {}
    BY <1>4, FS_Subset
  <1>6. PICK y : y = Pick1(s)
    OBVIOUS
  <1>7. y \in s /\ f[x] \in Nat /\ f[y] \in Nat
    BY <1>5, <1>6, PickIn
  <1>8. Total(f, s) = f[y] + Total(f, s \ {y})
    BY <1>5, <1>6, TotalUnfolds
  <1>9. x # y
    BY <1>4, <1>8
  <1>10. \A z \in s : Splits(s \ {z})
    <2> TAKE z \in s
    <2>1. Cardinality(s) = Cardinality(s \ {z}) + 1 /\ Cardinality(s \ {z}) \in Nat
      BY <1>5, Smaller
    <2>2. Cardinality(s \ {z}) \notin Bad
      BY <2>1, <1>2, <1>3
    <2> QED BY <2>2
  <1>11. /\ Total(f, s \ {y}) = f[x] + Total(f, (s \ {y}) \ {x})
         /\ Total(f, s \ {x}) = f[y] + Total(f, (s \ {x}) \ {y})
    BY <1>7, <1>9, <1>10
  <1>12. (s \ {y}) \ {x} = (s \ {x}) \ {y}
    OBVIOUS
  <1>13. Total(f, (s \ {x}) \ {y}) \in Nat
    <2>1. IsFiniteSet((s \ {x}) \ {y}) /\ \A z \in (s \ {x}) \ {y} : f[z] \in Nat
      BY <1>5, FS_Subset
    <2> QED BY <2>1, TotalType
  <1> DEFINE r == Total(f, (s \ {x}) \ {y})
  <1>14. /\ Total(f, s) = f[y] + (f[x] + r)
         /\ Total(f, s \ {x}) = f[y] + r
    BY <1>8, <1>11, <1>12
  <1> QED BY <1>4, <1>7, <1>13, <1>14

\* If h sends every member of S that counts for anything to a member of T of its own that
\* counts for no less, the sum over S is no more than the sum over T.
LEMMA TotalDominated ==
    ASSUME NEW S, IsFiniteSet(S), NEW T, IsFiniteSet(T), NEW f, NEW g, NEW h,
           \A x \in S : f[x] \in Nat, \A y \in T : g[y] \in Nat,
           \A x \in S : f[x] # 0 => h[x] \in T /\ f[x] <= g[h[x]],
           \A x, y \in S : f[x] # 0 /\ f[y] # 0 /\ h[x] = h[y] => x = y
    PROVE  Total(f, S) <= Total(g, T)
  <1> DEFINE Fits(s, t) == \A x \in s : f[x] # 0 => h[x] \in t
             Bad == {Cardinality(s) : s \in {r \in SUBSET S :
                         \E t \in SUBSET T : Fits(r, t) /\ ~(Total(f, r) <= Total(g, t))}}
  <1> SUFFICES ASSUME Bad # {} PROVE FALSE
    BY Zenon
  <1>1. Bad \in SUBSET Nat
    BY FS_Subset, FS_CardinalityType
  <1>2. PICK n \in Bad : \A m \in Bad : n <= m
    BY <1>1, MinInSet
  <1>3. PICK s \in SUBSET S, t \in SUBSET T :
           Fits(s, t) /\ ~(Total(f, s) <= Total(g, t)) /\ n = Cardinality(s)
    BY <1>2
  <1>4. IsFiniteSet(s) /\ IsFiniteSet(t)
    BY FS_Subset
  <1>5. \A u \in SUBSET T : Total(g, u) \in Nat
    <2> TAKE u \in SUBSET T
    <2>1. IsFiniteSet(u) /\ \A y \in u : g[y] \in Nat
      BY FS_Subset
    <2> QED BY <2>1, TotalType
  <1>6. \A u \in SUBSET S : Total(f, u) \in Nat
    <2> TAKE u \in SUBSET S
    <2>1. IsFiniteSet(u) /\ \A y \in u : f[y] \in Nat
      BY FS_Subset
    <2> QED BY <2>1, TotalType
  <1>7. s # {}
    <2>1. s = {} => Total(f, s) = 0
      BY <1>4, TotalUnfolds
    <2> QED BY <2>1, <1>3, <1>5
  <1>8. PICK x \in s : TRUE
    BY <1>7
  <1>9. Total(f, s) = f[x] + Total(f, s \ {x})
    BY <1>4, <1>8, TotalRemove
  <1>10. Cardinality(s) = Cardinality(s \ {x}) + 1 /\ Cardinality(s \ {x}) \in Nat
    BY <1>4, <1>8, Smaller
  <1>11. Cardinality(s \ {x}) \notin Bad
    <2> HIDE DEF Bad
    <2> QED BY <1>2, <1>3, <1>10
  <1>12. \A u \in SUBSET T : Fits(s \ {x}, u) => Total(f, s \ {x}) <= Total(g, u)
    BY <1>11
  <1>13. CASE f[x] = 0
    <2>1. Total(f, s \ {x}) <= Total(g, t)
      BY <1>3, <1>12
    <2> QED BY <2>1, <1>3, <1>6, <1>9, <1>13
  <1>14. CASE f[x] # 0
    <2>1. h[x] \in t /\ f[x] <= g[h[x]] /\ f[x] \in Nat /\ g[h[x]] \in Nat
      BY <1>3, <1>14
    <2>2. Fits(s \ {x}, t \ {h[x]})
      BY <1>3, <1>14
    <2>3. Total(f, s \ {x}) <= Total(g, t \ {h[x]})
      BY <2>2, <1>12
    <2>4. Total(g, t) = g[h[x]] + Total(g, t \ {h[x]})
      BY <2>1, <1>4, TotalRemove
    <2> QED BY <2>1, <2>3, <2>4, <1>3, <1>5, <1>6, <1>9
  <1> QED BY <1>13, <1>14

-----------------------------------------------------------------------------
(* The theorems *)

\* The types of the variables: in particular, the histories of lost and of
\* resized qemus name live processes only.
THEOREM TypeCorrect == Spec => []TypeOK
  <1>1. Inv => TypeOK
    BY DEF Inv
  <1> QED
    BY <1>1, InvHolds, PTL

\* What LiveHasRecord adds to the invariant: a launch needs the VM's record,
\* and Destroy, the only operation that removes one, found nothing running.
LEMMA RecordNext ==
    ASSUME LiveMode = FALSE
    PROVE  Inv /\ LiveHasRecord /\ [Next]_vars => LiveHasRecord'
  <1> SUFFICES ASSUME Inv, LiveHasRecord, [Next]_vars PROVE LiveHasRecord'
    OBVIOUS
  <1>0. TypeOK
    BY DEF Inv
  <1>1. ASSUME live' = live, recs \subseteq recs', lost \subseteq lost'
        PROVE  LiveHasRecord'
    BY <1>1 DEF LiveHasRecord
  <1>2. ASSUME NEW p \in Actors, Begin(p) PROVE LiveHasRecord'
    <2>1. UNCHANGED <<live, recs, lost>>
      BY <1>2 DEF Begin, Poll, Start, Stop, Destroy, Snapshot, fileVars, recVars, qemuVars
    <2> QED
      BY <1>1, <2>1
  <1>3. ASSUME NEW q \in Pids, Dies(q), recs' = recs PROVE LiveHasRecord'
    BY <1>0, <1>3, NoneAssumption DEF Dies, LiveHasRecord, TypeOK
  <1>4. ASSUME NEW p \in Actors, Step(p) PROVE LiveHasRecord'
    <2>0. job[p] \in Job /\ ActorInv(p)
      BY <1>0 DEF TypeOK, Inv
    <2>1. CASE Launch(p)
      <3>1. FreePids \in SUBSET Nat /\ FreePids \subseteq Pids
        BY PidAssumption DEF FreePids
      <3>2. Min(FreePids) \in Pids
        BY <2>1, <3>1, MinInSet DEF Launch
      <3> QED
        BY <1>0, <2>1, <3>2 DEF Launch, LiveHasRecord, TypeOK, recVars
    <2>2. CASE StopKill(p)
      <3>1. job[p].pid \in Pids
        BY <2>0, <2>2 DEF StopKill, ActorInv, Located, StopInv, At, RunningSteps, SnapOps
      <3> QED
        BY <1>1, <1>3, <2>2, <3>1 DEF StopKill, fileVars, recVars, qemuVars
    <2>3. CASE DestroyDelete(p)
      <3>1. NoneSeen(job[p].name)
        BY <2>0, <2>3
        DEF DestroyDelete, ActorInv, Located, DestroyInv, At, RunningSteps, SnapOps, Waits
      <3> QED
        BY <2>3, <3>1 DEF DestroyDelete, LiveHasRecord, NoneSeen, qemuVars
    <2>4. CASE RunningRemove(p)
      BY <1>1, <2>4 DEF RunningRemove, recVars
    <2>5. CASE ~(Launch(p) \/ StopKill(p) \/ DestroyDelete(p) \/ RunningRemove(p))
      <3>1. UNCHANGED <<live, recs, lost>>
        BY <1>4, <2>5
        DEF Step, RunningRead, RunningCheck, PollDone, StartLock, StartLimit, StartFails,
            StopState, StopAsk, StopAwait, StopGone, StopTimeout, StopTerm, DestroyStop,
            SnapshotList, RestoreState, QmpDial, QmpSend, QmpRead, QmpLost, ImgOpen,
            ImgRun, ImgDone, fileVars, recVars, qemuVars
      <3> QED
        BY <1>1, <3>1
    <2> QED
      BY <2>1, <2>2, <2>3, <2>4, <2>5
  <1>5. ASSUME NEW n \in Names, NEW r \in RAMs[n], Create(n, r) \/ UpdateRAM(n, r)
        PROVE  LiveHasRecord'
    BY <1>1, <1>5 DEF Create, UpdateRAM
  <1>6. ASSUME NEW q \in Pids, QemuExits(q) PROVE LiveHasRecord'
    BY <1>3, <1>6 DEF QemuExits, recVars
  <1>7. CASE UNCHANGED vars
    BY <1>1, <1>7 DEF vars
  <1> QED
    BY <1>2, <1>4, <1>5, <1>6, <1>7 DEF Next

\* LiveIsTracked: whatever processes poll, start, stop, destroy and snapshot
\* which VMs, every live qemu is the one its VM's pidfile names, and its VM is
\* there -- but for the qemus whose pidfile a late Running removed.  A live-mode
\* VM's directory is made again by Prepare, which is why it is left out.
THEOREM LiveStaysTracked ==
    ASSUME LiveMode = FALSE
    PROVE  Spec => []LiveIsTracked
  <1>1. Init => LiveHasRecord
    BY DEF Init, LiveHasRecord
  <1>2. Inv /\ LiveHasRecord => LiveIsTracked
    BY DEF Inv, LiveIsTracked
  <1> QED
    BY <1>1, <1>2, InvHolds, RecordNext, PTL DEF Spec

-----------------------------------------------------------------------------
(* The memory limit *)

\* The memory of the qemus that can be seen and hold what their vm.toml records.
Counted == [q \in Pids |-> IF q \in lost \cup resized THEN 0 ELSE mem[q]]

\* Start is past the limit check and has not launched yet.
Admitted(p) == job[p].op = "start" /\ At(p) = "s_launch"

\* The counted memory is within the limit, and leaves room for the start that
\* the check let through.
WithinLimit ==
    /\ Total(Counted, Pids) <= MaxRAM
    /\ \A p \in Actors : Admitted(p) => Total(Counted, Pids) + job[p].ram <= MaxRAM

RAMInv ==
    /\ mem \in [Pids -> Nat]
    /\ \A q \in Pids : live[q] = NoName => mem[q] = 0
    /\ \A q \in Pids \ resized : live[q] # NoName => mem[q] = ram[live[q]]
    /\ MaxRAM > 0 => WithinLimit

\* The counted memory is a sum of numbers.
LEMMA CountedType ==
    ASSUME mem \in [Pids -> Nat]
    PROVE  \A q \in Pids : Counted[q] \in Nat
  BY DEF Counted

\* Only one start at a time is past the check: it holds the flock.
LEMMA AdmittedHolds ==
    ASSUME Inv, NEW p \in Actors, Admitted(p)
    PROVE  lock = p /\ job[p].ram \in Nat
  <1>1. ActorInv(p) /\ job[p] \in Job
    BY DEF Inv, TypeOK
  <1>2. pc[p] # "s_lock"
    BY DEF Admitted, At, RunningSteps
  <1> QED
    BY <1>1, <1>2 DEF Admitted, ActorInv, Holds, Job

\* A step of p moves nobody else.
LEMMA OthersOf ==
    ASSUME TypeOK, NEW p \in Actors, Begin(p) \/ Step(p)
    PROVE  OthersStay(p)
  <1> USE DEF TypeOK, OthersStay, SameJob, SameTask, Goto, Return, CallRunning, Answer
  <1>1. CASE Begin(p)
    BY <1>1 DEF Begin, Poll, Start, Stop, Destroy, Snapshot
  <1>2. CASE RunningRead(p) \/ RunningCheck(p) \/ RunningRemove(p) \/ PollDone(p)
    BY <1>2 DEF RunningRead, RunningCheck, RunningRemove, PollDone
  <1>3. CASE StartLock(p) \/ StartLimit(p) \/ Launch(p) \/ StartFails(p)
    BY <1>3 DEF StartLock, StartLimit, Launch, StartFails
  <1>4. CASE \/ StopState(p) \/ StopAsk(p) \/ StopAwait(p) \/ StopGone(p)
             \/ StopTimeout(p) \/ StopTerm(p) \/ StopKill(p)
    BY <1>4 DEF StopState, StopAsk, StopAwait, StopGone, StopTimeout, StopTerm, StopKill
  <1>5. CASE DestroyStop(p)
    BY <1>5 DEF DestroyStop
  <1>6. CASE DestroyDelete(p)
    <2> SUFFICES ASSUME NEW o \in Actors \ {p} PROVE pc'[o] = pc[o] /\ SameJob(job[o], job'[o])
      OBVIOUS
    <2>1. job'[o] = IF job[o].name = job[p].name THEN [job[o] EXCEPT !.open = FALSE] ELSE job[o]
      BY <1>6 DEF DestroyDelete
    <2>2. job[o] \in Job /\ SameJob(job[o], [job[o] EXCEPT !.open = FALSE])
      BY OpenEdit
    <2> QED
      BY <1>6, <2>1, <2>2 DEF DestroyDelete
  <1>7. CASE \/ SnapshotList(p) \/ RestoreState(p) \/ QmpDial(p) \/ QmpSend(p)
             \/ QmpRead(p) \/ QmpLost(p) \/ ImgOpen(p) \/ ImgRun(p) \/ ImgDone(p)
    BY <1>7 DEF SnapshotList, RestoreState, QmpDial, QmpSend, QmpRead, QmpLost, ImgOpen,
                ImgRun, ImgDone
  <1> QED
    BY <1>1, <1>2, <1>3, <1>4, <1>5, <1>6, <1>7 DEF Step

\* Where a step that is neither Running's nor the limit check leaves p, p is not
\* about to launch.
LEMMA NotAdmitted ==
    ASSUME Inv, NEW p \in Actors, Begin(p) \/ Step(p), ~StartLimit(p),
           ~(RunningRead(p) \/ RunningCheck(p) \/ RunningRemove(p))
    PROVE  ~Admitted(p)'
  <1>0. TypeOK /\ job[p] \in Job
    BY DEF Inv, TypeOK
  <1> USE DEF Steps, RunningSteps, Waits
  <1>1. ASSUME NEW r, Return(p, r) PROVE ~Admitted(p)'
    BY <1>0, <1>1, ReturnEffect DEF Admitted, NoJob
  <1>2. ASSUME NEW j \in Job, NEW step \in Steps, CallRunning(p, j, step), step # "s_launch"
        PROVE  ~Admitted(p)'
    BY <1>0, <1>2, CallRunningEffect DEF Admitted, At
  <1>3. ASSUME pc'[p] \notin RunningSteps \cup {"s_launch"} PROVE ~Admitted(p)'
    BY <1>3 DEF Admitted, At
  <1>4. ASSUME NEW step \in Steps \ (RunningSteps \cup {"s_launch"}), Goto(p, step)
        PROVE  ~Admitted(p)'
    BY <1>0, <1>3, <1>4, GotoEffect
  <1>5. ASSUME NEW n \in Names, NEW o \in SnapOps, NEW t \in Tags, Snapshot(p, o, n, t)
        PROVE  ~Admitted(p)'
    BY <1>2, <1>5, NewJobType, NoteInJob DEF Snapshot, AllOps, SnapOps
  <1>6. ASSUME NEW n \in Names, Stop(p, n) PROVE ~Admitted(p)'
    <2> DEFINE v == IF Live(n) = {} THEN NoPid ELSE Min(Live(n))
    <2>1. v \in Pids \cup {NoPid}
      <3>1. Live(n) \in SUBSET Nat /\ Live(n) \subseteq Pids
        BY PidAssumption DEF Live
      <3> QED
        BY <3>1, MinInSet
    <2> HIDE DEF v
    <2>2. [NewJob("stop", n) EXCEPT !.victim = v] \in Job
      BY <2>1, NewJobType, NoteInJob DEF AllOps
    <2>3. CallRunning(p, [NewJob("stop", n) EXCEPT !.victim = v], "t_state")
      BY <1>6 DEF Stop, v
    <2> QED
      BY <1>2, <2>2, <2>3
  <1>7. CASE Begin(p)
    <2>1. ASSUME NEW n \in Names, Poll(p, n) \/ Destroy(p, n) PROVE ~Admitted(p)'
      BY <1>2, <2>1, NewJobType DEF Poll, Destroy, AllOps
    <2>2. ASSUME NEW n \in Names, Start(p, n) PROVE ~Admitted(p)'
      BY <1>4, <2>2 DEF Start
    <2> QED
      BY <1>5, <1>6, <1>7, <2>1, <2>2 DEF Begin
  <1>8. CASE PollDone(p) \/ Launch(p) \/ StartFails(p) \/ StopGone(p) \/ QmpLost(p) \/ ImgDone(p)
    BY <1>1, <1>8 DEF PollDone, Launch, StartFails, StopGone, QmpLost, ImgDone
  <1>9. CASE StartLock(p) \/ DestroyStop(p) \/ StopState(p) \/ StopAsk(p) \/ StopKill(p)
             \/ StopTimeout(p)
    BY <1>0, <1>1, <1>2, <1>4, <1>9
    DEF StartLock, DestroyStop, StopState, StopAsk, StopKill, StopTimeout
  <1>10. CASE StopTerm(p)
    <2> DEFINE q == pidfile[job[p].name]
    <2>1. CASE q # NoPid /\ CallRunning(p, [job[p] EXCEPT !.pid = q], "t_wait_term")
      <3>1. job[p].name \in Names
        BY <1>10 DEF StopTerm, Inv, ActorInv, Located, At, SnapOps
      <3>2. q \in Pids \cup {NoPid}
        BY <1>0, <3>1 DEF TypeOK
      <3>3. [job[p] EXCEPT !.pid = q] \in Job
        BY <1>0, <3>2, PidEdit
      <3> QED
        BY <1>2, <2>1, <3>3
    <2> QED
      BY <1>1, <1>10, <2>1 DEF StopTerm
  <1>11. CASE StopAwait(p)
    BY <1>3, <1>11 DEF StopAwait, Waits
  <1>12. CASE DestroyDelete(p)
    BY <1>0, <1>3, <1>12 DEF DestroyDelete, TypeOK
  <1>13. CASE SnapshotList(p) \/ RestoreState(p) \/ QmpDial(p) \/ QmpSend(p) \/ ImgOpen(p)
              \/ ImgRun(p)
    BY <1>0, <1>1, <1>2, <1>4, <1>13
    DEF SnapshotList, RestoreState, QmpDial, QmpSend, ImgOpen, ImgRun
  <1>14. CASE QmpRead(p)
    BY <1>1, <1>3, <1>14 DEF QmpRead
  <1> QED
    BY <1>7, <1>8, <1>9, <1>10, <1>11, <1>12, <1>13, <1>14 DEF Step

\* A step other than the limit check admits nobody.
LEMMA AdmittedStays ==
    ASSUME Inv, NEW p \in Actors, Begin(p) \/ Step(p), ~StartLimit(p),
           NEW o \in Actors, Admitted(o)'
    PROVE  Admitted(o) /\ job'[o].ram = job[o].ram
  <1>0. TypeOK /\ job[p] \in Job /\ ActorInv(p)
    BY DEF Inv, TypeOK
  <1>1. CASE o # p
    BY <1>0, <1>1, OthersOf DEF OthersStay, SameJob, SameTask, Admitted, At
  <1>2. CASE o = p
    <2>1. RunningRead(p) \/ RunningCheck(p) \/ RunningRemove(p)
      BY <1>2, NotAdmitted
    <2>2. pc[p] \in RunningSteps /\ At(p) = job[p].cont
      BY <2>1 DEF RunningRead, RunningCheck, RunningRemove, At, RunningSteps
    <2>3. ASSUME NEW up \in BOOLEAN, Answer(p, up)
          PROVE  Admitted(p) /\ job'[p].ram = job[p].ram
      <3>1. pc'[p] = job[p].cont /\ SameTask(job[p], job'[p])
        BY <1>0, <2>3, AnswerEffect
      <3>2. job[p].cont \notin RunningSteps
        BY <1>0, <2>2 DEF ActorInv, Located, RunningSteps, SnapOps, Waits
      <3> QED
        BY <1>2, <2>2, <3>1, <3>2 DEF Admitted, At, SameTask
    <2>4. ASSUME pc'[p] \in RunningSteps, job'[p].op = job[p].op, job'[p].cont = job[p].cont,
                 job'[p].ram = job[p].ram
          PROVE  Admitted(p) /\ job'[p].ram = job[p].ram
      BY <1>2, <2>2, <2>4 DEF Admitted, At
    <2>5. CASE RunningRead(p)
      <3> DEFINE q == pidfile[job[p].name]
      <3>1. CASE job' = [job EXCEPT ![p].seen = q] /\ Goto(p, "r_check")
        <4>1. job'[p] = [job[p] EXCEPT !.seen = q] /\ pc'[p] = "r_check"
          BY <1>0, <3>1 DEF TypeOK, Goto
        <4> QED
          BY <1>0, <1>2, <2>4, <4>1 DEF Job, RunningSteps
      <3> QED
        BY <1>2, <2>3, <2>5, <3>1 DEF RunningRead
    <2>6. CASE RunningCheck(p)
      <3>1. CASE Goto(p, "r_remove") /\ UNCHANGED job
        BY <1>0, <1>2, <2>4, <3>1 DEF Goto, RunningSteps, TypeOK
      <3> QED
        BY <1>2, <2>3, <2>6, <3>1 DEF RunningCheck
    <2>7. CASE RunningRemove(p)
      BY <1>2, <2>3, <2>7 DEF RunningRemove
    <2> QED
      BY <1>2, <2>1, <2>5, <2>6, <2>7
  <1> QED
    BY <1>1, <1>2

\* The counted memory does not grow in a step that gives no pid more.
LEMMA CountedShrinks ==
    ASSUME mem \in [Pids -> Nat], mem' \in [Pids -> Nat],
           \A q \in Pids : Counted'[q] <= Counted[q]
    PROVE  Total(Counted', Pids) <= Total(Counted, Pids)
  <1> DEFINE f == Counted'
             g == Counted
             h == [q \in Pids |-> q]
  <1>1. /\ IsFiniteSet(Pids)
        /\ \A q \in Pids : f[q] \in Nat /\ g[q] \in Nat /\ f[q] <= g[q] /\ h[q] = q
    BY PidAssumption, CountedType DEF Counted
  <1> HIDE DEF f, g, h
  <1>2. Total(f, Pids) <= Total(g, Pids)
    BY <1>1, TotalDominated
  <1> QED
    BY <1>2 DEF f, g

\* A sum of numbers over Pids is a number.
LEMMA CountedSum ==
    ASSUME mem \in [Pids -> Nat]
    PROVE  Total(Counted, Pids) \in Nat
  BY CountedType, PidAssumption, TotalType

\* A step that launches nothing and admits no start.
LEMMA RAMKeeps ==
    ASSUME Inv, RAMInv, mem' \in [Pids -> Nat],
           \A q \in Pids : live'[q] = NoName => mem'[q] = 0,
           \A q \in Pids \ resized' : live'[q] # NoName => mem'[q] = ram'[live'[q]],
           \A q \in Pids : Counted'[q] <= Counted[q],
           \A p \in Actors : Admitted(p)' => Admitted(p) /\ job'[p].ram = job[p].ram
    PROVE  RAMInv'
  <1>1. /\ Total(Counted, Pids) \in Nat /\ Total(Counted', Pids) \in Nat
        /\ Total(Counted', Pids) <= Total(Counted, Pids)
    <2>1. mem \in [Pids -> Nat]
      BY DEF RAMInv
    <2>2. \A q \in Pids : Counted'[q] \in Nat
      BY DEF Counted
    <2> QED
      BY <2>1, <2>2, CountedSum, CountedShrinks, PidAssumption, TotalType
  <1>2. ASSUME MaxRAM > 0 PROVE WithinLimit'
    <2>1. WithinLimit /\ MaxRAM \in Nat
      BY <1>2, RAMAssumption DEF RAMInv
    <2>2. Total(Counted', Pids) <= MaxRAM
      BY <1>1, <2>1 DEF WithinLimit
    <2>3. ASSUME NEW p \in Actors, Admitted(p)'
          PROVE  Total(Counted', Pids) + job'[p].ram <= MaxRAM
      <3>1. Admitted(p) /\ job'[p].ram = job[p].ram
        BY <2>3
      <3>2. job[p].ram \in Nat /\ Total(Counted, Pids) + job[p].ram <= MaxRAM
        BY <2>1, <3>1, AdmittedHolds DEF WithinLimit
      <3> QED
        BY <1>1, <2>1, <3>1, <3>2
    <2> QED
      BY <2>2, <2>3 DEF WithinLimit
  <1> QED
    BY <1>2 DEF RAMInv

\* What the limit check adds up is no less than what the counted qemus hold: each
\* is seen, through the pidfile that names it, and holds what its record says.
LEMMA CheckSeesAll ==
    ASSUME TypeOK, RAMInv, LiveIsTracked
    PROVE  RunningRAM \in Nat /\ Total(Counted, Pids) <= RunningRAM
  <1> DEFINE S == {n \in recs : Seen(n)}
  <1>1. RunningRAM = Total(ram, S)
    BY DEF RunningRAM, Total
  <1>2. IsFiniteSet(S)
    <2> DEFINE T == {live[q] : q \in Pids}
    <2>1. live \in Surjection(Pids, T)
      BY DEF TypeOK, Surjection
    <2>2. IsFiniteSet(T)
      BY <2>1, PidAssumption, FS_Surjection
    <2>3. S \subseteq T
      BY DEF TypeOK, Seen
    <2> QED
      BY <2>2, <2>3, FS_Subset
  <1>3. \A n \in S : ram[n] \in Nat
    BY DEF TypeOK
  <1>4. \A q \in Pids : Counted[q] # 0 => /\ live[q] \in S /\ pidfile[live[q]] = q
                                          /\ Counted[q] = ram[live[q]]
    <2> SUFFICES ASSUME NEW q \in Pids, Counted[q] # 0
                 PROVE  /\ live[q] \in S /\ pidfile[live[q]] = q
                        /\ Counted[q] = ram[live[q]]
      OBVIOUS
    <2>1. q \notin lost \cup resized /\ mem[q] # 0 /\ Counted[q] = mem[q]
      BY DEF Counted
    <2>2. live[q] # NoName
      BY <2>1 DEF RAMInv
    <2>3. pidfile[live[q]] = q /\ live[q] \in recs /\ mem[q] = ram[live[q]]
      BY <2>1, <2>2 DEF RAMInv, LiveIsTracked, LiveIsSeen, LiveHasRecord
    <2> QED
      BY <2>1, <2>3, PidAssumption DEF Seen, NoPid
  <1>5. \A q \in Pids : Counted[q] \in Nat
    BY CountedType DEF RAMInv
  <1> DEFINE c == Counted
  <1> HIDE DEF S, c
  <1>6. /\ IsFiniteSet(Pids) /\ IsFiniteSet(S)
        /\ \A q \in Pids : c[q] \in Nat
        /\ \A q \in Pids : c[q] # 0 => live[q] \in S /\ c[q] <= ram[live[q]]
        /\ \A q, r \in Pids : c[q] # 0 /\ c[r] # 0 /\ live[q] = live[r] => q = r
    BY <1>2, <1>3, <1>4, <1>5, PidAssumption DEF c
  <1>7. Total(c, Pids) <= Total(ram, S)
    BY <1>3, <1>6, TotalDominated
  <1>8. Total(ram, S) \in Nat
    BY <1>2, <1>3, TotalType
  <1> QED
    BY <1>1, <1>7, <1>8 DEF c

\* The limit check admits a start that fits.
LEMMA CheckKeeps ==
    ASSUME Inv, LiveIsTracked, RAMInv, NEW p \in Actors, StartLimit(p)
    PROVE  RAMInv'
  <1>0. TypeOK /\ job[p] \in Job
    BY DEF Inv, TypeOK
  <1>1. UNCHANGED <<mem, live, lost, resized, ram>>
    BY DEF StartLimit, recVars, qemuVars
  <1>2. Counted' = Counted
    BY <1>1 DEF Counted
  <1>3. /\ OthersStay(p) /\ job'[p].ram = job[p].ram
    <2>1. CallRunning(p, job[p], "s_launch") /\ "s_launch" \in Steps
      BY DEF StartLimit, Steps
    <2> QED
      BY <1>0, <2>1, CallRunningEffect DEF SameTask
  <1>4. ASSUME MaxRAM > 0 PROVE WithinLimit'
    <2>1. WithinLimit /\ MaxRAM \in Nat
      BY <1>4, RAMAssumption DEF RAMInv
    <2>2. RunningRAM + job[p].ram <= MaxRAM /\ job[p].ram \in Nat
      BY <1>0, <1>4 DEF StartLimit, Job
    <2>3. /\ RunningRAM \in Nat /\ Total(Counted, Pids) <= RunningRAM
          /\ Total(Counted, Pids) \in Nat
      BY <1>0, CheckSeesAll, CountedSum DEF RAMInv
    <2>4. Total(Counted, Pids) + job[p].ram <= MaxRAM
      BY <2>1, <2>2, <2>3
    <2>5. ASSUME NEW o \in Actors, Admitted(o)'
          PROVE  Total(Counted, Pids) + job'[o].ram <= MaxRAM
      <3>1. CASE o = p
        BY <1>3, <2>4, <3>1
      <3>2. CASE o # p
        <4>1. Admitted(o) /\ job'[o].ram = job[o].ram
          BY <1>3, <2>5, <3>2 DEF OthersStay, SameJob, SameTask, Admitted, At
        <4> QED
          BY <2>1, <4>1 DEF WithinLimit
      <3> QED
        BY <3>1, <3>2
    <2> QED
      BY <1>2, <2>1, <2>5 DEF WithinLimit
  <1> QED
    BY <1>1, <1>4 DEF RAMInv

\* The launch spends what the check left room for: nobody else has started
\* anything since, as that needs the flock.
LEMMA LaunchKeeps ==
    ASSUME LiveMode = FALSE, Inv, RAMInv, NEW p \in Actors, Launch(p)
    PROVE  RAMInv'
  <1> DEFINE n == job[p].name  q == Min(FreePids)  r == job[p].ram
  <1>0. TypeOK /\ ActorInv(p)
    BY DEF Inv
  <1>1. /\ pc[p] = "s_launch" /\ n \in recs /\ FreePids # {}
        /\ live' = [live EXCEPT ![q] = n]
        /\ mem' = [mem EXCEPT ![q] = r]
        /\ resized' = IF ram[n] # r THEN resized \cup {q} ELSE resized
        /\ Return(p, "ok")
        /\ lost' = lost /\ ram' = ram
    BY DEF Launch, recVars
  <1>2. Admitted(p)
    BY <1>0, <1>1
    DEF Admitted, At, RunningSteps, ActorInv, Located, SnapOps, Waits
  <1>3. lock = p /\ r \in Nat
    BY <1>2, AdmittedHolds
  <1>4. q \in Pids /\ live[q] = NoName
    <2>1. FreePids \in SUBSET Nat
      BY PidAssumption DEF FreePids
    <2> QED
      BY <1>1, <2>1, MinInSet DEF FreePids
  <1>5. n # NoName
    BY <1>0, <1>1, NoneAssumption DEF TypeOK
  <1> HIDE DEF n, q, r
  <1>6. \A o \in Actors : ~Admitted(o)'
    <2> SUFFICES ASSUME NEW o \in Actors, Admitted(o)' PROVE FALSE
      OBVIOUS
    <2>1. CASE o = p
      <3>1. job'[p] = NoJob
        BY <1>0, <1>1, ReturnEffect
      <3> QED
        BY <2>1, <3>1 DEF Admitted, NoJob
    <2>2. CASE o # p
      <3>1. OthersStay(p)
        BY <1>0, <1>1, ReturnEffect
      <3>2. Admitted(o)
        BY <2>2, <3>1 DEF OthersStay, SameJob, SameTask, Admitted, At
      <3> QED
        BY <1>3, <2>2, <3>2, AdmittedHolds
    <2> QED
      BY <2>1, <2>2
  <1>7. mem \in [Pids -> Nat] /\ mem[q] = 0
    BY <1>4 DEF RAMInv
  <1>8. /\ mem' \in [Pids -> Nat]
        /\ \A x \in Pids : live'[x] = NoName => mem'[x] = 0
        /\ \A x \in Pids \ resized' : live'[x] # NoName => mem'[x] = ram'[live'[x]]
    <2>1. \A x \in Pids : /\ live'[x] = IF x = q THEN n ELSE live[x]
                          /\ mem'[x] = IF x = q THEN r ELSE mem[x]
      BY <1>0, <1>1, <1>7 DEF TypeOK
    <2>2. mem' \in [Pids -> Nat]
      BY <1>1, <1>3, <1>7
    <2> QED
      BY <1>1, <1>5, <2>1, <2>2 DEF RAMInv
  <1>9. ASSUME MaxRAM > 0 PROVE Total(Counted', Pids) <= MaxRAM
    <2> DEFINE f == Counted
               g == Counted'
               h == [x \in Pids |-> x]
    <2>1. \A x \in Pids : f[x] \in Nat /\ g[x] \in Nat
      BY <1>7, <1>8 DEF Counted
    <2>2. f[q] = 0 /\ g[q] <= r
      BY <1>1, <1>3, <1>4, <1>7 DEF Counted
    <2>3. \A x \in Pids \ {q} : g[x] <= f[x] /\ h[x] = x
      <3>1. \A x \in Pids \ {q} : mem'[x] = mem[x] /\ (x \in resized => x \in resized')
        BY <1>1, <1>7
      <3>2. \A x \in Pids \ {q} : Counted'[x] \in {0, Counted[x]}
        BY <1>1, <3>1 DEF Counted
      <3> QED
        BY <2>1, <3>2
    <2>4. IsFiniteSet(Pids) /\ IsFiniteSet(Pids \ {q})
      BY PidAssumption, FS_RemoveElement
    <2>5. Total(f, Pids) + r <= MaxRAM /\ MaxRAM \in Nat
      BY <1>2, <1>9, RAMAssumption DEF RAMInv, WithinLimit, r
    <2> HIDE DEF f, g, h
    <2>6. /\ Total(f, Pids) = f[q] + Total(f, Pids \ {q})
          /\ Total(g, Pids) = g[q] + Total(g, Pids \ {q})
      BY <1>4, <2>1, <2>4, TotalRemove
    <2>7. Total(g, Pids \ {q}) <= Total(f, Pids \ {q})
      BY <2>1, <2>3, <2>4, TotalDominated
    <2>8. Total(f, Pids \ {q}) \in Nat /\ Total(g, Pids \ {q}) \in Nat
      BY <2>1, <2>4, TotalType
    <2>9. Total(g, Pids) <= MaxRAM
      BY <1>3, <1>4, <2>1, <2>2, <2>5, <2>6, <2>7, <2>8
    <2> QED
      BY <2>9 DEF g
  <1> QED
    BY <1>6, <1>8, <1>9 DEF RAMInv, WithinLimit

\* Every step keeps the limit.
LEMMA RAMNext ==
    ASSUME LiveMode = FALSE
    PROVE  Inv /\ LiveHasRecord /\ RAMInv /\ [Next]_vars => RAMInv'
  <1> SUFFICES ASSUME Inv, LiveHasRecord, RAMInv, [Next]_vars PROVE RAMInv'
    OBVIOUS
  <1>0. TypeOK /\ LiveIsTracked /\ mem \in [Pids -> Nat]
    BY DEF Inv, LiveIsTracked, RAMInv
  <1>1. ASSUME UNCHANGED <<mem, live, resized, ram>>, lost \subseteq lost',
               \A o \in Actors : Admitted(o)' => Admitted(o) /\ job'[o].ram = job[o].ram
        PROVE  RAMInv'
    <2>1. \A q \in Pids : Counted[q] \in Nat /\ Counted'[q] \in {0, Counted[q]}
      BY <1>0, <1>1 DEF Counted
    <2>2. \A q \in Pids : Counted'[q] <= Counted[q]
      BY <2>1
    <2> QED
      BY <1>0, <1>1, <2>2, RAMKeeps DEF RAMInv
  <1>2. ASSUME NEW q \in Pids, Dies(q), ram' = ram,
               \A o \in Actors : Admitted(o)' => Admitted(o) /\ job'[o].ram = job[o].ram
        PROVE  RAMInv'
    <2>1. \A x \in Pids : /\ live'[x] = IF x = q THEN NoName ELSE live[x]
                          /\ mem'[x] = IF x = q THEN 0 ELSE mem[x]
                          /\ x # q => /\ x \in lost' <=> x \in lost
                                      /\ x \in resized' <=> x \in resized
      BY <1>0, <1>2 DEF Dies, TypeOK
    <2>2. mem' \in [Pids -> Nat]
      BY <1>0, <1>2 DEF Dies
    <2>3. \A x \in Pids : Counted[x] \in Nat /\ Counted'[x] \in {0, Counted[x]}
      BY <1>0, <2>1 DEF Counted
    <2>4. \A x \in Pids : Counted'[x] <= Counted[x]
      BY <2>3
    <2>5. /\ \A x \in Pids : live'[x] = NoName => mem'[x] = 0
          /\ \A x \in Pids \ resized' : live'[x] # NoName => mem'[x] = ram'[live'[x]]
      BY <1>2, <2>1 DEF RAMInv
    <2> QED
      BY <1>2, <2>2, <2>4, <2>5, RAMKeeps
  <1>3. ASSUME NEW p \in Actors, Begin(p) PROVE RAMInv'
    <2>1. UNCHANGED <<mem, live, resized, ram, lost>> /\ ~StartLimit(p)
      BY <1>3 DEF Begin, Poll, Start, Stop, Destroy, Snapshot, StartLimit, fileVars, recVars,
                  qemuVars
    <2>2. \A o \in Actors : Admitted(o)' => Admitted(o) /\ job'[o].ram = job[o].ram
      BY <1>3, <2>1, AdmittedStays
    <2> QED
      BY <1>1, <2>1, <2>2
  <1>4. ASSUME NEW p \in Actors, Step(p) PROVE RAMInv'
    <2>1. CASE StartLimit(p)
      BY <1>0, <2>1, CheckKeeps
    <2>2. CASE Launch(p)
      BY <2>2, LaunchKeeps
    <2>3. ASSUME ~StartLimit(p)
          PROVE  \A o \in Actors : Admitted(o)' => Admitted(o) /\ job'[o].ram = job[o].ram
      BY <1>4, <2>3, AdmittedStays
    <2>4. CASE StopKill(p)
      <3>1. ActorInv(p) /\ job[p] \in Job /\ ~StartLimit(p)
        BY <1>0, <2>4 DEF StopKill, StartLimit, Inv, TypeOK
      <3>2. job[p].pid \in Pids
        BY <2>4, <3>1 DEF StopKill, ActorInv, Located, StopInv, At, RunningSteps, SnapOps
      <3>3. ram' = ram /\ (Dies(job[p].pid) \/ UNCHANGED qemuVars)
        BY <2>4 DEF StopKill, fileVars, recVars
      <3> QED
        BY <1>1, <1>2, <2>3, <3>1, <3>2, <3>3 DEF qemuVars
    <2>5. CASE ~(StartLimit(p) \/ Launch(p) \/ StopKill(p))
      <3>1. UNCHANGED <<mem, live, resized, ram>> /\ lost \subseteq lost'
        <4>1. CASE RunningRemove(p)
          BY <4>1 DEF RunningRemove, recVars
        <4>2. CASE ~RunningRemove(p)
          BY <1>4, <2>5, <4>2
          DEF Step, RunningRead, RunningCheck, PollDone, StartLock, StartFails,
              StopState, StopAsk, StopAwait, StopGone, StopTimeout, StopTerm, DestroyStop,
              DestroyDelete, SnapshotList, RestoreState, QmpDial, QmpSend, QmpRead, QmpLost,
              ImgOpen, ImgRun, ImgDone, fileVars, recVars, qemuVars
        <4> QED
          BY <4>1, <4>2
      <3> QED
        BY <1>1, <2>3, <2>5, <3>1
    <2> QED
      BY <2>1, <2>2, <2>4, <2>5
  <1>5. ASSUME NEW n \in Names, NEW r \in RAMs[n], Create(n, r) \/ UpdateRAM(n, r)
        PROVE  RAMInv'
    <2>1. /\ ram' = [ram EXCEPT ![n] = r]
          /\ resized' = resized \cup {q \in Live(n) : mem[q] # r}
          /\ UNCHANGED <<pc, job, live, mem, lost>>
      BY <1>5 DEF Create, UpdateRAM
    <2>2. \A q \in Pids : Counted[q] \in Nat /\ Counted'[q] \in {0, Counted[q]}
      BY <1>0, <2>1 DEF Counted
    <2>3. \A q \in Pids : Counted'[q] <= Counted[q]
      BY <2>2
    <2>4. \A q \in Pids \ resized' : live'[q] # NoName => mem'[q] = ram'[live'[q]]
      <3> SUFFICES ASSUME NEW q \in Pids \ resized', live[q] # NoName
                   PROVE  mem[q] = ram'[live[q]]
        BY <2>1
      <3>1. live[q] \in Names /\ mem[q] = ram[live[q]]
        BY <1>0, <2>1 DEF TypeOK, RAMInv
      <3>2. CASE live[q] = n
        BY <1>0, <2>1, <3>2 DEF Live, TypeOK
      <3>3. CASE live[q] # n
        BY <1>0, <2>1, <3>1, <3>3 DEF TypeOK
      <3> QED
        BY <3>2, <3>3
    <2>5. \A o \in Actors : Admitted(o)' => Admitted(o) /\ job'[o].ram = job[o].ram
      BY <2>1 DEF Admitted, At
    <2>6. mem' \in [Pids -> Nat] /\ \A q \in Pids : live'[q] = NoName => mem'[q] = 0
      BY <2>1 DEF RAMInv
    <2> QED
      BY <2>3, <2>4, <2>5, <2>6, RAMKeeps
  <1>6. ASSUME NEW q \in Pids, QemuExits(q) PROVE RAMInv'
    <2>1. Dies(q) /\ ram' = ram /\ UNCHANGED <<pc, job>>
      BY <1>6 DEF QemuExits, recVars
    <2>2. \A o \in Actors : Admitted(o)' => Admitted(o) /\ job'[o].ram = job[o].ram
      BY <2>1 DEF Admitted, At
    <2> QED
      BY <1>2, <2>1, <2>2
  <1>7. CASE UNCHANGED vars
    BY <1>7 DEF vars, RAMInv, WithinLimit, Counted, Admitted, At
  <1> QED
    BY <1>3, <1>4, <1>5, <1>6, <1>7 DEF Next

\* Nothing runs and nobody starts anything.
LEMMA RAMInit == Init => RAMInv
  <1> SUFFICES ASSUME Init PROVE RAMInv
    OBVIOUS
  <1>1. mem \in [Pids -> Nat] /\ \A q \in Pids : mem[q] = 0 /\ live[q] = NoName
    BY DEF Init
  <1>2. \A p \in Actors : ~Admitted(p)
    BY DEF Init, Admitted, NoJob
  <1>3. Total(Counted, Pids) = 0
    <2> DEFINE c == Counted
               h == [q \in Pids |-> q]
    <2>1. IsFiniteSet(Pids) /\ IsFiniteSet({}) /\ \A q \in Pids : c[q] = 0
      BY <1>1, PidAssumption, FS_EmptySet DEF Counted
    <2> HIDE DEF c
    <2>2. Total(c, Pids) <= Total(c, {})
      BY <2>1, TotalDominated
    <2>3. Total(c, {}) = 0
      BY <2>1, TotalUnfolds
    <2>4. Total(c, Pids) \in Nat
      <3>1. \A q \in Pids : c[q] \in Nat
        BY <2>1
      <3> QED
        BY <2>1, <3>1, TotalType
    <2> QED
      BY <2>2, <2>3, <2>4 DEF c
  <1> QED
    BY <1>1, <1>2, <1>3, RAMAssumption DEF RAMInv, WithinLimit

\* WithinMaxRAM: however starts, edits of vm.toml, stops and crashes interleave, the
\* running qemus never hold more than max_ram_mb -- while the limit check can see them
\* all, and each holds what its vm.toml records.  A start that passed the check keeps
\* the room it was promised, because it holds the flock until its qemu runs.  A VM
\* that boots live may be launched with no vm.toml left, and the check adds up the
\* vm.tomls; that is why it is left out.
THEOREM MemoryStaysWithin ==
    ASSUME LiveMode = FALSE
    PROVE  Spec => []WithinMaxRAM
  <1>1. Init => LiveHasRecord
    BY DEF Init, LiveHasRecord
  <1>2. RAMInv => WithinMaxRAM
    <2> SUFFICES ASSUME RAMInv, MaxRAM > 0, lost = {}, resized = {}
                 PROVE  HeldRAM <= MaxRAM
      BY DEF WithinMaxRAM
    <2>1. mem = Counted
      BY DEF RAMInv, Counted
    <2>2. HeldRAM = Total(mem, Pids)
      BY DEF HeldRAM, Total
    <2> QED
      BY <2>1, <2>2 DEF RAMInv, WithinLimit
  <1> QED
    BY <1>1, <1>2, InvHolds, RecordNext, RAMInit, RAMNext, PTL DEF Spec

\* The five ways in which Stop and the snapshot operations report success.
LEMMA OkReturns ==
    ASSUME Inv, [Next]_vars, NEW p \in Actors, job[p].op \in {"stop"} \cup SnapOps,
           pc'[p] = "idle", reply' = "ok"
    PROVE  \/ StopAsk(p) /\ ~job[p].up
           \/ StopGone(p)
           \/ StopTerm(p) /\ pidfile[job[p].name] = NoPid
           \/ QmpRead(p) /\ Head(job[p].inbox) = "return"
           \/ ImgDone(p)
  <1>0. TypeOK /\ ActorInv(p) /\ pc[p] # "idle" /\ pc' # pc
    BY DEF Inv, ActorInv, Located, At, RunningSteps, SnapOps, Waits
  <1>1. ASSUME NEW o \in Actors, Begin(o) PROVE FALSE
    BY <1>1 DEF Begin, Poll, Start, Stop, Destroy, Snapshot, CallRunning, Goto, Silent
  <1>2. ~\E n \in Names : \E r \in RAMs[n] : Create(n, r) \/ UpdateRAM(n, r)
    BY DEF Create, UpdateRAM, Silent
  <1>3. ~\E q \in Pids : QemuExits(q)
    BY DEF QemuExits, Silent
  <1>4. PICK o \in Actors : Step(o)
    BY <1>0, <1>1, <1>2, <1>3 DEF Next, vars
  <1>5. ASSUME NEW up, Answer(o, up) PROVE FALSE
    BY <1>5 DEF Answer, Goto, Silent
  <1>6. \/ PollDone(o) \/ Launch(o) \/ DestroyDelete(o)
        \/ StopAsk(o) /\ ~job[o].up
        \/ StopGone(o)
        \/ StopTerm(o) /\ pidfile[job[o].name] = NoPid
        \/ QmpRead(o) /\ Head(job[o].inbox) = "return"
        \/ ImgDone(o)
    <2>1. ~(RunningRead(o) \/ RunningCheck(o) \/ RunningRemove(o))
      BY <1>5 DEF RunningRead, RunningCheck, RunningRemove, Goto, Silent
    <2>2. ~(StartLock(o) \/ StartLimit(o) \/ StartFails(o) \/ StopState(o)
            \/ StopTimeout(o) \/ StopKill(o) \/ StopAwait(o) \/ DestroyStop(o))
      BY DEF StartLock, StartLimit, StartFails, StopState, StopTimeout, StopKill,
             StopAwait, DestroyStop, CallRunning, Return, Goto, Silent
    <2>3. ~(SnapshotList(o) \/ RestoreState(o) \/ QmpDial(o) \/ QmpSend(o)
            \/ QmpLost(o) \/ ImgOpen(o) \/ ImgRun(o))
      BY DEF SnapshotList, RestoreState, QmpDial, QmpSend, QmpLost, ImgOpen, ImgRun,
             CallRunning, Return, Goto, Silent
    <2>4. StopAsk(o) => ~job[o].up
      BY DEF StopAsk, CallRunning, Goto, Silent
    <2>5. StopTerm(o) => pidfile[job[o].name] = NoPid
      BY DEF StopTerm, CallRunning, Return, Silent
    <2>6. QmpRead(o) => Head(job[o].inbox) = "return"
      BY DEF QmpRead, Return, Silent
    <2> QED
      BY <1>4, <2>1, <2>2, <2>3, <2>4, <2>5, <2>6 DEF Step
  <1>7. o = p
    <2>1. pc' = [pc EXCEPT ![o] = "idle"] \/ pc'[p] = pc[p]
      BY <1>6 DEF PollDone, Launch, DestroyDelete, StopAsk, StopGone, StopTerm, QmpRead,
                  ImgDone, Return, CallRunning, Silent, Goto
    <2> QED
      BY <1>0, <2>1 DEF TypeOK
  <1>8. ~(PollDone(p) \/ Launch(p) \/ DestroyDelete(p))
    BY <1>0 DEF PollDone, Launch, DestroyDelete, ActorInv, Located, At, RunningSteps,
                SnapOps, Waits
  <1> QED
    BY <1>6, <1>7, <1>8

\* A step reports success only for what it has done.
LEMMA OkNext ==
    ASSUME Inv, [Next]_vars
    PROVE  StopStep /\ SnapshotStep
  <1>0. TypeOK /\ LiveIsSeen
    BY DEF Inv
  <1>1. ASSUME NEW p \in Actors, job[p].op = "stop", pc'[p] = "idle", reply' = "ok",
               job[p].victim \notin lost \cup {NoPid}
        PROVE  live'[job[p].victim] = NoName
    <2> DEFINE v == job[p].victim
    <2>1. /\ ActorInv(p) /\ v \in Pids /\ job[p].name \in Names
          /\ live[v] \in {job[p].name, NoName}
      BY <1>0, <1>1 DEF Inv, TypeOK, Job, ActorInv, Located, StopInv
    <2>2. \/ StopAsk(p) /\ ~job[p].up
          \/ StopGone(p)
          \/ StopTerm(p) /\ pidfile[job[p].name] = NoPid
          \/ QmpRead(p) \/ ImgDone(p)
      BY <1>1, OkReturns
    <2>3. ~(QmpRead(p) \/ ImgDone(p))
      BY <1>1, <2>1 DEF QmpRead, ImgDone, ActorInv, Located, At, RunningSteps, Waits
    <2>4. live' = live
      BY <2>2, <2>3 DEF StopAsk, StopGone, StopTerm, qemuVars
    <2>5. pidfile[job[p].name] = NoPid => live[v] = NoName
      BY <1>0, <1>1, <2>1 DEF LiveIsSeen
    <2>6. CASE StopAsk(p) /\ ~job[p].up
      BY <1>1, <2>1, <2>4, <2>6 DEF StopAsk, ActorInv, StopInv, Over
    <2>7. CASE StopGone(p)
      BY <1>1, <2>1, <2>4, <2>5, <2>7 DEF StopGone, ActorInv, StopInv, Over
    <2> QED
      BY <2>2, <2>3, <2>4, <2>5, <2>6, <2>7
  <1>2. ASSUME NEW p \in Actors, job[p].op \in SnapOps, pc'[p] = "idle", reply' = "ok"
        PROVE  job[p].did
    <2>1. ActorInv(p) /\ job[p] \in Job
      BY <1>0 DEF Inv, TypeOK
    <2>2. \/ StopAsk(p) \/ StopGone(p) \/ StopTerm(p)
          \/ QmpRead(p) /\ Head(job[p].inbox) = "return"
          \/ ImgDone(p)
      BY <1>2, OkReturns
    <2>3. ~(StopAsk(p) \/ StopGone(p) \/ StopTerm(p))
      BY <1>2, <2>1
      DEF StopAsk, StopGone, StopTerm, ActorInv, Located, At, RunningSteps, Waits, SnapOps
    <2>4. CASE QmpRead(p) /\ Head(job[p].inbox) = "return"
      <3>1. job[p].inbox \in Seq({"event", "return", "error"}) /\ job[p].inbox # <<>>
        BY <2>1, <2>4 DEF QmpRead, Job
      <3>2. 1 \in 1..Len(job[p].inbox) /\ job[p].inbox[1] = "return"
        BY <2>4, <3>1
      <3> QED
        BY <2>1, <2>4, <3>2 DEF QmpRead, ActorInv, SnapInv
    <2>5. CASE ImgDone(p)
      BY <2>1, <2>5 DEF ImgDone, ActorInv, SnapInv
    <2> QED
      BY <2>2, <2>3, <2>4, <2>5
  <1> QED
    BY <1>1, <1>2 DEF StopStep, SnapshotStep

\* OkIsDone: when Stop says it stopped the VM, the qemu that ran when it was
\* called is dead, if it could be seen; when a snapshot operation says it is
\* done, qemu or qemu-img carried it out during the call.
THEOREM OkMeansDone == Spec => OkIsDone
  <1>1. Inv /\ [Next]_vars => [StopStep]_vars /\ [SnapshotStep]_vars
    BY OkNext
  <1> QED
    BY <1>1, InvHolds, PTL DEF Spec, OkIsDone, StopReallyStops, SnapshotOkIsDone
=============================================================================
