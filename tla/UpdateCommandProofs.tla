------------------------ MODULE UpdateCommandProofs ------------------------
(***************************************************************************)
(* The commands that change a VM's record, proved.  `stoat update`: its    *)
(* two-file swap is atomic towards its caller, loses no record and never   *)
(* overstates the disk, for a rollback whose renames succeed: a rollback   *)
(* that fails leaves no record (update.go:403).  The setup every command   *)
(* begins with makes one key pair for good and tells the user's recipe     *)
(* files from stoat's own.  `stoat up`, `down`, `rm`, `prune` and `gce     *)
(* extend` on GCE: Reconcile converges, and no instance, rule or deadline  *)
(* is lost track of, whatever is killed, refused or left unanswered.       *)
(***************************************************************************)
EXTENDS UpdateCommand, Remote, SequenceTheorems, TLAPS, WellFoundedInduction, NaturalsInduction

-----------------------------------------------------------------------------
(* commitUpdate *)

Rolling == {"rb_rm_sec", "rb_rm_vm", "rb_sec", "rb_vm"}

\* Where the old and the new vm.toml are, by step.
VMShape ==
    /\ pc \in {"resize", "stage", "probe", "stage_sec", "backup"} =>
         vm = "old" /\ bvm = "none" /\ flags = {}
    /\ pc \in {"backup_sec", "install", "install_sec"} \cup Rolling =>
         bvm = "old" /\ "vmHadOld" \in flags
    /\ pc \in {"backup_sec", "install"} => vm = "none" /\ svm = "new"
    /\ pc \in {"probe", "stage_sec", "backup"} => svm = "new"
    /\ pc = "install_sec" => vm = "new"

\* Where the old and the new secrets.toml are, by step.
SecretsShape ==
    /\ pc \in {"resize", "stage", "probe", "stage_sec", "backup", "backup_sec"} =>
         sec = had /\ bsec = "none" /\ "secretHadOld" \notin flags
    /\ pc \in {"install", "install_sec"} \cup (Rolling \ {"rb_vm"}) =>
         \/ "secretHadOld" \in flags /\ touched /\ had = "old" /\ bsec = "old" /\ sec = "none"
         \/ "secretHadOld" \notin flags /\ sec = had
    /\ pc \in {"install", "install_sec"} /\ touched /\ "secretHadOld" \notin flags => had = "none"
    /\ pc \in {"backup", "backup_sec", "install", "install_sec"} =>
         ssec = IF touched /\ ~emptied THEN "new" ELSE "none"
    /\ pc \notin {"cleanup", "done", "killed"} => "secretInstalled" \notin flags
    /\ pc = "rb_vm" => sec = had

\* What Update is about to answer is what it did.
ReplyShape ==
    /\ pc \notin {"cleanup", "done", "killed"} => reply = "none"
    /\ pc \in {"cleanup", "done"} =>
         \/ reply = "ok" /\ vm = "new" /\ sec = Wanted
         \/ reply = "err" /\ vm = "old" /\ sec = had

\* The disk is grown before a vm.toml that says so is written anywhere.
DiskShape ==
    grow => /\ pc \notin {"resize", "done", "killed"} => disk = "new"
            /\ svm = "new" \/ vm = "new" => disk = "new"

CommitInv == TypeOK /\ VMShape /\ SecretsShape /\ ReplyShape /\ DiskShape /\ RecordSurvives

-----------------------------------------------------------------------------
LEMMA CommitInvInit == Init => CommitInv
  BY DEF Init, CommitInv, TypeOK, VMShape, SecretsShape, ReplyShape, DiskShape,
         RecordSurvives, Flags, Steps, Rolling

LEMMA CommitInvNext ==
    ASSUME ~RollbackFails, CommitInv, [Next]_vars
    PROVE  CommitInv'
  <1> USE DEF CommitInv, TypeOK, VMShape, SecretsShape, ReplyShape, DiskShape,
              RecordSurvives, Flags, Steps, Rolling, Wanted, input, targets, stage
  <1>1. CASE Resize
    BY <1>1 DEF Resize
  <1>2. CASE StageFails
    BY <1>2 DEF StageFails
  <1>3. CASE StageVM
    BY <1>3 DEF StageVM
  <1>4. CASE Probe
    BY <1>4 DEF Probe
  <1>5. CASE StageSecrets
    BY <1>5 DEF StageSecrets
  <1>6. CASE Backup
    BY <1>6 DEF Backup
  <1>7. CASE BackupSecrets
    BY <1>7 DEF BackupSecrets
  <1>8. CASE Install
    BY <1>8 DEF Install
  <1>9. CASE InstallSecrets
    BY <1>9 DEF InstallSecrets
  <1>10. CASE SwapFails
    BY <1>10 DEF SwapFails
  <1>11. CASE RollbackRemoveSecrets
    BY <1>11 DEF RollbackRemoveSecrets
  <1>12. CASE RollbackRemoveVM
    BY <1>12 DEF RollbackRemoveVM
  <1>13. CASE RollbackSecrets
    BY <1>13 DEF RollbackSecrets
  <1>14. CASE RollbackVM
    BY <1>14 DEF RollbackVM
  <1>15. CASE Cleanup
    BY <1>15 DEF Cleanup
  <1>16. CASE Kill
    BY <1>16 DEF Kill
  <1>17. CASE UNCHANGED vars
    BY <1>17 DEF vars
  <1> HIDE DEF CommitInv
  <1> QED
    BY <1>1, <1>2, <1>3, <1>4, <1>5, <1>6, <1>7, <1>8, <1>9,
       <1>10, <1>11, <1>12, <1>13, <1>14, <1>15, <1>16, <1>17, [Next]_vars DEF Next

\* Update's files keep their types at every step.
THEOREM TypeCorrect == ASSUME ~RollbackFails PROVE Spec => []TypeOK
  <1>1. CommitInv => TypeOK
    BY DEF CommitInv
  <1> QED
    BY <1>1, CommitInvInit, CommitInvNext, PTL DEF Spec

\* Whichever step fails and wherever the process is killed, the VM's record is
\* in vm.toml or in the stage directory's backup, and vm.toml never claims a
\* larger disk than the one that exists.
THEOREM RecordStaysSound == ASSUME ~RollbackFails PROVE Spec => []RecordSound
  <1>1. CommitInv => RecordSurvives
    BY DEF CommitInv
  <1>2. CommitInv => DiskNotOverstated
    BY DEF CommitInv, DiskShape, DiskNotOverstated
  <1>3. CommitInv => RecordSound
    BY <1>1, <1>2 DEF RecordSound
  <1> QED
    BY <1>3, CommitInvInit, CommitInvNext, PTL DEF Spec

-----------------------------------------------------------------------------
(* The refinement: the return is the abstract step, all else stutters. *)

LEMMA AtomicInit == Init => Atomic!Init
  BY DEF Init, Atomic!Init, Files, Reply

LEMMA AtomicNext ==
    ASSUME CommitInv, CommitInv', [Next]_vars
    PROVE  [Atomic!Next]_(Atomic!vars)
  <1>1. CASE pc' # "done" /\ pc # "done"
    BY <1>1 DEF Files, Reply, Atomic!vars
  <1>2. CASE pc = "done"
    <2>1. UNCHANGED vars
      BY <1>2, [Next]_vars DEF Next, Resize, StageFails, StageVM, Probe, StageSecrets,
           Backup, BackupSecrets, Install, InstallSecrets, SwapFails,
           RollbackRemoveSecrets, RollbackRemoveVM, RollbackSecrets, RollbackVM,
           Cleanup, Kill
    <2> QED
      BY <2>1 DEF vars, input, targets, Files, Reply, Wanted, Atomic!vars
  <1>3. CASE pc # "done" /\ pc' = "done"
    <2>1. Files = "old" /\ Reply = "none"
      BY <1>3 DEF Files, Reply
    <2>2. \/ reply' = "ok" /\ vm' = "new" /\ sec' = Wanted'
          \/ reply' = "err" /\ vm' = "old" /\ sec' = had'
      BY <1>3 DEF CommitInv, ReplyShape
    <2>3. \/ Files' = "new" /\ Reply' = "ok"
          \/ Files' = "old" /\ Reply' = "err"
      BY <1>3, <2>2 DEF Files, Reply
    <2> QED
      BY <2>1, <2>3 DEF Atomic!Next, Atomic!Commit, Atomic!Abort
  <1> QED
    BY <1>1, <1>2, <1>3

\* Update implements an atomic replacement of the pair of files: it answers
\* "ok" with both new or an error with both as they were.
THEOREM UpdateIsAtomic == ASSUME ~RollbackFails PROVE Spec => AllOrNothing
  <1>1. CommitInv /\ CommitInv' /\ [Next]_vars => [Atomic!Next]_(Atomic!vars)
    BY AtomicNext
  <1> QED
    BY <1>1, AtomicInit, CommitInvInit, CommitInvNext, PTL
    DEF Spec, AllOrNothing, Atomic!Spec

-----------------------------------------------------------------------------
(* The command does to vm.toml and secrets.toml what the transaction does. *)

\* The steps of setup leave the transaction's files alone.
LEMMA CommandUpdates == CommandSpec => Spec
  <1>1. CommandInit => Init
    BY DEF CommandInit
  <1>2. [CommandNext]_<<vars, setupVars>> => [Next]_vars
    BY DEF CommandNext
  <1> QED
    BY <1>1, <1>2, PTL DEF CommandSpec, Spec

\* stoat update, from its start to its end and with every other command beside
\* it: the record survives, and the reply tells which pair of files is there.
THEOREM CommandIsAtomic == ASSUME ~RollbackFails PROVE CommandSpec => []RecordSound /\ AllOrNothing
  BY CommandUpdates, RecordStaysSound, UpdateIsAtomic, PTL

-----------------------------------------------------------------------------
(* Setup: facts *)

\* Texts are told apart, and a release ships files of the recipe directory.
LEMMA TextFacts ==
    /\ None \notin Releases /\ Torn \notin Releases /\ Users \notin Releases
    /\ None # Torn /\ None # Users /\ Torn # Users
    /\ Releases \subseteq Texts /\ None \in Texts /\ Torn \in Texts /\ Users \in Texts
    /\ \A r \in Releases : r \in Nat /\ r # 0 /\ Ships[r] \subseteq RecipeFiles /\ 1 .. r \subseteq Releases
  <1>1. Len(Ships) \in Nat /\ Releases = 1 .. Len(Ships)
    BY ShipsAssumption DEF Releases
  <1>2. \A r \in Releases : Ships[r] \subseteq RecipeFiles
    BY ShipsAssumption DEF Releases
  <1> QED
    BY <1>1, <1>2 DEF None, Torn, Users, Texts

\* A nonempty set of numbers has a least element.
LEMMA MinInSet ==
    ASSUME NEW S \in SUBSET Nat, S # {}
    PROVE  Min(S) \in S
  <1>1. PICK x \in S : \A y \in S : ~(<<y, x>> \in OpToRel(<, Nat))
    BY NatLessThanWellFounded, WFMin, Zenon
  <1>2. \A y \in S : ~(y < x)
    BY <1>1, Zenon DEF OpToRel
  <1>3. \E m \in S : \A y \in S : m =< y
    BY <1>2
  <1> QED
    BY <1>3 DEF Min

\* A walk that is not over is at one of the files it has still to see.
LEMMA FileAhead ==
    ASSUME NEW p \in Procs, mem[p].todo \subseteq RecipeFiles, mem[p].todo # {}
    PROVE  /\ File(p) \in mem[p].todo /\ File(p) \in RecipeFiles
           /\ mem[p].todo \cap Ships[release] # {} => File(p) \in Ships[release]
  <1> DEFINE S == {i \in DOMAIN Walk : Walk[i] \in Round(p)}
  <1>1. Round(p) # {} /\ Round(p) \subseteq mem[p].todo
    BY DEF Round
  <1>2. DOMAIN Walk = 1 .. Len(Walk) /\ Len(Walk) \in Nat
    BY ShipsAssumption
  <1>3. S \in SUBSET Nat
    BY <1>2
  <1>4. S # {}
    BY <1>1 DEF RecipeFiles
  <1>5. Min(S) \in S
    BY <1>3, <1>4, MinInSet
  <1>6. File(p) \in Round(p)
    BY <1>5 DEF File
  <1> QED
    BY <1>1, <1>6 DEF Round

\* The memory of a process that walks no directory.
LEMMA MemoryFacts ==
    /\ NoSums \in Sums /\ NoMem \in Memory
    /\ NoMem.refreshing = FALSE /\ NoMem.man \in [there : BOOLEAN, sums : Sums] /\ NoMem.man.there = FALSE
    /\ NoMem.next = NoSums /\ NoMem.todo = {} /\ NoMem.have = None
  <1>1. NoSums \in Sums
    BY DEF NoSums, Sums
  <1>2. None \in Texts
    BY TextFacts
  <1> HIDE DEF NoSums, Sums
  <1> QED
    BY <1>1, <1>2 DEF NoMem, Memory

-----------------------------------------------------------------------------
(* Types *)

AllSteps == InRecipes \cup InKeys \cup {"idle", "ready"}

\* What the steps make of a process's memory.
LEMMA MemoryEdits ==
    ASSUME NEW m \in Memory, release \in Releases
    PROVE  /\ \A f, v : v \in Texts => [[m EXCEPT !.todo = @ \ {f}, !.have = None] EXCEPT !.have = v] \in Memory
           /\ \A f : [m EXCEPT !.todo = @ \ {f}, !.have = None] \in Memory
           /\ \A f : [m EXCEPT !.next[f] = release] \in Memory
           /\ \A v \in Texts : [m EXCEPT !.have = v] \in Memory
           /\ [m EXCEPT !.refreshing = TRUE] \in Memory
           /\ \A w \in [there : BOOLEAN, sums : Sums], n \in Sums, T \in SUBSET RecipeFiles :
                [[[m EXCEPT !.man = w] EXCEPT !.todo = T] EXCEPT !.next = n] \in Memory
  <1>1. None \in Texts /\ Ships[release] \subseteq RecipeFiles
    BY TextFacts
  <1>2. \A f : [m.next EXCEPT ![f] = release] \in Sums
    BY DEF Memory, Sums
  <1> HIDE DEF Sums, Texts
  <1>3. \A f : [m EXCEPT !.next[f] = release] \in Memory
    <2> SUFFICES ASSUME NEW f PROVE [m EXCEPT !.next[f] = release] \in Memory
      OBVIOUS
    <2>1. [m EXCEPT !.next[f] = release] = [m EXCEPT !.next = [m.next EXCEPT ![f] = release]]
      BY DEF Memory
    <2> QED
      BY <1>2, <2>1 DEF Memory
  <1> QED
    BY <1>1, <1>3 DEF Memory

\* Every step of a process keeps the types.
LEMMA TypeStep ==
    ASSUME SetupTypeOK, NEW p \in Procs, SetupStep(p) \/ CommandEnds(p)
    PROVE  SetupTypeOK'
  <1> USE DEF Goto
  <1> DEFINE f == File(p)
  <1>1. /\ at \in [Procs -> AllSteps] /\ mem \in [Procs -> Memory] /\ mem[p] \in Memory
        /\ asks \in [Procs -> {"command", "refresh"}] /\ keyLock \in Procs \cup {NoProc}
        /\ recipe \in [RecipeFiles -> Texts] /\ bak \in [RecipeFiles -> Texts]
        /\ release \in Releases /\ release \in Texts /\ release \in Nat
        /\ edited \subseteq RecipeFiles /\ spoiled \subseteq RecipeFiles
        /\ manifest \in [there : BOOLEAN, sums : Sums] /\ flat \in BOOLEAN /\ attic \in BOOLEAN
        /\ keygens \in Nat /\ {priv, pub, trusted} \subseteq 0 .. keygens + 1 /\ cuts \in 0 .. MaxCuts
        /\ Torn \in Texts /\ None \in Texts /\ None = 0 /\ MaxCuts \in Nat
        /\ mem[p].have \in Texts /\ mem[p].next \in Sums /\ mem[p].todo \subseteq RecipeFiles
        /\ Ships[release] \subseteq RecipeFiles
    BY TextFacts, SetupAssumption DEF SetupTypeOK, AllSteps, None, Memory
  <1>2. NoMem \in Memory /\ NoSums \in Sums
    BY MemoryFacts
  <1>3. ASSUME NEW k \in Memory, mem' = [mem EXCEPT ![p] = k] \/ mem' = mem
        PROVE  mem' \in [Procs -> Memory]
    BY <1>1, <1>3
  <1>4. ASSUME Ensured(p)
        PROVE  at' \in [Procs -> AllSteps] /\ mem' \in [Procs -> Memory] /\ trusted' \in {trusted, priv}
    <2>1. at' \in [Procs -> AllSteps] /\ trusted' \in {trusted, priv}
      BY <1>1, <1>4 DEF Ensured, AllSteps, InRecipes
    <2>2. mem' = [mem EXCEPT ![p] = [mem[p] EXCEPT !.refreshing = TRUE]] \/ mem' = mem
      BY <1>1, <1>4 DEF Ensured
    <2> QED
      BY <1>1, <1>3, <2>1, <2>2, MemoryEdits
  <1> HIDE DEF Memory, Sums, Texts, f
  <1>10. CASE Command(p) \/ CommandEnds(p)
    BY <1>1, <1>10 DEF Command, CommandEnds, SetupTypeOK, AllSteps, InRecipes, recipeVars, keyVars
  <1>11. CASE SweepLists(p) \/ SweepMoves(p)
    BY <1>1, <1>11 DEF SweepLists, SweepMoves, SetupTypeOK, AllSteps, InRecipes, recipeVars, keyVars
  <1>12. CASE ReadManifest(p)
    <2> DEFINE todo == IF mem[p].refreshing THEN RecipeFiles ELSE Ships[release]
               next == IF mem[p].refreshing THEN manifest.sums ELSE NoSums
    <2>1. todo \in SUBSET RecipeFiles /\ next \in Sums
      BY <1>1, <1>2
    <2>2. mem' = [mem EXCEPT ![p] = [[[mem[p] EXCEPT !.man = manifest] EXCEPT !.todo = todo] EXCEPT !.next = next]]
      BY <1>1, <1>12 DEF ReadManifest
    <2> HIDE DEF todo, next
    <2>3. mem' \in [Procs -> Memory]
      BY <1>1, <1>3, <2>1, <2>2, MemoryEdits
    <2> QED
      BY <1>1, <1>12, <2>3 DEF ReadManifest, SetupTypeOK, AllSteps, InRecipes, recipeVars, keyVars
  <1>13. CASE ReadRecipe(p)
    <2>1. CASE mem[p].todo = {}
      BY <1>1, <1>13, <2>1 DEF ReadRecipe, SetupTypeOK, AllSteps, InRecipes, recipeVars, keyVars
    <2>2. CASE mem[p].todo # {}
      <3>1. f \in RecipeFiles /\ recipe[f] \in Texts
        BY <1>1, <2>2, FileAhead DEF f
      <3> DEFINE do == Decides(p, recipe[f])
                 seen(m) == [m EXCEPT !.todo = @ \ {f}, !.have = None]
      <3>2. /\ CASE do = "current" -> mem' = [mem EXCEPT ![p] = seen([mem[p] EXCEPT !.next[f] = release]) ] /\ at' = at
                 [] do = "leave"   -> mem' = [mem EXCEPT ![p] = seen(mem[p])] /\ at' = at
                 [] OTHER -> at' = [at EXCEPT ![p] = do] /\ mem' = [mem EXCEPT ![p] = [mem[p] EXCEPT !.have = recipe[f]]]
            /\ spoiled' \subseteq RecipeFiles
        BY <1>1, <1>13, <2>2, <3>1 DEF ReadRecipe, NextFile, Record, f
      <3>3. do \in {"current", "leave", "trunc", "bak_trunc"}
        BY DEF Decides, InstallDecides, RefreshDecides, OrphanDecides
      <3>4. seen(mem[p]) \in Memory /\ seen([mem[p] EXCEPT !.next[f] = release]) \in Memory
            /\ [mem[p] EXCEPT !.have = recipe[f]] \in Memory
        BY <1>1, <3>1, MemoryEdits
      <3> HIDE DEF do, seen
      <3>5. mem' \in [Procs -> Memory]
        BY <1>1, <3>2, <3>4
      <3>6. at' \in [Procs -> AllSteps]
        BY <1>1, <3>2, <3>3 DEF AllSteps, InRecipes
      <3> QED
        BY <1>1, <1>13, <3>2, <3>5, <3>6 DEF ReadRecipe, SetupTypeOK, AllSteps, keyVars
    <2> QED
      BY <2>1, <2>2
  <1>14. CASE TruncateBak(p) \/ WriteBak(p) \/ TruncateRecipe(p)
    <2>1. bak' \in [RecipeFiles -> Texts] /\ recipe' \in [RecipeFiles -> Texts]
      BY <1>1, <1>14 DEF TruncateBak, WriteBak, TruncateRecipe
    <2> QED
      BY <1>1, <1>14, <2>1 DEF TruncateBak, WriteBak, TruncateRecipe, SetupTypeOK, AllSteps, InRecipes, keyVars
  <1>15. CASE WriteRecipe(p) \/ RemoveOrphan(p)
    <2>1. recipe' \in [RecipeFiles -> Texts]
      BY <1>1, <1>15 DEF WriteRecipe, RemoveOrphan
    <2>2. \E m \in Memory : mem' = [mem EXCEPT ![p] = [m EXCEPT !.todo = @ \ {f}, !.have = None]] \/ mem' = [mem EXCEPT ![p] = m]
      <3>1. [mem[p] EXCEPT !.next[f] = release] \in Memory
        BY <1>1, MemoryEdits
      <3>2. \/ mem' = [mem EXCEPT ![p] = [[mem[p] EXCEPT !.next[f] = release] EXCEPT !.todo = @ \ {f}, !.have = None]]
            \/ mem' = [mem EXCEPT ![p] = [mem[p] EXCEPT !.todo = @ \ {f}, !.have = None]]
            \/ mem' = [mem EXCEPT ![p] = NoMem]
        BY <1>15 DEF WriteRecipe, RemoveOrphan, NextFile, Record, f
      <3> QED
        BY <1>1, <1>2, <3>1, <3>2
    <2>3. mem' \in [Procs -> Memory]
      <3>1. PICK m \in Memory : mem' = [mem EXCEPT ![p] = [m EXCEPT !.todo = @ \ {f}, !.have = None]] \/ mem' = [mem EXCEPT ![p] = m]
        BY <2>2
      <3>2. [m EXCEPT !.todo = @ \ {f}, !.have = None] \in Memory
        BY <1>1, MemoryEdits
      <3> QED
        BY <1>1, <3>1, <3>2
    <2> QED
      BY <1>1, <1>15, <2>1, <2>3 DEF WriteRecipe, RemoveOrphan, SetupTypeOK, AllSteps, InRecipes, keyVars
  <1>16. CASE TruncateManifest(p) \/ WriteManifest(p)
    <2>1. mem' = mem \/ mem' = [mem EXCEPT ![p] = NoMem]
      BY <1>16 DEF TruncateManifest, WriteManifest
    <2>2. manifest' \in [there : BOOLEAN, sums : Sums]
      <3>1. \E n \in Sums : manifest' = [there |-> TRUE, sums |-> n]
        BY <1>1, <1>2, <1>16 DEF TruncateManifest, WriteManifest
      <3> QED
        BY <3>1
    <2>3. mem' \in [Procs -> Memory]
      BY <1>2, <1>3, <2>1
    <2> QED
      BY <1>1, <1>16, <2>2, <2>3 DEF TruncateManifest, WriteManifest, SetupTypeOK, AllSteps, InRecipes, InKeys, keyVars
  <1>17. CASE StatPrivate(p) \/ LockKeys(p)
    BY <1>1, <1>17 DEF StatPrivate, LockKeys, SetupTypeOK, AllSteps, InKeys, recipeVars, keyVars
  <1>18. CASE StatPublic(p)
    BY <1>1, <1>4, <1>18 DEF StatPublic, SetupTypeOK, AllSteps, InKeys, recipeVars
  <1>19. CASE CheckAndClear(p)
    BY <1>1, <1>4, <1>19 DEF CheckAndClear, SetupTypeOK, AllSteps, InKeys, recipeVars
  <1>20. CASE KeygenPrivate(p) \/ KeygenPublic(p)
    BY <1>1, <1>20 DEF KeygenPrivate, KeygenPublic, SetupTypeOK, AllSteps, InKeys, recipeVars
  <1>21. CASE KeygenEnds(p)
    BY <1>1, <1>4, <1>21 DEF KeygenEnds, SetupTypeOK, AllSteps, recipeVars
  <1>22. CASE CutShort(p)
    <2>1. mem' \in [Procs -> Memory]
      BY <1>2, <1>3, <1>22 DEF CutShort
    <2> QED
      BY <1>1, <1>22, <2>1 DEF CutShort, SetupTypeOK, AllSteps
  <1> QED
    BY <1>10, <1>11, <1>12, <1>13, <1>14, <1>15, <1>16, <1>17, <1>18, <1>19, <1>20, <1>21, <1>22 DEF SetupStep

-----------------------------------------------------------------------------
(* The key pair *)

\* One Ensure at a time is past the flock, the private half is there whenever
\* the public one is, and an Ensure clears the pair only before anybody has
\* gone on with it.
KeyInv ==
    /\ \A p \in Procs : at[p] \in {"check", "keygen", "keygen_pub", "keygen_end"} => keyLock = p
    /\ pub # None => priv # None
    /\ \A p \in Procs : /\ at[p] = "keygen" => priv = None /\ pub = None
                        /\ at[p] = "keygen_pub" => priv # None /\ pub = None
                        /\ at[p] = "keygen_end" => pub # None
    /\ KeyStable

LEMMA KeyInvInit == SetupInit => KeyInv
  BY DEF SetupInit, KeyInv, KeyStable

\* No step of a process takes the pair from under another.
LEMMA KeyStep ==
    ASSUME SetupTypeOK, KeyInv, NEW p \in Procs, SetupStep(p) \/ CommandEnds(p)
    PROVE  KeyInv'
  <1> USE DEF Goto
  <1>1. /\ at \in [Procs -> AllSteps] /\ keygens \in Nat /\ None = 0 /\ keyLock \in Procs \cup {NoProc}
        /\ NoProc \notin Procs
    BY SetupAssumption DEF SetupTypeOK, AllSteps, None
  <1> DEFINE Held == {"check", "keygen", "keygen_pub", "keygen_end"}
  <1>2. \A q \in Procs \ {p} : at[p] \in Held => at[q] \notin Held
    BY <1>1 DEF KeyInv
  \* Whatever else a step does, it does not enter the flock ...
  <1>3. ASSUME priv' = priv, pub' = pub, trusted' = trusted, keyLock' \in {keyLock, NoProc},
               keyLock' # keyLock => keyLock = p,
               NEW s, at' = [at EXCEPT ![p] = s], s \notin Held
        PROVE  KeyInv'
    <2>1. \A q \in Procs \ {p} : at'[q] = at[q] /\ (at[q] \in Held => keyLock' = q)
      BY <1>1, <1>3 DEF KeyInv
    <2>2. at'[p] \notin Held
      BY <1>1, <1>3
    <2> QED
      BY <1>3, <2>1, <2>2 DEF KeyInv, KeyStable
  <1>4. CASE at[p] \notin InKeys /\ ~CutShort(p)
    <2>1. UNCHANGED keyVars
      BY <1>4 DEF SetupStep, CommandEnds, Command, SweepLists, SweepMoves, ReadManifest, ReadRecipe, TruncateBak,
         WriteBak, TruncateRecipe, WriteRecipe, RemoveOrphan, TruncateManifest, WriteManifest,
         StatPrivate, StatPublic, LockKeys, CheckAndClear, KeygenPrivate, KeygenPublic, KeygenEnds, InKeys
    <2>2. \E s : at' = [at EXCEPT ![p] = s] /\ s \notin Held
      <3>1. Decides(p, recipe[File(p)]) \in {"current", "leave", "trunc", "bak_trunc"}
        BY DEF Decides, InstallDecides, RefreshDecides, OrphanDecides
      <3>2. at = [at EXCEPT ![p] = at[p]] /\ at[p] \notin Held
        BY <1>1, <1>4 DEF InKeys
      <3>3. CASE ReadRecipe(p)
        BY <3>1, <3>2, <3>3 DEF ReadRecipe
      <3> QED
        BY <1>4, <3>3 DEF SetupStep, CommandEnds, Command, SweepLists, SweepMoves, ReadManifest, TruncateBak,
         WriteBak, TruncateRecipe, WriteRecipe, RemoveOrphan, TruncateManifest, WriteManifest,
         StatPrivate, StatPublic, LockKeys, CheckAndClear, KeygenPrivate, KeygenPublic, KeygenEnds, InKeys
    <2>3. PICK s : at' = [at EXCEPT ![p] = s] /\ s \notin Held
      BY <2>2
    <2> QED
      BY <1>3, <2>1, <2>3 DEF keyVars
  <1>5. CASE CutShort(p)
    <2>1. /\ at' = [at EXCEPT ![p] = "idle"] /\ priv' = priv /\ pub' = pub /\ trusted' = trusted
          /\ keyLock' \in {keyLock, NoProc} /\ (keyLock' # keyLock => keyLock = p)
      BY <1>5 DEF CutShort
    <2> QED
      BY <1>1, <1>3, <2>1
  <1>6. CASE StatPrivate(p)
    <2>1. PICK s \in {"flock", "stat_pub"} : at' = [at EXCEPT ![p] = s] /\ UNCHANGED keyVars
      BY <1>6 DEF StatPrivate
    <2> QED
      BY <1>3, <2>1 DEF keyVars
  <1>7. CASE StatPublic(p)
    <2>1. CASE pub = None
      BY <1>3, <1>7, <2>1 DEF StatPublic
    <2>2. CASE pub # None
      BY <1>1, <1>2, <1>7, <2>2 DEF StatPublic, Ensured, KeyInv, KeyStable
    <2> QED
      BY <2>1, <2>2
  <1>8. CASE LockKeys(p)
    BY <1>1, <1>8 DEF LockKeys, KeyInv, KeyStable
  <1>9. CASE CheckAndClear(p)
    BY <1>1, <1>2, <1>9 DEF CheckAndClear, Ensured, KeyInv, KeyStable
  <1>10. CASE KeygenPrivate(p) \/ KeygenPublic(p)
    BY <1>1, <1>2, <1>10 DEF KeygenPrivate, KeygenPublic, KeyInv, KeyStable
  <1>11. CASE KeygenEnds(p)
    <2>1. priv # None
      BY <1>11 DEF KeygenEnds, KeyInv
    <2> QED
      BY <1>1, <1>2, <1>11, <2>1 DEF KeygenEnds, Ensured, KeyInv, KeyStable
  <1> QED
    BY <1>4, <1>5, <1>6, <1>7, <1>8, <1>9, <1>10, <1>11 DEF SetupStep, CommandEnds, Command, SweepLists, SweepMoves,
       ReadManifest, ReadRecipe, TruncateBak, WriteBak, TruncateRecipe, WriteRecipe, RemoveOrphan,
       TruncateManifest, WriteManifest, InKeys

\* The types hold when the first command starts.
LEMMA TypeInit == SetupInit => SetupTypeOK
  <1> SUFFICES ASSUME SetupInit PROVE SetupTypeOK
    OBVIOUS
  <1>1. release \in Releases
    <2>1. 1 \in DOMAIN Ships
      BY ShipsAssumption
    <2> QED
      BY <2>1 DEF SetupInit, Releases
  <1>2. 1 \in Releases /\ None \in Texts /\ 1 \in Texts /\ Users \in Texts /\ NoSums \in [RecipeFiles -> Texts]
    BY TextFacts, <1>1 DEF NoSums
  <1>3. recipe \in [RecipeFiles -> Texts]
    BY <1>2 DEF SetupInit
  <1>4. manifest \in [there : BOOLEAN, sums : Sums] /\ mem \in [Procs -> Memory]
    BY MemoryFacts DEF SetupInit
  <1>5. 0 \in 0 .. MaxCuts /\ None \in 0 .. 1
    BY SetupAssumption DEF None
  <1>6. {priv, pub, trusted} \subseteq 0 .. keygens + 1 /\ keygens \in Nat
    BY <1>5 DEF SetupInit
  <1>7. /\ flat \in BOOLEAN /\ attic \in BOOLEAN
        /\ edited \subseteq RecipeFiles /\ spoiled \subseteq RecipeFiles
        /\ at \in [Procs -> InRecipes \cup InKeys \cup {"idle", "ready"}]
        /\ asks \in [Procs -> {"command", "refresh"}] /\ keyLock \in Procs \cup {NoProc}
    BY DEF SetupInit
  <1>8. bak \in [RecipeFiles -> Texts] /\ cuts \in 0 .. MaxCuts
    BY <1>2, <1>5 DEF SetupInit
  <1> QED
    BY <1>1, <1>3, <1>4, <1>6, <1>7, <1>8 DEF SetupTypeOK

\* The user's edits and upgrades touch no key.
LEMMA SetupKeys ==
    /\ CommandInit => SetupTypeOK /\ KeyInv
    /\ SetupTypeOK /\ KeyInv /\ [CommandNext]_<<vars, setupVars>> => (SetupTypeOK /\ KeyInv)'
  <1>1. CommandInit => SetupTypeOK /\ KeyInv
    BY TypeInit, KeyInvInit DEF CommandInit
  <1> SUFFICES ASSUME SetupTypeOK, KeyInv, [CommandNext]_<<vars, setupVars>>
               PROVE  SetupTypeOK' /\ KeyInv'
    BY <1>1
  <1>2. ASSUME NEW p \in Procs, SetupStep(p) \/ CommandEnds(p) PROVE SetupTypeOK' /\ KeyInv'
    BY <1>2, TypeStep, KeyStep
  <1>3. CASE Upgrade
    BY <1>3 DEF Upgrade, SetupTypeOK, recipeVars, keyVars, KeyInv, KeyStable
  <1>4. CASE \E f \in RecipeFiles : UserEdits(f)
    BY <1>4, TextFacts DEF UserEdits, SetupTypeOK, keyVars, KeyInv, KeyStable
  <1>5. CASE UNCHANGED setupVars
    BY <1>5 DEF setupVars, SetupTypeOK, recipeVars, keyVars, KeyInv, KeyStable
  <1> QED
    BY <1>2, <1>3, <1>4, <1>5 DEF CommandNext

\* The types of what setup keeps.
THEOREM SetupTypes == CommandSpec => []SetupTypeOK
  BY SetupKeys, PTL DEF CommandSpec

\* KeyStable: whatever number of commands make the key pair at once, are killed
\* in the middle of it and come again, the pair a command has gone on with is
\* the pair for good.
THEOREM KeyStays == CommandSpec => []KeyStable
  <1>1. KeyInv => KeyStable
    BY DEF KeyInv
  <1> QED
    BY <1>1, SetupKeys, PTL DEF CommandSpec

-----------------------------------------------------------------------------
(* The recipe files: the inductive invariant *)

Walks == {"file", "bak_trunc", "bak_write", "trunc", "write", "remove", "man_trunc", "man_write"}
OnFile == {"bak_trunc", "bak_write", "trunc", "write", "remove"}
Walking(p) == at[p] \in Walks

\* The files of the release whose history is not blurred.
Sure == Ships[release] \ spoiled

\* What a release drops no later one brings back.
NeverReturns ==
    \A r, s, t \in Releases : r < s /\ s < t => Ships[r] \cap Ships[t] \subseteq Ships[s]

\* Where files come from.
OriginInv ==
    /\ \A f \in RecipeFiles : recipe[f] # None \/ f \in edited => \E r \in 1 .. release : f \in Ships[r]
    /\ \A f \in edited \cap Ships[release] : recipe[f] # None

\* One stoat runs at a time, so a refresh is alone whoever starts it.
OneAtATime == \A p, q \in Procs : p = q
RefreshesAlone == RefreshAlone \/ OneAtATime

\* Refresh follows an Install of the same command and is alone.
RefreshInv ==
    \A p \in Procs :
      /\ asks[p] = "refresh" /\ at[p] \notin {"idle", "ready"} => OthersIdle(p)
      /\ mem[p].refreshing => asks[p] = "refresh" /\ at[p] \in Walks \cup {"manifest"}
      /\ at[p] \in Walks /\ mem[p].refreshing => mem[p].man.there
      /\ asks[p] = "refresh" /\ (at[p] \in InKeys \/ mem[p].refreshing) =>
           /\ manifest.there
           /\ \A f \in Sure : \/ recipe[f] \in {release, Users}
                              \/ recipe[f] = Torn /\ at[p] = "write" /\ File(p) = f

\* What a walk knows of the file it is at.
FileInv(p) ==
    LET f == File(p)  have == mem[p].have IN
    at[p] \in OnFile =>
      /\ f \in mem[p].todo
      /\ f \notin Ships[release] => at[p] \in {"bak_trunc", "bak_write", "remove"}
      /\ at[p] = "remove" => f \notin Ships[release]
      /\ f \notin Ships[release] => recipe[f] = have /\ have # None
      /\ f \in Sure =>
           /\ have # Torn /\ recipe[f] \in {have, release, Torn}
           /\ have = Users => mem[p].refreshing \/ ~mem[p].man.there
           /\ f \in edited =>
                IF at[p] \in {"bak_trunc", "bak_write"} THEN have = Users
                ELSE bak[f] = Users \/ BackingUp(f)

\* What a walk knows of the files it has been at and of those ahead.
WalkInv(p) ==
    Walking(p) =>
      /\ mem[p].todo \subseteq IF mem[p].refreshing THEN RecipeFiles ELSE Ships[release]
      /\ mem[p].man.there \/ at[p] = "man_write" => manifest.there
      /\ at[p] \in {"man_trunc", "man_write"} => mem[p].todo = {}
      /\ \A f \in Sure \cap mem[p].todo :
           mem[p].man.there /\ recipe[f] \in Releases \ {release} => mem[p].man.sums[f] = recipe[f]
      /\ \A f \in Sure \ mem[p].todo :
           \/ mem[p].next[f] = release /\ recipe[f] \in {release, Torn}
           \/ ~mem[p].refreshing /\ mem[p].man.there /\ recipe[f] = Users
      /\ manifest.there /\ ~mem[p].man.there => \A f \in Sure : recipe[f] \in {release, Torn}

\* A file half written is being written.
TornInv == \A f \in RecipeFiles \ spoiled : recipe[f] = Torn => \E p \in Procs : at[p] = "write" /\ File(p) = f

\* The manifest knows the texts of older releases at all times, and this one's
\* when no walk is under way.
ManifestInv ==
    manifest.there =>
      \A f \in Sure : recipe[f] \in Releases /\ (recipe[f] # release \/ \A p \in Procs : ~Walking(p))
                        => manifest.sums[f] = recipe[f]

\* Before there is a manifest an edit is in place, or is being adopted.
AdoptInv ==
    ~manifest.there => \A f \in edited \ spoiled :
      \/ recipe[f] = Users
      \/ f \in Ships[release] /\ recipe[f] \in {release, Torn} /\ \E p \in Procs : Walking(p)

RecipesInv ==
    /\ OriginInv /\ RefreshInv /\ TornInv /\ ManifestInv /\ AdoptInv /\ EditKept
    /\ \A p \in Procs : FileInv(p) /\ WalkInv(p)


-----------------------------------------------------------------------------
(* The recipe files: steps *)

\* What the types say of the files and of a process's memory.
LEMMA RecipeTypes ==
    ASSUME SetupTypeOK
    PROVE  /\ release \in Releases /\ Ships[release] \subseteq RecipeFiles
           /\ recipe \in [RecipeFiles -> Texts] /\ bak \in [RecipeFiles -> Texts]
           /\ \A f \in RecipeFiles : recipe[f] \in Releases \cup {None, Torn, Users}
           /\ at \in [Procs -> AllSteps] /\ asks \in [Procs -> {"command", "refresh"}]
           /\ mem \in [Procs -> Memory]
           /\ \A p \in Procs : mem[p] \in Memory
           /\ \A p \in Procs : \A f \in RecipeFiles : mem[p].man.sums[f] \in Releases \cup {None}
           /\ Sure \subseteq RecipeFiles /\ Sure \subseteq Ships[release]
           /\ edited \subseteq RecipeFiles
  <1>1. /\ release \in Releases /\ recipe \in [RecipeFiles -> Texts] /\ bak \in [RecipeFiles -> Texts]
        /\ at \in [Procs -> AllSteps] /\ asks \in [Procs -> {"command", "refresh"}]
        /\ mem \in [Procs -> Memory] /\ edited \subseteq RecipeFiles
    BY DEF SetupTypeOK, AllSteps
  <1>2. Ships[release] \subseteq RecipeFiles
    BY <1>1, TextFacts
  <1>3. \A v \in Texts : v \in Releases \cup {None, Torn, Users}
    <2>1. Len(Ships) \in Nat /\ Releases = 1 .. Len(Ships)
      BY ShipsAssumption DEF Releases
    <2> QED
      BY <2>1 DEF Texts, None, Torn, Users
  <1>4. \A p \in Procs : \A f \in RecipeFiles : mem[p].man.sums[f] \in Releases \cup {None}
    BY <1>1 DEF Memory, Sums
  <1> QED
    BY <1>1, <1>2, <1>3, <1>4 DEF Sure

\* A process is at the same file as long as its memory is the same.
LEMMA SameFile ==
    ASSUME release' = release, NEW q \in Procs, mem'[q].todo = mem[q].todo
    PROVE  File(q)' = File(q)
  BY DEF File, Round

\* A refresh that goes through the files, or is between its Install and them,
\* has the data root to itself.
LEMMA RefreshIsAlone ==
    ASSUME RefreshInv, NEW p \in Procs, NEW q \in Procs, p # q,
           at[p] \notin {"idle", "ready"}, at[q] \notin {"idle", "ready"}
    PROVE  asks[q] # "refresh" /\ ~mem[q].refreshing
  BY DEF RefreshInv, OthersIdle

\* Steps before and after the walk leave all of it alone.
LEMMA QuietStep ==
    ASSUME SetupTypeOK, RecipesInv, NEW p \in Procs, NEW s, NEW m,
           at' = [at EXCEPT ![p] = s], mem' = [mem EXCEPT ![p] = m], s \notin Walks, at[p] \notin Walks,
           UNCHANGED <<release, recipe, bak, edited, manifest, spoiled>>, RefreshInv'
    PROVE  RecipesInv'
  <1>1. \A q \in Procs \ {p} : at'[q] = at[q] /\ mem'[q] = mem[q] /\ File(q)' = File(q)
    BY SameFile, RecipeTypes
  <1>2. \A q \in Procs : Walking(q)' <=> Walking(q)
    BY <1>1, RecipeTypes DEF Walking
  <1>3. \A f : BackingUp(f)' <=> BackingUp(f)
    BY <1>1, RecipeTypes DEF BackingUp, Walks
  <1>4. Sure' = Sure
    BY DEF Sure
  <1>5. \A q \in Procs : FileInv(q)' /\ WalkInv(q)'
    <2> SUFFICES ASSUME NEW q \in Procs PROVE FileInv(q)' /\ WalkInv(q)'
      OBVIOUS
    <2>1. CASE q = p
      BY <1>2, <2>1, RecipeTypes DEF FileInv, WalkInv, Walking, OnFile, Walks
    <2>2. CASE q # p
      BY <1>1, <1>2, <1>3, <1>4, <2>2 DEF RecipesInv, FileInv, WalkInv
    <2> QED
      BY <2>1, <2>2
  <1>6. OriginInv' /\ ManifestInv'
    BY <1>2, <1>4 DEF RecipesInv, OriginInv, ManifestInv
  <1>7. TornInv'
    BY <1>1 DEF RecipesInv, TornInv, Walks
  <1>8. AdoptInv' /\ EditKept'
    BY <1>2, <1>3 DEF RecipesInv, AdoptInv, EditKept
  <1> QED
    BY <1>5, <1>6, <1>7, <1>8 DEF RecipesInv

\* The steps of Ensure, and the sweep, hand the refresh over to its walk.
LEMMA EnsureStep ==
    ASSUME SetupTypeOK, RecipesInv, NEW p \in Procs,
           \/ SweepLists(p) \/ SweepMoves(p) \/ StatPrivate(p) \/ StatPublic(p) \/ LockKeys(p)
           \/ CheckAndClear(p) \/ KeygenPrivate(p) \/ KeygenPublic(p) \/ KeygenEnds(p)
    PROVE  RecipesInv'
  <1> USE DEF Goto
  <1>1. /\ UNCHANGED <<release, recipe, bak, edited, manifest, spoiled, asks>>
        /\ at[p] \in InKeys \cup {"sweep", "move"}
    BY DEF SweepLists, SweepMoves, StatPrivate, StatPublic, LockKeys, CheckAndClear, KeygenPrivate,
           KeygenPublic, KeygenEnds, recipeVars, InKeys
  <1>2. /\ at \in [Procs -> AllSteps] /\ mem \in [Procs -> Memory] /\ mem[p] \in Memory
        /\ mem = [mem EXCEPT ![p] = mem[p]]
    BY RecipeTypes
  <1>3. \/ /\ \E s \in InKeys \cup {"move", "manifest", "idle"} :
                at' = [at EXCEPT ![p] = s] /\ (s \in InKeys => at[p] \in InKeys)
           /\ mem' = mem
        \/ Ensured(p) /\ at[p] \in InKeys
    BY <1>2 DEF SweepLists, SweepMoves, StatPrivate, StatPublic, LockKeys, CheckAndClear, KeygenPrivate,
           KeygenPublic, KeygenEnds, InKeys
  <1>4. RefreshInv /\ ~mem[p].refreshing
    BY <1>1 DEF RecipesInv, RefreshInv, InKeys, Walks
  <1>5. CASE \E s \in InKeys \cup {"move", "manifest", "idle"} :
                at' = [at EXCEPT ![p] = s] /\ (s \in InKeys => at[p] \in InKeys) /\ mem' = mem
    <2>1. PICK s \in InKeys \cup {"move", "manifest", "idle"} :
                at' = [at EXCEPT ![p] = s] /\ (s \in InKeys => at[p] \in InKeys) /\ mem' = mem
      BY <1>5
    <2>2. RefreshInv'
      <3>1. \A q \in Procs : File(q)' = File(q)
        BY <1>1, <2>1, SameFile
      <3>2. \A q \in Procs \ {p} : at'[q] = at[q]
        BY <1>2, <2>1
      <3>3. at'[p] = s /\ at[p] \notin {"idle", "ready"} /\ Sure' = Sure
        BY <1>1, <1>2, <2>1 DEF InKeys, Sure
      <3> QED
        BY <1>1, <1>4, <2>1, <3>1, <3>2, <3>3 DEF RefreshInv, OthersIdle, InKeys, Walks
    <2> QED
      BY <1>1, <1>2, <2>1, <2>2, QuietStep DEF InKeys, Walks
  <1>6. CASE Ensured(p) /\ at[p] \in InKeys
    <2>1. CASE asks[p] = "refresh"
      <3> DEFINE m == [mem[p] EXCEPT !.refreshing = TRUE]
      <3>1. at' = [at EXCEPT ![p] = "manifest"] /\ mem' = [mem EXCEPT ![p] = m]
        BY <1>2, <1>6, <2>1 DEF Ensured
      <3>2. m.todo = mem[p].todo
        BY <1>2 DEF Memory
      <3> HIDE DEF m
      <3>3. \A q \in Procs : File(q)' = File(q)
        BY <1>1, <1>2, <3>1, <3>2, SameFile
      <3>4. /\ \A q \in Procs \ {p} : at'[q] = at[q] /\ mem'[q] = mem[q]
            /\ at'[p] = "manifest" /\ at[p] \notin {"idle", "ready"} \cup Walks /\ Sure' = Sure
        BY <1>1, <1>2, <1>6, <3>1 DEF InKeys, Sure, Walks
      <3>5. RefreshInv'
        BY <1>1, <1>4, <1>6, <2>1, <3>3, <3>4 DEF RefreshInv, OthersIdle, InKeys, Walks
      <3> QED
        BY <1>1, <3>1, <3>4, <3>5, QuietStep DEF Walks
    <2>2. CASE asks[p] # "refresh"
      <3>1. at' = [at EXCEPT ![p] = "ready"] /\ mem' = mem
        BY <1>6, <2>2 DEF Ensured
      <3>2. \A q \in Procs : File(q)' = File(q)
        BY <1>1, <3>1, SameFile
      <3>3. /\ \A q \in Procs \ {p} : at'[q] = at[q]
            /\ at'[p] = "ready" /\ at[p] \notin {"idle", "ready"} \cup Walks /\ Sure' = Sure
        BY <1>1, <1>2, <1>6, <3>1 DEF InKeys, Sure, Walks
      <3>4. RefreshInv'
        BY <1>1, <1>4, <2>2, <3>1, <3>2, <3>3 DEF RefreshInv, OthersIdle, InKeys, Walks
      <3> QED
        BY <1>1, <1>2, <3>1, <3>3, <3>4, QuietStep DEF Walks
    <2> QED
      BY <2>1, <2>2
  <1> QED
    BY <1>3, <1>5, <1>6

\* A command begins only beside commands it may run beside.
LEMMA CommandStep ==
    ASSUME SetupTypeOK, RecipesInv, RefreshesAlone, NEW p \in Procs, Command(p) \/ CommandEnds(p)
    PROVE  RecipesInv'
  <1> USE DEF Goto
  <1>1. /\ UNCHANGED <<release, recipe, bak, edited, manifest, spoiled>> /\ mem' = mem
        /\ at[p] \in {"idle", "ready"}
    BY DEF Command, CommandEnds, recipeVars
  <1>2. /\ at \in [Procs -> AllSteps] /\ asks \in [Procs -> {"command", "refresh"}]
        /\ mem = [mem EXCEPT ![p] = mem[p]]
    BY RecipeTypes
  <1>3. PICK s \in {"idle", "sweep"} : at' = [at EXCEPT ![p] = s]
    BY DEF Command, CommandEnds
  <1>4. RefreshInv /\ ~mem[p].refreshing
    BY <1>1 DEF RecipesInv, RefreshInv, InKeys, Walks
  <1>5. /\ \A q \in Procs : File(q)' = File(q)
        /\ \A q \in Procs \ {p} : at'[q] = at[q] /\ asks'[q] = asks[q]
        /\ at'[p] = s /\ Sure' = Sure
    BY <1>1, <1>2, <1>3, SameFile DEF Sure, Command, CommandEnds
  <1>6. RefreshInv'
    <2>1. \A q \in Procs : asks'[q] = "refresh" /\ at'[q] \notin {"idle", "ready"} => OthersIdle(q)'
      <3>1. CASE Command(p)
        <4>1. PICK c \in {"command", "refresh"} :
                 /\ asks' = [asks EXCEPT ![p] = c]
                 /\ IF c = "refresh" THEN OthersIdle(p)
                    ELSE \A q \in Procs : at[q] = "idle" \/ asks[q] # "refresh"
          <5>1. CASE RefreshAlone
            BY <3>1, <5>1 DEF Command
          <5>2. CASE OneAtATime
            BY <3>1, <5>2 DEF Command, OneAtATime, OthersIdle
          <5> QED
            BY <5>1, <5>2 DEF RefreshesAlone
        <4> QED
          BY <1>1, <1>2, <1>4, <1>5, <4>1 DEF RefreshInv, OthersIdle
      <3>2. CASE CommandEnds(p)
        <4>1. s = "idle"
          BY <1>2, <1>3, <1>5, <3>2 DEF CommandEnds
        <4> QED
          BY <1>1, <1>2, <1>4, <1>5, <4>1 DEF RefreshInv, OthersIdle
      <3> QED
        BY <3>1, <3>2
    <2> QED
      BY <1>1, <1>4, <1>5, <2>1 DEF RefreshInv, InKeys, Walks
  <1> QED
    BY <1>1, <1>2, <1>3, <1>6, QuietStep DEF Walks

\* A walk begins with the manifest as it is, and with every file ahead.
LEMMA ReadManifestStep ==
    ASSUME SetupTypeOK, RecipesInv, NEW p \in Procs, ReadManifest(p)
    PROVE  RecipesInv'
  <1> USE DEF Goto
  <1>1. /\ UNCHANGED <<release, recipe, bak, edited, manifest, spoiled, asks>>
        /\ at[p] = "manifest" /\ at' = [at EXCEPT ![p] = "file"]
    BY DEF ReadManifest, recipeVars
  <1>2. /\ at \in [Procs -> AllSteps] /\ mem \in [Procs -> Memory] /\ mem[p] \in Memory
        /\ Sure \subseteq Ships[release] /\ Ships[release] \subseteq RecipeFiles /\ Sure' = Sure
    BY <1>1, RecipeTypes DEF Sure
  <1>3. /\ mem'[p].man = manifest /\ mem'[p].refreshing = mem[p].refreshing
        /\ mem'[p].todo = IF mem[p].refreshing THEN RecipeFiles ELSE Ships[release]
        /\ \A q \in Procs \ {p} : mem'[q] = mem[q]
    BY <1>2 DEF ReadManifest, Memory
  <1>4. /\ at'[p] = "file" /\ \A q \in Procs \ {p} : at'[q] = at[q] /\ File(q)' = File(q)
    BY <1>1, <1>2, <1>3, SameFile
  <1>5. /\ OriginInv /\ RefreshInv /\ TornInv /\ ManifestInv /\ AdoptInv /\ EditKept
        /\ \A q \in Procs : FileInv(q) /\ WalkInv(q)
    BY DEF RecipesInv
  <1>6. \A f : BackingUp(f) => BackingUp(f)'
    BY <1>1, <1>3, <1>4 DEF BackingUp
  <1>7. RefreshInv'
    BY <1>1, <1>2, <1>3, <1>4, <1>5 DEF RefreshInv, OthersIdle, InKeys, Walks
  <1>8. \A q \in Procs : FileInv(q)' /\ WalkInv(q)'
    <2>1. FileInv(p)' /\ WalkInv(p)'
      BY <1>1, <1>2, <1>3, <1>4, <1>5 DEF FileInv, WalkInv, Walking, OnFile, Walks, ManifestInv
    <2>2. ASSUME NEW q \in Procs \ {p} PROVE FileInv(q)' /\ WalkInv(q)'
      BY <1>1, <1>2, <1>3, <1>4, <1>5, <1>6, <2>2 DEF FileInv, WalkInv, Walking
    <2> QED
      BY <2>1, <2>2
  <1>9. OriginInv' /\ EditKept'
    BY <1>1, <1>5, <1>6 DEF OriginInv, EditKept
  <1>10. TornInv'
    BY <1>1, <1>4, <1>5 DEF TornInv
  <1>11. ManifestInv' /\ AdoptInv'
    <2>1. \A q \in Procs : Walking(q) => Walking(q)'
      BY <1>4 DEF Walking, Walks
    <2>2. Walking(p)'
      BY <1>4 DEF Walking, Walks
    <2> QED
      BY <1>1, <1>2, <1>5, <2>1, <2>2 DEF ManifestInv, AdoptInv
  <1> QED
    BY <1>7, <1>8, <1>9, <1>10, <1>11 DEF RecipesInv

\* What p decides for the file it reads, and why.
LEMMA DecisionFacts ==
    ASSUME SetupTypeOK, RecipesInv, NEW p \in Procs, at[p] = "file", mem[p].todo # {}
    PROVE  LET f == File(p)  have == recipe[f]  do == Decides(p, have) IN
           /\ f \in mem[p].todo /\ f \in RecipeFiles
           /\ do \in {"current", "leave", "trunc", "bak_trunc"}
           /\ do = "current" => have = release /\ f \in Ships[release]
           /\ do = "leave" /\ f \in Sure =>
                have = Torn \/ (~mem[p].refreshing /\ mem[p].man.there /\ have = Users)
           /\ do \in {"trunc", "bak_trunc"} /\ f \notin Ships[release] => do = "bak_trunc" /\ have # None
           /\ do = "trunc" /\ have = Users => mem[p].refreshing \/ ~mem[p].man.there
           /\ do = "bak_trunc" /\ f \in Ships[release] => mem[p].refreshing \/ ~mem[p].man.there
           /\ do = "bak_trunc" /\ f \in Sure \cap edited => have \in {Users, Torn}
           /\ do = "trunc" /\ f \in Sure \cap edited => have = Torn \/ bak[f] = Users \/ BackingUp(f)
  <1> DEFINE f == File(p)
             have == recipe[f]
             do == Decides(p, have)
  <1>1. /\ mem[p] \in Memory /\ recipe[f] \in Releases \cup {None, Torn, Users}
        /\ mem[p].man.sums[f] \in Releases \cup {None}
        /\ f \in mem[p].todo /\ f \in RecipeFiles /\ release \in Releases
        /\ Sure \subseteq Ships[release]
    <2>1. mem[p].todo \subseteq RecipeFiles
      BY RecipeTypes DEF Memory
    <2>2. f \in mem[p].todo /\ f \in RecipeFiles
      BY <2>1, FileAhead
    <2> QED
      BY <2>2, RecipeTypes
  <1>2. /\ Walking(p) /\ at[p] # "write" /\ WalkInv(p)
        /\ OriginInv /\ RefreshInv /\ AdoptInv /\ EditKept
    BY DEF RecipesInv, Walking, Walks
  <1>3. do = IF f \notin Ships[release] THEN OrphanDecides(p, have)
             ELSE IF mem[p].refreshing THEN RefreshDecides(p, have)
             ELSE InstallDecides(p, have)
    BY DEF Decides
  <1>4. OrphanDecides(p, have) = IF have = None \/ mem[p].next[f] # None THEN "leave" ELSE "bak_trunc"
    BY DEF OrphanDecides
  <1>5. RefreshDecides(p, have) = IF have = None THEN "trunc" ELSE IF have = release THEN "current" ELSE "bak_trunc"
    BY DEF RefreshDecides
  <1>6. InstallDecides(p, have) =
          IF have = None THEN "trunc"
          ELSE IF have = release THEN "current"
          ELSE IF ~mem[p].man.there THEN "bak_trunc"
          ELSE IF mem[p].man.sums[f] # have THEN "leave" ELSE "trunc"
    BY DEF InstallDecides
  <1>7. f \in Sure => (mem[p].man.there /\ have \in Releases \ {release} => mem[p].man.sums[f] = have)
    BY <1>1, <1>2 DEF WalkInv
  <1> HIDE DEF do
  <1>8. do \in {"current", "leave", "trunc", "bak_trunc"}
    BY <1>3, <1>4, <1>5, <1>6
  <1>9. do = "current" => have = release /\ f \in Ships[release]
    BY <1>3, <1>4, <1>5, <1>6
  <1>10. do = "leave" /\ f \in Sure => have = Torn \/ (~mem[p].refreshing /\ mem[p].man.there /\ have = Users)
    <2> SUFFICES ASSUME do = "leave", f \in Sure
                 PROVE  have = Torn \/ (~mem[p].refreshing /\ mem[p].man.there /\ have = Users)
      OBVIOUS
    <2>1. ~mem[p].refreshing
      BY <1>1, <1>3, <1>5
    <2>2. have \notin {None, release} /\ mem[p].man.there /\ mem[p].man.sums[f] # have
      BY <1>1, <1>3, <1>6, <2>1
    <2>3. have \notin Releases
      BY <1>7, <2>2
    <2> QED
      BY <1>1, <2>1, <2>2, <2>3
  <1>11. do \in {"trunc", "bak_trunc"} /\ f \notin Ships[release] => do = "bak_trunc" /\ have # None
    BY <1>3, <1>4
  <1>12. do = "trunc" /\ have = Users => mem[p].refreshing \/ ~mem[p].man.there
    BY <1>1, <1>3, <1>4, <1>5, <1>6, TextFacts
  <1>13. do = "bak_trunc" /\ f \in Ships[release] => mem[p].refreshing \/ ~mem[p].man.there
    BY <1>3, <1>6
  <1>14. do = "bak_trunc" /\ f \in Sure \cap edited => have \in {Users, Torn}
    <2> SUFFICES ASSUME do = "bak_trunc", f \in Sure \cap edited PROVE have \in {Users, Torn}
      OBVIOUS
    <2>1. have \notin {None, release}
      BY <1>1, <1>3, <1>5, <1>6
    <2>2. CASE mem[p].refreshing
      BY <1>2, <2>1, <2>2 DEF RefreshInv
    <2>3. CASE ~mem[p].refreshing /\ manifest.there
      BY <1>1, <1>2, <1>13, <2>1, <2>3 DEF WalkInv
    <2>4. CASE ~manifest.there
      BY <1>1, <1>2, <2>1, <2>4 DEF AdoptInv, Sure
    <2> QED
      BY <2>2, <2>3, <2>4
  <1>15. do = "trunc" /\ f \in Sure \cap edited => have = Torn \/ bak[f] = Users \/ BackingUp(f)
    <2> SUFFICES ASSUME do = "trunc", f \in Sure \cap edited PROVE bak[f] = Users \/ BackingUp(f)
      OBVIOUS
    <2>1. have # None
      BY <1>1, <1>2 DEF OriginInv
    <2>2. have # Users
      BY <1>1, <1>3, <1>4, <1>5, <1>6, <2>1, TextFacts
    <2> QED
      BY <1>1, <1>2, <2>2 DEF EditKept, Sure
  <1> HIDE DEF have, f
  <1> QED
    BY <1>1, <1>8, <1>9, <1>10, <1>11, <1>12, <1>13, <1>14, <1>15 DEF have, f, do

\* Reading a file changes nothing for the others.
LEMMA ReadOnlyStep ==
    ASSUME SetupTypeOK, RecipesInv, NEW p \in Procs, NEW s \in Walks, NEW m \in Memory,
           at[p] = "file", at' = [at EXCEPT ![p] = s], mem' = [mem EXCEPT ![p] = m],
           m.refreshing = mem[p].refreshing, m.man = mem[p].man,
           UNCHANGED <<release, recipe, bak, edited, manifest, asks>>, spoiled \subseteq spoiled',
           FileInv(p)', WalkInv(p)'
    PROVE  RecipesInv'
  <1>1. /\ at \in [Procs -> AllSteps] /\ mem \in [Procs -> Memory] /\ Sure' \subseteq Sure
    BY RecipeTypes DEF Sure
  <1>2. /\ at'[p] = s /\ mem'[p] = m
        /\ \A q \in Procs \ {p} : at'[q] = at[q] /\ mem'[q] = mem[q] /\ File(q)' = File(q)
    BY <1>1, SameFile
  <1>3. /\ OriginInv /\ RefreshInv /\ TornInv /\ ManifestInv /\ AdoptInv /\ EditKept
        /\ \A q \in Procs : FileInv(q) /\ WalkInv(q)
    BY DEF RecipesInv
  <1>4. \A f : BackingUp(f) => BackingUp(f)'
    BY <1>2 DEF BackingUp
  <1>5. Walking(p) /\ Walking(p)' /\ \A q \in Procs : Walking(q)' <=> Walking(q)
    BY <1>2 DEF Walking, Walks
  <1>6. ASSUME NEW q \in Procs \ {p} PROVE FileInv(q)' /\ WalkInv(q)'
    <2>1. FileInv(q)'
      BY <1>1, <1>2, <1>3, <1>4 DEF FileInv
    <2>2. WalkInv(q)'
      BY <1>1, <1>2, <1>3, <1>5 DEF WalkInv
    <2> QED
      BY <2>1, <2>2
  <1>7. RefreshInv'
    BY <1>1, <1>2, <1>3 DEF RefreshInv, OthersIdle, InKeys, Walks
  <1>8. OriginInv' /\ EditKept'
    BY <1>1, <1>3, <1>4 DEF OriginInv, EditKept, Sure
  <1>9. TornInv'
    BY <1>2, <1>3 DEF TornInv
  <1>10. ManifestInv' /\ AdoptInv'
    BY <1>1, <1>3, <1>5 DEF ManifestInv, AdoptInv
  <1> QED
    BY <1>3, <1>6, <1>7, <1>8, <1>9, <1>10 DEF RecipesInv

\* installFile, refreshFile and refreshOrphans read a file and decide.
LEMMA ReadRecipeStep ==
    ASSUME SetupTypeOK, RecipesInv, NEW p \in Procs, ReadRecipe(p)
    PROVE  RecipesInv'
  <1> USE DEF Goto
  <1> DEFINE f == File(p)
             have == recipe[f]
             do == Decides(p, have)
  <1>1. /\ UNCHANGED <<release, recipe, bak, edited, manifest, asks>> /\ at[p] = "file"
        /\ at \in [Procs -> AllSteps] /\ mem \in [Procs -> Memory] /\ mem[p] \in Memory
        /\ Sure \subseteq Ships[release] /\ Ships[release] \subseteq RecipeFiles /\ release \in Releases
        /\ mem = [mem EXCEPT ![p] = mem[p]] /\ at = [at EXCEPT ![p] = "file"]
    BY RecipeTypes DEF ReadRecipe, keyVars
  <1>2. Walking(p) /\ WalkInv(p)
    BY <1>1 DEF RecipesInv, Walking, Walks
  <1>3. CASE mem[p].todo = {}
    <2>1. at' = [at EXCEPT ![p] = "man_trunc"] /\ mem' = mem /\ spoiled' = spoiled
      BY <1>3 DEF ReadRecipe
    <2>2. at'[p] = "man_trunc" /\ Sure' = Sure
      BY <1>1, <2>1 DEF Sure
    <2>3. FileInv(p)' /\ WalkInv(p)'
      BY <1>1, <1>2, <1>3, <2>1, <2>2 DEF FileInv, OnFile, WalkInv, Walking, Walks
    <2> QED
      BY <1>1, <2>1, <2>3, ReadOnlyStep DEF Walks
  <1>4. CASE mem[p].todo # {}
    <2> DEFINE seen(x) == [x EXCEPT !.todo = @ \ {f}, !.have = None]
    <2>1. /\ CASE do = "current" -> mem' = [mem EXCEPT ![p] = seen([mem[p] EXCEPT !.next[f] = release])] /\ at' = at
               [] do = "leave"   -> mem' = [mem EXCEPT ![p] = seen(mem[p])] /\ at' = at
               [] OTHER -> at' = [at EXCEPT ![p] = do] /\ mem' = [mem EXCEPT ![p] = [mem[p] EXCEPT !.have = have]]
          /\ spoiled' = IF have = Torn THEN spoiled \cup {f} ELSE spoiled
      BY <1>4 DEF ReadRecipe, NextFile, Record
    <2>2. /\ f \in mem[p].todo /\ f \in RecipeFiles
          /\ do \in {"current", "leave", "trunc", "bak_trunc"}
          /\ do = "current" => have = release /\ f \in Ships[release]
          /\ do = "leave" /\ f \in Sure =>
               have = Torn \/ (~mem[p].refreshing /\ mem[p].man.there /\ have = Users)
          /\ do \in {"trunc", "bak_trunc"} /\ f \notin Ships[release] => do = "bak_trunc" /\ have # None
          /\ do = "trunc" /\ have = Users => mem[p].refreshing \/ ~mem[p].man.there
          /\ do = "bak_trunc" /\ f \in Ships[release] => mem[p].refreshing \/ ~mem[p].man.there
          /\ do = "bak_trunc" /\ f \in Sure \cap edited => have \in {Users, Torn}
          /\ do = "trunc" /\ f \in Sure \cap edited => have = Torn \/ bak[f] = Users \/ BackingUp(f)
      BY <1>1, <1>4, DecisionFacts
    <2>3. /\ seen(mem[p]) \in Memory /\ seen([mem[p] EXCEPT !.next[f] = release]) \in Memory
          /\ [mem[p] EXCEPT !.have = have] \in Memory
      <3>1. have \in Texts /\ [mem[p] EXCEPT !.next[f] = release] \in Memory
        BY <1>1, <2>2, RecipeTypes, MemoryEdits
      <3> QED
        BY <1>1, <3>1, MemoryEdits
    <2>4. /\ spoiled \subseteq spoiled' /\ Sure' \subseteq Sure
          /\ have = Torn => f \notin Sure'
      BY <1>1, <2>1 DEF Sure
    <2> HIDE DEF do, have
    <2>5. CASE do \in {"current", "leave"}
      <3> DEFINE m == IF do = "current" THEN seen([mem[p] EXCEPT !.next[f] = release]) ELSE seen(mem[p])
      <3>1. m \in Memory /\ mem' = [mem EXCEPT ![p] = m] /\ at' = [at EXCEPT ![p] = "file"]
        BY <1>1, <2>1, <2>3, <2>5
      <3>2. /\ m.refreshing = mem[p].refreshing /\ m.man = mem[p].man /\ m.todo = mem[p].todo \ {f}
            /\ \A g \in RecipeFiles \ {f} : m.next[g] = mem[p].next[g]
            /\ do = "current" => m.next[f] = release
        BY <1>1, <2>2 DEF Memory, Sums
      <3> HIDE DEF m
      <3>3. mem'[p] = m /\ at'[p] = "file"
        BY <1>1, <3>1
      <3>4. FileInv(p)' /\ WalkInv(p)'
        <4>1. FileInv(p)'
          BY <3>3 DEF FileInv, OnFile
        <4>2. \A g \in Sure' \ m.todo :
                 \/ m.next[g] = release /\ recipe[g] \in {release, Torn}
                 \/ ~m.refreshing /\ m.man.there /\ recipe[g] = Users
          BY <1>1, <1>2, <2>2, <2>4, <2>5, <3>2 DEF WalkInv, have
        <4> QED
          BY <1>1, <1>2, <2>4, <3>2, <3>3, <4>1, <4>2 DEF WalkInv, Walking, Walks
      <3> QED
        BY <1>1, <2>4, <3>1, <3>2, <3>4, ReadOnlyStep DEF Walks
    <2>6. CASE do \in {"trunc", "bak_trunc"}
      <3> DEFINE m == [mem[p] EXCEPT !.have = have]
      <3>1. m \in Memory /\ mem' = [mem EXCEPT ![p] = m] /\ at' = [at EXCEPT ![p] = do]
        BY <2>1, <2>3, <2>6
      <3>2. /\ m.refreshing = mem[p].refreshing /\ m.man = mem[p].man /\ m.todo = mem[p].todo
            /\ m.next = mem[p].next /\ m.have = have
        BY <1>1 DEF Memory
      <3> HIDE DEF m
      <3>3. mem'[p] = m /\ at'[p] = do /\ File(p)' = f
        BY <1>1, <3>1, <3>2, SameFile
      <3>4. \A g : BackingUp(g) => BackingUp(g)'
        <4>1. \A q \in Procs \ {p} : at'[q] = at[q] /\ mem'[q] = mem[q] /\ File(q)' = File(q)
          BY <1>1, <3>1, SameFile
        <4> QED
          BY <1>1, <4>1 DEF BackingUp
      <3> HIDE DEF f
      <3>5. FileInv(p)'
        BY <1>1, <2>2, <2>4, <2>6, <3>2, <3>3, <3>4 DEF FileInv, have
      <3>6. WalkInv(p)'
        BY <1>1, <1>2, <2>4, <2>6, <3>2, <3>3 DEF WalkInv, Walking, Walks
      <3> QED
        BY <1>1, <2>4, <2>6, <3>1, <3>2, <3>5, <3>6, ReadOnlyStep DEF Walks
    <2> QED
      BY <2>2, <2>5, <2>6
  <1> QED
    BY <1>3, <1>4

\* What a process that writes knows of its file, and of the others' walks.
LEMMA WriterFacts ==
    ASSUME SetupTypeOK, RecipesInv, NEW p \in Procs, at[p] \in OnFile
    PROVE  /\ Walking(p) /\ FileInv(p) /\ WalkInv(p)
           /\ File(p) \in mem[p].todo /\ File(p) \in RecipeFiles
           /\ \A q \in Procs \ {p} : mem[q].refreshing => at[q] \notin OnFile /\ ~Walking(q)
           /\ mem[p].refreshing => \A q \in Procs \ {p} : ~Walking(q)
           /\ \A q \in Procs \ {p} : asks[q] = "refresh" => at[q] \notin InKeys /\ ~mem[q].refreshing
           \* The file of another walk that has left it to the user is not written.
           /\ \A q \in Procs : /\ Walking(q) /\ File(p) \in Sure \ mem[q].todo
                               /\ ~mem[q].refreshing /\ mem[q].man.there
                               => recipe[File(p)] # Users
  <1>1. Walking(p) /\ FileInv(p) /\ WalkInv(p) /\ at[p] \notin {"idle", "ready"} /\ RefreshInv
        /\ mem[p].todo \subseteq RecipeFiles
    BY RecipeTypes DEF RecipesInv, Walking, Walks, OnFile, Memory
  <1>2. File(p) \in mem[p].todo /\ File(p) \in RecipeFiles
    BY <1>1 DEF FileInv
  <1>3. \A q \in Procs : Walking(q) => at[q] \notin {"idle", "ready"}
    BY DEF Walking, Walks
  <1>4. \A q \in Procs \ {p} : mem[q].refreshing => at[q] \notin OnFile /\ ~Walking(q)
    BY <1>1, <1>3, RefreshIsAlone DEF Walking, Walks, OnFile
  <1>5. mem[p].refreshing => \A q \in Procs \ {p} : ~Walking(q)
    BY <1>1, <1>3, RefreshIsAlone
  <1>6. \A q \in Procs \ {p} : asks[q] = "refresh" => at[q] \notin InKeys /\ ~mem[q].refreshing
    <2>1. \A q \in Procs : mem[q].refreshing => at[q] \notin {"idle", "ready"}
      BY <1>1 DEF RefreshInv, Walks
    <2> QED
      BY <1>1, <2>1, RefreshIsAlone DEF InKeys
  <1>7. ASSUME NEW q \in Procs, Walking(q), File(p) \in Sure \ mem[q].todo, ~mem[q].refreshing, mem[q].man.there,
               recipe[File(p)] = Users
        PROVE  FALSE
    <2>1. q # p /\ ~mem[p].refreshing /\ manifest.there
      BY <1>1, <1>2, <1>5, <1>7 DEF RecipesInv, WalkInv
    <2>2. release \in Releases
      BY RecipeTypes
    <2>3. mem[p].have = Users
      BY <1>1, <1>7, <2>2, TextFacts DEF FileInv
    <2>4. ~mem[p].man.there
      BY <1>1, <1>7, <2>1, <2>3 DEF FileInv
    <2> QED
      BY <1>1, <1>7, <2>1, <2>2, <2>4, TextFacts DEF WalkInv
  <1> QED
    BY <1>1, <1>2, <1>4, <1>5, <1>6, <1>7

\* A copy is made before the file is written.
LEMMA BackupStep ==
    ASSUME SetupTypeOK, RecipesInv, NEW p \in Procs, TruncateBak(p) \/ WriteBak(p)
    PROVE  RecipesInv'
  <1> USE DEF Goto
  <1>0. PICK f \in RecipeFiles : f = File(p)
    BY WriterFacts DEF TruncateBak, WriteBak, OnFile
  <1>1. /\ UNCHANGED <<release, recipe, edited, manifest, spoiled, asks, mem>>
        /\ at \in [Procs -> AllSteps] /\ mem \in [Procs -> Memory] /\ Sure' = Sure
        /\ Sure \subseteq Ships[release] /\ bak \in [RecipeFiles -> Texts]
    BY RecipeTypes DEF TruncateBak, WriteBak, keyVars, Sure
  <1>2. \/ /\ at[p] = "bak_trunc" /\ at' = [at EXCEPT ![p] = "bak_write"]
           /\ bak' = [bak EXCEPT ![f] = Torn]
        \/ /\ at[p] = "bak_write" /\ bak' = [bak EXCEPT ![f] = mem[p].have]
           /\ at' = [at EXCEPT ![p] = IF f \in Ships[release] THEN "trunc" ELSE "remove"]
    BY <1>0 DEF TruncateBak, WriteBak
  <1>3. /\ at[p] \in OnFile /\ at'[p] \in OnFile \ {"write", "bak_trunc"} /\ Walking(p) /\ Walking(p)'
        /\ \A q \in Procs : File(q)' = File(q)
        /\ \A q \in Procs \ {p} : at'[q] = at[q]
        /\ \A q \in Procs : Walking(q)' <=> Walking(q)
    BY <1>1, <1>2, SameFile DEF OnFile, Walking, Walks
  <1>4. /\ OriginInv /\ RefreshInv /\ TornInv /\ ManifestInv /\ AdoptInv /\ EditKept
        /\ \A q \in Procs : FileInv(q) /\ WalkInv(q)
    BY DEF RecipesInv
  <1>5. f \in mem[p].todo /\ f \in RecipeFiles
    BY <1>0, <1>3, WriterFacts
  \* The user's last text is on its way or arrived.
  <1>6. f \in Sure \cap edited => bak'[f] = Users \/ BackingUp(f)'
    <2> SUFFICES ASSUME f \in Sure \cap edited PROVE bak'[f] = Users \/ BackingUp(f)'
      OBVIOUS
    <2>0. FileInv(p) /\ at[p] \in {"bak_trunc", "bak_write"}
      BY <1>2, <1>4
    <2>1. mem[p].have = Users
      BY <1>0, <2>0 DEF FileInv, OnFile
    <2>2. CASE at[p] = "bak_trunc"
      BY <1>0, <1>1, <1>2, <1>3, <2>1, <2>2 DEF BackingUp
    <2>3. CASE at[p] = "bak_write"
      BY <1>1, <1>2, <1>5, <2>1, <2>3
    <2> QED
      BY <1>2, <2>2, <2>3
  <1>7. \A g \in RecipeFiles \ {f} : bak'[g] = bak[g] /\ (BackingUp(g) => BackingUp(g)')
    BY <1>0, <1>1, <1>2, <1>3 DEF BackingUp
  <1>8. OriginInv'
    BY <1>1, <1>4 DEF OriginInv
  <1>9. RefreshInv'
    BY <1>1, <1>2, <1>3, <1>4 DEF RefreshInv, OthersIdle, InKeys, Walks, OnFile
  <1>10. TornInv'
    BY <1>1, <1>2, <1>3, <1>4 DEF TornInv
  <1>11. ManifestInv' /\ AdoptInv'
    BY <1>1, <1>3, <1>4 DEF ManifestInv, AdoptInv
  <1>12. EditKept'
    <2> SUFFICES ASSUME NEW g \in (edited \cap Ships[release]) \ spoiled
                 PROVE  Users \in {recipe[g], bak'[g]} \/ BackingUp(g)'
      BY <1>1 DEF EditKept
    <2>1. g \in RecipeFiles /\ g \in Sure \cap edited
      BY RecipeTypes DEF Sure
    <2>2. Users \in {recipe[g], bak[g]} \/ BackingUp(g)
      BY <1>4 DEF EditKept
    <2>3. CASE g = f
      BY <1>6, <2>1, <2>3
    <2>4. CASE g # f
      BY <1>7, <2>1, <2>2, <2>4
    <2> QED
      BY <2>3, <2>4
  <1>13. \A q \in Procs : WalkInv(q)'
    BY <1>1, <1>2, <1>3, <1>4 DEF WalkInv
  <1>14. ASSUME NEW q \in Procs PROVE FileInv(q)'
    <2>1. CASE q = p
      <3> SUFFICES FileInv(p)'
        BY <2>1
      <3>1. FileInv(p)
        BY <1>4
      <3>2. CASE at[p] = "bak_trunc"
        <4>1. at'[p] = "bak_write"
          BY <1>1, <1>2, <3>2
        <4> QED
          BY <1>1, <1>3, <3>1, <3>2, <4>1 DEF FileInv, OnFile
      <3>3. CASE at[p] = "bak_write"
        <4>1. at'[p] = IF f \in Ships[release] THEN "trunc" ELSE "remove"
          BY <1>1, <1>2, <3>3
        <4> QED
          BY <1>0, <1>1, <1>3, <1>6, <3>1, <3>3, <4>1 DEF FileInv, OnFile
      <3> QED
        BY <1>2, <3>2, <3>3
    <2>2. CASE q # p
      <3>1. FileInv(q) /\ at'[q] = at[q] /\ (at[q] \in OnFile => File(q) \in RecipeFiles)
        BY <1>3, <1>4, <2>2, WriterFacts
      <3> SUFFICES ASSUME at[q] \in OnFile PROVE FileInv(q)'
        BY <3>1 DEF FileInv
      <3>0. PICK g \in RecipeFiles : g = File(q)
        BY <3>1
      <3>2. g \in Sure \cap edited /\ at[q] \in OnFile /\ (bak[g] = Users \/ BackingUp(g)) => bak'[g] = Users \/ BackingUp(g)'
        <4>1. CASE g = f
          BY <1>6, <4>1
        <4>2. CASE g # f
          BY <1>7, <3>1, <4>2
        <4> QED
          BY <4>1, <4>2
      <3> QED
        BY <1>1, <1>3, <3>0, <3>1, <3>2 DEF FileInv
    <2> QED
      BY <2>1, <2>2
  <1> QED
    BY <1>8, <1>9, <1>10, <1>11, <1>12, <1>13, <1>14 DEF RecipesInv

\* A file is changed by one process at a time that knows what it is doing.
LEMMA WriterStep ==
    ASSUME SetupTypeOK, RecipesInv, NEW p \in Procs, NEW f \in RecipeFiles, f = File(p),
           NEW v \in {Torn, release, None}, v = None <=> f \notin Ships[release],
           NEW s \in {"write", "file"}, v = Torn <=> s = "write", NEW m \in Memory,
           at[p] \in {"trunc", "write", "remove"}, at' = [at EXCEPT ![p] = s], mem' = [mem EXCEPT ![p] = m],
           m.refreshing = mem[p].refreshing, m.man = mem[p].man, v = Torn => m.todo = mem[p].todo,
           recipe' = [recipe EXCEPT ![f] = v],
           UNCHANGED <<release, bak, edited, manifest, asks, spoiled>>,
           FileInv(p)', WalkInv(p)'
    PROVE  RecipesInv'
  <1>1. /\ at \in [Procs -> AllSteps] /\ mem \in [Procs -> Memory] /\ Sure' = Sure
        /\ Sure \subseteq Ships[release] /\ recipe \in [RecipeFiles -> Texts] /\ release \in Releases
        /\ edited \subseteq RecipeFiles /\ Ships[release] \subseteq RecipeFiles
    BY RecipeTypes DEF Sure
  <1>2. /\ at'[p] = s /\ mem'[p] = m /\ recipe'[f] = v
        /\ \A g \in RecipeFiles \ {f} : recipe'[g] = recipe[g]
        /\ \A q \in Procs \ {p} : at'[q] = at[q] /\ mem'[q] = mem[q] /\ File(q)' = File(q)
    BY <1>1, SameFile
  <1>3. /\ OriginInv /\ RefreshInv /\ TornInv /\ ManifestInv /\ AdoptInv /\ EditKept
        /\ \A q \in Procs : FileInv(q) /\ WalkInv(q)
    BY DEF RecipesInv
  <1>4. at[p] \in OnFile /\ at[p] # "bak_write" /\ s # "bak_write"
    BY DEF OnFile
  <1>5. /\ Walking(p) /\ FileInv(p) /\ WalkInv(p) /\ f \in mem[p].todo
        /\ \A q \in Procs \ {p} : mem[q].refreshing => at[q] \notin OnFile /\ ~Walking(q)
        /\ mem[p].refreshing => \A q \in Procs \ {p} : ~Walking(q)
        /\ \A q \in Procs \ {p} : asks[q] = "refresh" => at[q] \notin InKeys /\ ~mem[q].refreshing
        /\ \A q \in Procs : /\ Walking(q) /\ f \in Sure \ mem[q].todo
                            /\ ~mem[q].refreshing /\ mem[q].man.there
                            => recipe[f] # Users
    BY <1>4, WriterFacts
  <1>6. \A g : BackingUp(g) => BackingUp(g)'
    BY <1>2, <1>4 DEF BackingUp
  <1>7. Walking(p)' /\ at'[p] \notin InKeys /\ \A q \in Procs : Walking(q)' <=> Walking(q)
    BY <1>2, <1>5 DEF Walking, Walks, InKeys
  <1>8. v = None => mem[p].refreshing /\ manifest.there
    <2>1. v = None => mem[p].refreshing
      BY <1>5 DEF WalkInv
    <2> QED
      BY <1>1, <1>3, <1>5, <2>1 DEF RefreshInv, Walking
  <1>9. /\ f \in Ships[release] => v \in {Torn, release}
        /\ v \in {Torn, release} => v # None /\ v # Users
        /\ Torn \notin Releases /\ None \notin Releases /\ None # Users
    BY <1>1, TextFacts
  <1>10. f \in Sure \cap edited => bak[f] = Users \/ BackingUp(f)
    <2>1. FileInv(p)
      BY <1>5
    <2> QED
      BY <1>4, <2>1 DEF FileInv, OnFile
  <1>11. OriginInv'
    <2>1. release \in 1 .. release
      BY <1>1, TextFacts
    <2>2. \A g \in RecipeFiles : recipe'[g] # None \/ g \in edited => \E r \in 1 .. release : g \in Ships[r]
      BY <1>2, <1>3, <2>1 DEF OriginInv
    <2>3. \A g \in edited \cap Ships[release] : recipe'[g] # None
      BY <1>1, <1>2, <1>3, <1>9 DEF OriginInv
    <2> QED
      BY <2>2, <2>3 DEF OriginInv
  <1>12. RefreshInv'
    <2>1. ASSUME NEW q \in Procs, asks[q] = "refresh", at'[q] \notin {"idle", "ready"} PROVE OthersIdle(q)'
      <3>1. at[q] \notin {"idle", "ready"} /\ \A o \in Procs : at'[o] \in {"idle", "ready"} <=> at[o] \in {"idle", "ready"}
        BY <1>2, <1>5, <1>7, <2>1 DEF Walking, Walks
      <3> QED
        BY <1>3, <2>1, <3>1 DEF RefreshInv, OthersIdle
    <2>2. ASSUME asks[p] = "refresh", mem[p].refreshing, NEW g \in Sure
          PROVE  recipe'[g] \in {release, Users} \/ (recipe'[g] = Torn /\ at'[p] = "write" /\ File(p)' = g)
      <3>1. CASE g = f
        <4>1. v = Torn => File(p)' = f
          BY <1>2, SameFile
        <4> QED
          BY <1>1, <1>2, <1>9, <3>1, <4>1
      <3>2. CASE g # f
        BY <1>1, <1>2, <1>3, <2>2, <3>2 DEF RefreshInv
      <3> QED
        BY <3>1, <3>2
    <2>3. ASSUME NEW q \in Procs
          PROVE  /\ mem'[q].refreshing => asks[q] = "refresh" /\ at'[q] \in Walks \cup {"manifest"}
                 /\ at'[q] \in Walks /\ mem'[q].refreshing => mem'[q].man.there
                 /\ asks[q] = "refresh" /\ (at'[q] \in InKeys \/ mem'[q].refreshing) => manifest.there
      <3>1. CASE q = p
        BY <1>2, <1>3, <1>5, <1>7, <3>1 DEF RefreshInv, Walking
      <3>2. CASE q # p
        BY <1>2, <1>3, <1>5, <3>2 DEF RefreshInv
      <3> QED
        BY <3>1, <3>2
    <2>4. \A q \in Procs \ {p} : ~(asks[q] = "refresh" /\ (at'[q] \in InKeys \/ mem'[q].refreshing))
      BY <1>2, <1>5
    <2> QED
      BY <1>1, <1>2, <1>7, <2>1, <2>2, <2>3, <2>4 DEF RefreshInv
  <1>13. TornInv'
    <2> SUFFICES ASSUME NEW g \in RecipeFiles \ spoiled, recipe'[g] = Torn
                 PROVE  \E q \in Procs : at'[q] = "write" /\ File(q)' = g
      BY DEF TornInv
    <2>1. CASE g = f
      BY <1>2, <2>1, SameFile
    <2>2. CASE g # f
      <3>1. PICK q \in Procs : at[q] = "write" /\ File(q) = g
        BY <1>2, <1>3, <2>2 DEF TornInv
      <3> QED
        BY <1>2, <2>2, <3>1
    <2> QED
      BY <2>1, <2>2
  <1>14. ManifestInv'
    BY <1>1, <1>2, <1>3, <1>5, <1>7, <1>9 DEF ManifestInv
  <1>15. AdoptInv'
    BY <1>1, <1>2, <1>3, <1>7, <1>8, <1>9 DEF AdoptInv
  <1>16. EditKept'
    <2> SUFFICES ASSUME NEW g \in (edited \cap Ships[release]) \ spoiled
                 PROVE  Users \in {recipe'[g], bak[g]} \/ BackingUp(g)'
      BY DEF EditKept
    <2>1. g \in RecipeFiles /\ g \in Sure \cap edited
      BY <1>1 DEF Sure
    <2>2. Users \in {recipe[g], bak[g]} \/ BackingUp(g)
      BY <1>3 DEF EditKept
    <2> QED
      BY <1>2, <1>6, <1>10, <2>1, <2>2
  <1>17. ASSUME NEW q \in Procs \ {p} PROVE FileInv(q)' /\ WalkInv(q)'
    <2>1. FileInv(q)'
      <3>1. FileInv(q) /\ at'[q] = at[q] /\ mem'[q] = mem[q]
        BY <1>2, <1>3
      <3> SUFFICES ASSUME at[q] \in OnFile PROVE FileInv(q)'
        BY <3>1 DEF FileInv
      <3>2. PICK g \in RecipeFiles : g = File(q)
        BY WriterFacts
      <3>3. File(q)' = g
        BY <1>2, <3>2
      <3>4. v # None
        BY <1>5, <1>8, <3>1 DEF Walking, Walks, OnFile
      <3> QED
        BY <1>1, <1>2, <1>6, <3>1, <3>2, <3>3, <3>4 DEF FileInv
    <2>2. WalkInv(q)'
      <3>1. WalkInv(q) /\ mem'[q] = mem[q] /\ at'[q] = at[q]
        BY <1>2, <1>3
      <3> SUFFICES ASSUME Walking(q) PROVE WalkInv(q)'
        BY <1>7 DEF WalkInv
      <3>2. v \in {Torn, release}
        BY <1>5, <1>8
      <3>3. \A g \in Sure : \/ g = f /\ recipe'[g] \in {release, Torn} /\ g \in Sure
                            \/ g # f /\ recipe'[g] = recipe[g]
        BY <1>1, <1>2, <3>2
      <3>4. \A g \in Sure \ mem[q].todo :
               \/ mem[q].next[g] = release /\ recipe'[g] \in {release, Torn}
               \/ ~mem[q].refreshing /\ mem[q].man.there /\ recipe'[g] = Users
        BY <1>5, <3>1, <3>3 DEF WalkInv
      <3> QED
        BY <1>1, <1>7, <1>9, <3>1, <3>3, <3>4 DEF WalkInv
    <2> QED
      BY <2>1, <2>2
  <1> QED
    BY <1>11, <1>12, <1>13, <1>14, <1>15, <1>16, <1>17 DEF RecipesInv

\* os.WriteFile empties the file before it writes it.
LEMMA TruncateRecipeStep ==
    ASSUME SetupTypeOK, RecipesInv, NEW p \in Procs, TruncateRecipe(p)
    PROVE  RecipesInv'
  <1> USE DEF Goto
  <1>0. PICK f \in RecipeFiles : f = File(p)
    BY WriterFacts DEF TruncateRecipe, OnFile
  <1>1. /\ UNCHANGED <<release, bak, edited, manifest, spoiled, asks, mem>> /\ at[p] = "trunc"
        /\ at' = [at EXCEPT ![p] = "write"] /\ recipe' = [recipe EXCEPT ![f] = Torn]
        /\ mem' = [mem EXCEPT ![p] = mem[p]] /\ mem[p] \in Memory /\ at'[p] = "write" /\ Sure' = Sure
        /\ recipe' \in [RecipeFiles -> Texts] /\ recipe'[f] = Torn
        /\ \A g \in RecipeFiles \ {f} : recipe'[g] = recipe[g]
        /\ \A q \in Procs \ {p} : at'[q] = at[q]
    BY <1>0, RecipeTypes, TextFacts DEF TruncateRecipe, keyVars, Sure
  <1>2. /\ Walking(p) /\ FileInv(p) /\ WalkInv(p) /\ f \in mem[p].todo
        /\ Walking(p)' /\ \A q \in Procs : File(q)' = File(q)
    BY <1>0, <1>1, WriterFacts, SameFile DEF OnFile, Walking, Walks
  <1>3. f \in Ships[release] /\ Torn # None /\ Torn # release /\ Torn \notin Releases
    <2>1. FileInv(p)
      BY <1>2
    <2> QED
      BY <1>0, <1>1, <2>1, RecipeTypes, TextFacts DEF FileInv, OnFile
  <1>4. \A g : BackingUp(g) => BackingUp(g)'
    BY <1>1, <1>2 DEF BackingUp
  <1>5. FileInv(p)'
    <2>1. FileInv(p)
      BY <1>2
    <2> QED
      BY <1>0, <1>1, <1>2, <1>3, <1>4, <2>1 DEF FileInv, OnFile
  <1>6. WalkInv(p)'
    <2>1. \A g \in Sure : g = f \/ (g # f /\ recipe'[g] = recipe[g])
      BY <1>1, RecipeTypes
    <2>2. \A g \in Sure \ mem[p].todo : recipe'[g] = recipe[g]
      BY <1>2, <2>1
    <2> QED
      BY <1>1, <1>2, <1>3, <2>1, <2>2 DEF WalkInv
  <1> QED
    BY <1>0, <1>1, <1>3, <1>5, <1>6, WriterStep

\* ... and the file it has written is done.
LEMMA WriteRecipeStep ==
    ASSUME SetupTypeOK, RecipesInv, NEW p \in Procs, WriteRecipe(p)
    PROVE  RecipesInv'
  <1> USE DEF Goto
  <1>0. PICK f \in RecipeFiles : f = File(p)
    BY WriterFacts DEF WriteRecipe, OnFile
  <1>1. PICK m : m = [[mem[p] EXCEPT !.next[f] = release] EXCEPT !.todo = @ \ {f}, !.have = None]
    OBVIOUS
  <1>2. m \in Memory /\ mem[p] \in Memory
    <2>1. [mem[p] EXCEPT !.next[f] = release] \in Memory /\ mem[p] \in Memory
      BY RecipeTypes, MemoryEdits
    <2> QED
      BY <1>1, <2>1, RecipeTypes, MemoryEdits
  <1>3. /\ m.refreshing = mem[p].refreshing /\ m.man = mem[p].man /\ m.todo = mem[p].todo \ {f}
        /\ \A g \in RecipeFiles \ {f} : m.next[g] = mem[p].next[g]
        /\ m.next[f] = release
    BY <1>1, <1>2 DEF Memory, Sums
  <1>4. /\ UNCHANGED <<release, bak, edited, manifest, spoiled, asks>> /\ at[p] = "write"
        /\ at' = [at EXCEPT ![p] = "file"] /\ recipe' = [recipe EXCEPT ![f] = release]
        /\ mem' = [mem EXCEPT ![p] = m] /\ at'[p] = "file" /\ mem'[p] = m /\ Sure' = Sure
        /\ recipe'[f] = release
        /\ \A g \in RecipeFiles \ {f} : recipe'[g] = recipe[g]
    BY <1>0, <1>1, RecipeTypes, TextFacts DEF WriteRecipe, NextFile, Record, keyVars, Sure
  <1>5. /\ Walking(p) /\ FileInv(p) /\ WalkInv(p) /\ f \in mem[p].todo /\ Walking(p)'
    BY <1>0, <1>4, WriterFacts DEF OnFile, Walking, Walks
  <1>6. f \in Ships[release] /\ release # None /\ Torn # release /\ release \in Releases
    <2>1. FileInv(p)
      BY <1>5
    <2> QED
      BY <1>0, <1>4, <2>1, RecipeTypes, TextFacts DEF FileInv, OnFile
  <1>7. FileInv(p)'
    BY <1>4 DEF FileInv, OnFile
  <1>8. WalkInv(p)'
    <2>1. \A g \in Sure : \/ g = f /\ recipe'[g] = release /\ m.next[g] = release
                          \/ g # f /\ recipe'[g] = recipe[g] /\ m.next[g] = mem[p].next[g]
      BY <1>3, <1>4, RecipeTypes
    <2> QED
      BY <1>3, <1>4, <1>5, <1>6, <2>1 DEF WalkInv
  <1> QED
    BY <1>0, <1>2, <1>3, <1>4, <1>6, <1>7, <1>8, WriterStep

\* A refresh removes what the release has dropped.
LEMMA RemoveOrphanStep ==
    ASSUME SetupTypeOK, RecipesInv, NEW p \in Procs, RemoveOrphan(p)
    PROVE  RecipesInv'
  <1> USE DEF Goto
  <1>0. PICK f \in RecipeFiles : f = File(p)
    BY WriterFacts DEF RemoveOrphan, OnFile
  <1>1. PICK m : m = [mem[p] EXCEPT !.todo = @ \ {f}, !.have = None]
    OBVIOUS
  <1>2. m \in Memory /\ mem[p] \in Memory
    BY <1>1, RecipeTypes, MemoryEdits
  <1>3. m.refreshing = mem[p].refreshing /\ m.man = mem[p].man /\ m.todo = mem[p].todo \ {f} /\ m.next = mem[p].next
    BY <1>1, <1>2 DEF Memory, Sums
  <1>4. Walking(p) /\ FileInv(p) /\ WalkInv(p) /\ f \in mem[p].todo /\ at[p] = "remove"
    BY <1>0, WriterFacts DEF OnFile, RemoveOrphan
  <1>5. f \notin Ships[release] /\ recipe[f] # None
    <2>1. FileInv(p)
      BY <1>4
    <2> QED
      BY <1>0, <1>4, <2>1 DEF FileInv, OnFile
  <1>6. /\ UNCHANGED <<release, bak, edited, manifest, spoiled, asks>>
        /\ at' = [at EXCEPT ![p] = "file"] /\ recipe' = [recipe EXCEPT ![f] = None]
        /\ mem' = [mem EXCEPT ![p] = m] /\ at'[p] = "file" /\ mem'[p] = m /\ Sure' = Sure
        /\ \A g \in RecipeFiles \ {f} : recipe'[g] = recipe[g]
    BY <1>0, <1>1, <1>5, RecipeTypes DEF RemoveOrphan, NextFile, keyVars, Sure
  <1>7. FileInv(p)'
    BY <1>6 DEF FileInv, OnFile
  <1>8. WalkInv(p)'
    <2>1. \A g \in Sure : g # f /\ recipe'[g] = recipe[g]
      BY <1>5, <1>6, RecipeTypes
    <2>2. Walking(p)' /\ at'[p] \notin {"man_trunc", "man_write"}
      BY <1>6 DEF Walking, Walks
    <2> QED
      BY <1>3, <1>4, <1>5, <1>6, <2>1, <2>2 DEF WalkInv
  <1> QED
    BY <1>0, <1>2, <1>3, <1>4, <1>5, <1>6, <1>7, <1>8, TextFacts, WriterStep

\* The manifest is written when the walk has been at every file.
LEMMA ManifestStep ==
    ASSUME SetupTypeOK, RecipesInv, NEW p \in Procs, TruncateManifest(p) \/ WriteManifest(p)
    PROVE  RecipesInv'
  <1> USE DEF Goto
  <1>1. /\ UNCHANGED <<release, recipe, bak, edited, spoiled, asks>> /\ manifest'.there
        /\ at[p] \in {"man_trunc", "man_write"} /\ Sure' = Sure
        /\ at \in [Procs -> AllSteps] /\ mem \in [Procs -> Memory] /\ mem = [mem EXCEPT ![p] = mem[p]]
        /\ Sure \subseteq RecipeFiles \ spoiled
    BY RecipeTypes DEF TruncateManifest, WriteManifest, keyVars, Sure
  <1>2. \/ /\ at[p] = "man_trunc" /\ at' = [at EXCEPT ![p] = "man_write"] /\ mem' = mem
           /\ Walking(p)'
        \/ /\ at[p] = "man_write" /\ mem' = [mem EXCEPT ![p] = NoMem] /\ manifest'.sums = mem[p].next
           /\ at' = [at EXCEPT ![p] = IF mem[p].refreshing THEN "ready" ELSE "stat"]
    BY <1>1 DEF TruncateManifest, WriteManifest, Walking, Walks
  <1>3. /\ OriginInv /\ RefreshInv /\ TornInv /\ ManifestInv /\ AdoptInv /\ EditKept
        /\ \A q \in Procs : FileInv(q) /\ WalkInv(q)
    BY DEF RecipesInv
  <1>4. /\ \A q \in Procs \ {p} : at'[q] = at[q] /\ mem'[q] = mem[q] /\ File(q)' = File(q)
        /\ at'[p] \in {"man_write", "ready", "stat"} /\ Walking(p)
    BY <1>1, <1>2, SameFile DEF Walking, Walks
  <1>5. /\ mem[p].todo = {} /\ (at[p] = "man_write" \/ mem[p].man.there => manifest.there)
        /\ \A f \in Sure : \/ mem[p].next[f] = release /\ recipe[f] \in {release, Torn}
                           \/ ~mem[p].refreshing /\ mem[p].man.there /\ recipe[f] = Users
    BY <1>1, <1>3, <1>4 DEF WalkInv
  <1>6. Torn \notin Releases /\ Users \notin Releases /\ release \in Releases /\ Torn # Users
    BY RecipeTypes, TextFacts
  <1>7. \A f : BackingUp(f) => BackingUp(f)'
    BY <1>1, <1>2, <1>4 DEF BackingUp
  \* No refresh is beside this walk.
  <1>8. \A q \in Procs \ {p} : asks[q] = "refresh" => at[q] \in {"idle", "ready"} /\ ~mem[q].refreshing
    <2>1. ASSUME NEW q \in Procs \ {p}, asks[q] = "refresh" PROVE at[q] \in {"idle", "ready"}
      BY <1>1, <1>3, <2>1 DEF RefreshInv, OthersIdle
    <2>2. \A q \in Procs \ {p} : mem[q].refreshing => at[q] \notin {"idle", "ready"}
      BY <1>3 DEF RefreshInv, Walks
    <2> QED
      BY <2>1, <2>2
  <1>9. OriginInv' /\ AdoptInv' /\ EditKept'
    BY <1>1, <1>3, <1>7 DEF OriginInv, AdoptInv, EditKept
  <1>10. TornInv'
    BY <1>1, <1>3, <1>4 DEF TornInv
  <1>11. ManifestInv'
    <2> SUFFICES ASSUME NEW f \in Sure, recipe[f] \in Releases,
                        recipe[f] # release \/ \A q \in Procs : ~Walking(q)'
                 PROVE  manifest'.sums[f] = recipe[f]
      BY <1>1 DEF ManifestInv
    <2>1. mem[p].next[f] = release /\ recipe[f] = release
      BY <1>5, <1>6
    <2> QED
      BY <1>2, <2>1
  <1>12. RefreshInv'
    <2>1. ASSUME NEW q \in Procs, asks[q] = "refresh", at'[q] \notin {"idle", "ready"} PROVE OthersIdle(q)'
      <3>1. q = p /\ OthersIdle(p)
        BY <1>1, <1>3, <1>4, <1>8, <2>1 DEF RefreshInv
      <3> QED
        BY <1>4, <3>1 DEF OthersIdle
    <2>2. ASSUME asks[p] = "refresh", NEW f \in Sure PROVE recipe[f] \in {release, Users}
      <3>1. OthersIdle(p)
        BY <1>1, <1>3, <2>2 DEF RefreshInv
      <3>2. \A q \in Procs : at[q] # "write"
        BY <1>1, <3>1 DEF OthersIdle
      <3>3. recipe[f] # Torn
        BY <1>1, <1>3, <3>2 DEF TornInv
      <3> QED
        BY <1>5, <3>3
    <2>3. /\ mem'[p].refreshing => asks[p] = "refresh" /\ at'[p] \in Walks \cup {"manifest"}
          /\ at'[p] \in Walks /\ mem'[p].refreshing => mem'[p].man.there
      <3>1. CASE at[p] = "man_trunc"
        BY <1>1, <1>2, <1>3, <1>4, <3>1 DEF RefreshInv, Walks
      <3>2. CASE at[p] = "man_write"
        BY <1>1, <1>2, <3>2, MemoryFacts
      <3> QED
        BY <1>1, <3>1, <3>2
    <2>4. \A q \in Procs \ {p} :
             /\ mem'[q].refreshing => asks[q] = "refresh" /\ at'[q] \in Walks \cup {"manifest"}
             /\ at'[q] \in Walks /\ mem'[q].refreshing => mem'[q].man.there
             /\ ~(asks[q] = "refresh" /\ (at'[q] \in InKeys \/ mem'[q].refreshing))
      BY <1>3, <1>4, <1>8 DEF RefreshInv, InKeys
    <2> QED
      BY <1>1, <2>1, <2>2, <2>3, <2>4 DEF RefreshInv
  <1>13. FileInv(p)' /\ WalkInv(p)'
    <2>1. FileInv(p)'
      BY <1>4 DEF FileInv, OnFile
    <2>2. CASE at[p] = "man_trunc"
      <3>1. mem' = mem /\ WalkInv(p) /\ (~mem[p].man.there => \A f \in Sure : recipe[f] \in {release, Torn})
        BY <1>2, <1>3, <1>5, <2>2
      <3> QED
        BY <2>1, <1>1, <1>4, <1>5, <3>1 DEF WalkInv
    <2>3. CASE at[p] = "man_write"
      <3>1. at'[p] = IF mem[p].refreshing THEN "ready" ELSE "stat"
        BY <1>1, <1>2, <2>3
      <3>2. ~Walking(p)'
        BY <3>1 DEF Walking, Walks
      <3> QED
        BY <2>1, <3>2 DEF WalkInv
    <2> QED
      BY <1>1, <2>1, <2>2, <2>3
  <1>14. ASSUME NEW q \in Procs \ {p} PROVE FileInv(q)' /\ WalkInv(q)'
    <2>1. FileInv(q) /\ WalkInv(q)
      BY <1>3
    <2>2. FileInv(q)'
      BY <1>1, <1>4, <1>7, <2>1 DEF FileInv
    <2>3. WalkInv(q)'
      <3> SUFFICES ASSUME Walking(q) PROVE WalkInv(q)'
        BY <1>4 DEF WalkInv, Walking
      <3>1. ~mem[q].man.there => \A f \in Sure : recipe[f] \in {release, Torn}
        BY <1>5, <2>1 DEF WalkInv
      <3> QED
        BY <1>1, <1>4, <2>1, <3>1 DEF WalkInv
    <2> QED
      BY <2>2, <2>3
  <1> QED
    BY <1>9, <1>10, <1>11, <1>12, <1>13, <1>14 DEF RecipesInv

\* A command cut short in the middle of the files blurs all of them; before
\* and after, it leaves them alone.
LEMMA CutShortStep ==
    ASSUME SetupTypeOK, RecipesInv, NEW p \in Procs, CutShort(p)
    PROVE  RecipesInv'
  <1> USE DEF Goto
  <1>1. /\ UNCHANGED <<release, recipe, bak, edited, manifest>>
        /\ at[p] \notin {"idle", "ready"} /\ at' = [at EXCEPT ![p] = "idle"]
        /\ asks' = [asks EXCEPT ![p] = "command"] /\ mem' = [mem EXCEPT ![p] = NoMem]
        /\ spoiled' = IF Writing(p) THEN RecipeFiles ELSE spoiled
        /\ at \in [Procs -> AllSteps] /\ mem \in [Procs -> Memory] /\ asks \in [Procs -> {"command", "refresh"}]
        /\ spoiled' = spoiled \/ Sure' = {}
    BY RecipeTypes DEF CutShort, Sure
  <1>2. /\ \A q \in Procs \ {p} : at'[q] = at[q] /\ mem'[q] = mem[q] /\ asks'[q] = asks[q] /\ File(q)' = File(q)
        /\ at'[p] = "idle" /\ asks'[p] = "command" /\ mem'[p] = NoMem /\ ~mem'[p].refreshing
    BY <1>1, SameFile, MemoryFacts
  <1>3. /\ OriginInv /\ RefreshInv /\ TornInv /\ ManifestInv /\ AdoptInv /\ EditKept
        /\ \A q \in Procs : FileInv(q) /\ WalkInv(q)
    BY DEF RecipesInv
  <1>4. RefreshInv'
    <2>1. Sure' \subseteq Sure
      BY <1>1 DEF Sure
    <2>2. \A q \in Procs : asks'[q] = "refresh" /\ at'[q] \notin {"idle", "ready"} => OthersIdle(q)'
      BY <1>2, <1>3 DEF RefreshInv, OthersIdle
    <2> QED
      BY <1>1, <1>2, <1>3, <2>1, <2>2 DEF RefreshInv
  <1>5. CASE ~Writing(p)
    <2>1. at[p] \notin Walks
      BY <1>5 DEF Writing, InRecipes, Walks
    <2>2. spoiled' = spoiled
      BY <1>1, <1>5
    <2> QED
      BY <1>1, <1>4, <2>1, <2>2, QuietStep DEF Walks
  <1>6. CASE Writing(p)
    <2>1. spoiled' = RecipeFiles /\ Sure' = {} /\ edited \subseteq RecipeFiles
      BY <1>1, <1>6, RecipeTypes DEF Sure
    <2>2. OriginInv' /\ TornInv' /\ ManifestInv' /\ AdoptInv' /\ EditKept'
      BY <1>1, <1>3, <2>1 DEF OriginInv, TornInv, ManifestInv, AdoptInv, EditKept
    <2>3. FileInv(p)' /\ WalkInv(p)'
      BY <1>2 DEF FileInv, WalkInv, OnFile, Walking, Walks
    <2>4. ASSUME NEW q \in Procs \ {p} PROVE FileInv(q)' /\ WalkInv(q)'
      <3>1. FileInv(q) /\ WalkInv(q)
        BY <1>3
      <3>2. FileInv(q)'
        BY <1>1, <1>2, <2>1, <3>1 DEF FileInv
      <3>3. WalkInv(q)'
        BY <1>1, <1>2, <2>1, <3>1 DEF WalkInv, Walking
      <3> QED
        BY <3>2, <3>3
    <2> QED
      BY <1>4, <2>2, <2>3, <2>4 DEF RecipesInv
  <1> QED
    BY <1>5, <1>6

\* The user saves a file while no command is at the recipes.
LEMMA UserEditsStep ==
    ASSUME SetupTypeOK, RecipesInv, NEW f \in RecipeFiles, UserEdits(f)
    PROVE  RecipesInv'
  <1>1. /\ UNCHANGED <<release, bak, manifest, asks, mem, at>> /\ recipe[f] \notin {None, Users}
        /\ recipe'[f] = Users /\ \A g \in RecipeFiles \ {f} : recipe'[g] = recipe[g]
        /\ edited' = edited \cup {f} /\ spoiled' = spoiled \ {f}
        /\ edited \subseteq RecipeFiles /\ Sure' \subseteq RecipeFiles /\ Sure' \subseteq Sure \cup {f}
        /\ Ships[release] \subseteq RecipeFiles
    BY RecipeTypes DEF UserEdits, Sure
  <1>2. \A p \in Procs : ~Walking(p) /\ ~Walking(p)' /\ at[p] \notin OnFile /\ File(p)' = File(p)
    <2>1. \A p \in Procs : at[p] \notin Walks
      BY DEF UserEdits, Writing, InRecipes, Walks
    <2> QED
      BY <1>1, <2>1, SameFile DEF Walking, OnFile, Walks
  <1>3. /\ OriginInv /\ RefreshInv /\ TornInv /\ ManifestInv /\ AdoptInv /\ EditKept
    BY DEF RecipesInv
  <1>4. Users # None /\ Users # Torn /\ Users \notin Releases
    BY TextFacts
  <1>5. \A p \in Procs : FileInv(p)' /\ WalkInv(p)'
    BY <1>1, <1>2 DEF FileInv, WalkInv
  <1>6. OriginInv'
    BY <1>1, <1>3, <1>4 DEF OriginInv
  <1>7. RefreshInv'
    BY <1>1, <1>2, <1>3 DEF RefreshInv, OthersIdle
  <1>8. TornInv'
    BY <1>1, <1>2, <1>3, <1>4 DEF TornInv
  <1>9. ManifestInv' /\ AdoptInv'
    BY <1>1, <1>2, <1>3, <1>4 DEF ManifestInv, AdoptInv
  <1>10. EditKept'
    <2>1. \A g : ~BackingUp(g)
      BY <1>2 DEF BackingUp, OnFile
    <2> QED
      BY <1>1, <1>3, <2>1 DEF EditKept
  <1> QED
    BY <1>5, <1>6, <1>7, <1>8, <1>9, <1>10 DEF RecipesInv

\* A file that is in the recipe directory and in the next release is in this one.
LEMMA UpgradeStep ==
    ASSUME SetupTypeOK, RecipesInv, NeverReturns, Upgrade
    PROVE  RecipesInv'
  <1>1. /\ UNCHANGED <<recipe, bak, edited, manifest, spoiled, asks, mem, at>>
        /\ release' = release + 1 /\ release' \in Releases /\ release \in Releases
        /\ \A p \in Procs : at[p] = "idle"
        /\ edited \subseteq RecipeFiles
    BY RecipeTypes DEF Upgrade, recipeVars
  <1>2. /\ OriginInv /\ RefreshInv /\ TornInv /\ ManifestInv /\ AdoptInv /\ EditKept
    BY DEF RecipesInv
  <1>3. /\ \A p \in Procs : ~Walking(p) /\ ~Walking(p)' /\ at[p] \notin OnFile
        /\ \A f : ~BackingUp(f)
    BY <1>1 DEF Walking, Walks, OnFile, BackingUp
  <1>4. ASSUME NEW f \in RecipeFiles, recipe[f] # None \/ f \in edited, f \in Ships[release']
        PROVE  f \in Ships[release]
    <2>1. PICK r \in 1 .. release : f \in Ships[r]
      BY <1>2, <1>4 DEF OriginInv
    <2>2. r \in Releases /\ release \in Nat
      BY <1>1, TextFacts
    <2>3. r = release \/ (r < release /\ release < release')
      BY <1>1, <2>2
    <2> QED
      BY <1>1, <1>4, <2>1, <2>2, <2>3 DEF NeverReturns
  <1>5. OriginInv'
    <2>1. 1 .. release \subseteq 1 .. release'
      BY <1>1, TextFacts
    <2> QED
      BY <1>1, <1>2, <1>4, <2>1 DEF OriginInv
  <1>6. RefreshInv'
    BY <1>1, <1>2 DEF RefreshInv, InKeys, Walks
  <1>7. TornInv' /\ AdoptInv'
    BY <1>1, <1>2, <1>3 DEF TornInv, AdoptInv
  <1>8. ManifestInv'
    <2> SUFFICES ASSUME manifest.there, NEW f \in Ships[release'] \ spoiled, recipe[f] \in Releases
                 PROVE  manifest.sums[f] = recipe[f]
      BY <1>1 DEF ManifestInv, Sure
    <2>1. f \in RecipeFiles /\ recipe[f] # None
      BY <1>1, TextFacts
    <2> QED
      BY <1>2, <1>3, <1>4, <2>1 DEF ManifestInv, Sure
  <1>9. EditKept'
    BY <1>1, <1>2, <1>3, <1>4 DEF EditKept
  <1>10. \A p \in Procs : FileInv(p)' /\ WalkInv(p)'
    BY <1>1, <1>3 DEF FileInv, WalkInv
  <1> QED
    BY <1>5, <1>6, <1>7, <1>8, <1>9, <1>10 DEF RecipesInv

\* In a fresh data root, and in one of an older stoat, nothing is half written
\* and every edit is in place.
LEMMA RecipesInit == SetupInit => RecipesInv
  <1> SUFFICES ASSUME SetupInit PROVE RecipesInv
    OBVIOUS
  <1>1. /\ 1 \in Releases /\ 1 \in 1 .. release /\ release \in Releases
    <2>1. 1 \in Releases
      BY ShipsAssumption DEF Releases
    <2>2. release \in Releases
      BY <2>1 DEF SetupInit
    <2> QED
      BY <2>1, <2>2, TextFacts
  <1>2. /\ \A p \in Procs : at[p] = "idle" /\ asks[p] = "command" /\ ~mem[p].refreshing
        /\ ~manifest.there
    BY MemoryFacts DEF SetupInit
  <1>3. \A f \in RecipeFiles : recipe[f] \in {None, 1, Users} /\ (recipe[f] # None => f \in Ships[1])
    BY DEF SetupInit, NoSums
  <1>4. edited = {f \in RecipeFiles : recipe[f] = Users}
    BY DEF SetupInit
  <1>5. OriginInv
    BY <1>1, <1>3, <1>4, TextFacts DEF OriginInv
  <1>6. RefreshInv
    BY <1>2 DEF RefreshInv, InKeys
  <1>7. TornInv
    BY <1>1, <1>3, TextFacts DEF TornInv
  <1>8. ManifestInv /\ AdoptInv /\ EditKept
    BY <1>2, <1>4 DEF ManifestInv, AdoptInv, EditKept
  <1>9. \A p \in Procs : FileInv(p) /\ WalkInv(p)
    BY <1>2 DEF FileInv, WalkInv, OnFile, Walking, Walks
  <1> QED
    BY <1>5, <1>6, <1>7, <1>8, <1>9 DEF RecipesInv

\* RecipesInv is inductive.
LEMMA RecipesNext ==
    ASSUME RefreshesAlone, NeverReturns, SetupTypeOK, RecipesInv, [CommandNext]_<<vars, setupVars>>
    PROVE  RecipesInv'
  <1>1. CASE UNCHANGED setupVars
    <2>1. UNCHANGED <<release, recipe, bak, edited, manifest, spoiled, at, asks, mem>> /\ Sure' = Sure
      BY <1>1 DEF setupVars, recipeVars, Sure
    <2>2. \A p \in Procs : File(p)' = File(p)
      BY <2>1, SameFile
    <2>3. \A f : BackingUp(f)' <=> BackingUp(f)
      BY <2>1, <2>2 DEF BackingUp
    <2>4. OriginInv' /\ RefreshInv' /\ TornInv'
      BY <2>1, <2>2 DEF RecipesInv, OriginInv, RefreshInv, TornInv, OthersIdle
    <2>5. ManifestInv' /\ AdoptInv' /\ EditKept'
      BY <2>1, <2>3 DEF RecipesInv, ManifestInv, AdoptInv, EditKept, Walking
    <2>6. ASSUME NEW p \in Procs PROVE FileInv(p)' /\ WalkInv(p)'
      <3>1. FileInv(p) /\ WalkInv(p)
        BY DEF RecipesInv
      <3> QED
        BY <2>1, <2>2, <2>3, <3>1 DEF FileInv, WalkInv, Walking
    <2> QED
      BY <2>4, <2>5, <2>6 DEF RecipesInv
  <1>2. CASE Upgrade
    BY <1>2, UpgradeStep
  <1>3. CASE \E f \in RecipeFiles : UserEdits(f)
    BY <1>3, UserEditsStep
  <1>4. ASSUME NEW p \in Procs, SetupStep(p) \/ CommandEnds(p) PROVE RecipesInv'
    BY <1>4, CommandStep, EnsureStep, ReadManifestStep, ReadRecipeStep, BackupStep, TruncateRecipeStep,
       WriteRecipeStep, RemoveOrphanStep, ManifestStep, CutShortStep DEF SetupStep
  <1> QED
    BY <1>1, <1>2, <1>3, <1>4 DEF CommandNext

\* RecipesInv answers for the files nothing spoiled.
LEMMA RecipesToldApart == RecipesInv => EditsToldApart
  <1> SUFFICES ASSUME RecipesInv, manifest.there, \A p \in Procs : ~Writing(p),
                      NEW f \in Ships[release] \ spoiled, recipe[f] \in Releases
               PROVE  manifest.sums[f] = recipe[f]
    BY DEF RecipesInv, EditsToldApart, StockRecognised
  <1>1. \A p \in Procs : ~Walking(p)
    BY DEF Writing, Walking, Walks, InRecipes
  <1> QED
    BY <1>1 DEF RecipesInv, ManifestInv, Sure

\* A command that is alone and is not cut short finds no file half written.
LEMMA NothingSpoiled ==
    ASSUME OneAtATime, MaxCuts = 0, SetupTypeOK, RecipesInv, spoiled = {},
           [CommandNext]_<<vars, setupVars>>
    PROVE  spoiled' = {}
  <1>1. CASE UNCHANGED setupVars
    BY <1>1 DEF setupVars, recipeVars
  <1>2. CASE Upgrade
    BY <1>2 DEF Upgrade, recipeVars
  <1>3. CASE \E f \in RecipeFiles : UserEdits(f)
    BY <1>3 DEF UserEdits
  <1>4. ASSUME NEW p \in Procs, CommandEnds(p) PROVE spoiled' = {}
    BY <1>4 DEF CommandEnds, recipeVars
  <1>5. ASSUME NEW p \in Procs, SetupStep(p) PROVE spoiled' = {}
    <2>1. CASE ReadRecipe(p)
      <3>1. CASE mem[p].todo = {}
        BY <2>1, <3>1 DEF ReadRecipe
      <3>2. CASE mem[p].todo # {}
        <4>1. File(p) \in RecipeFiles
          <5>1. mem[p].todo \subseteq RecipeFiles
            BY RecipeTypes DEF Memory
          <5> QED
            BY <5>1, <3>2, FileAhead, RecipeTypes
        <4>2. recipe[File(p)] # Torn
          BY <2>1, <4>1 DEF ReadRecipe, RecipesInv, TornInv, OneAtATime
        <4> QED
          BY <2>1, <3>2, <4>2 DEF ReadRecipe
      <3> QED
        BY <3>1, <3>2
    <2>2. CASE CutShort(p)
      BY <2>2 DEF CutShort, SetupTypeOK
    <2> QED
      BY <1>5, <2>1, <2>2
      DEF SetupStep, Command, SweepLists, SweepMoves, ReadManifest, TruncateBak, WriteBak,
          TruncateRecipe, WriteRecipe, RemoveOrphan, TruncateManifest, WriteManifest,
          StatPrivate, StatPublic, LockKeys, CheckAndClear, KeygenPrivate, KeygenPublic,
          KeygenEnds, recipeVars
  <1> QED
    BY <1>1, <1>2, <1>3, <1>4, <1>5 DEF CommandNext

\* EditsToldApart, of every file: as long as one stoat runs at a time and none
\* is cut short, nothing is read half written, and through any sequence of
\* commands, refreshes, upgrades and edits, over any number of files and
\* releases, no edit is lost and no stock file is taken for one.  No release
\* brings back a file an earlier one dropped: Install would take the copy it
\* left behind for the user's.
THEOREM EditsStayToldApart ==
    ASSUME OneAtATime, MaxCuts = 0, NeverReturns
    PROVE  CommandSpec => [](EditsToldApart /\ spoiled = {})
  <1> DEFINE Whole == SetupTypeOK /\ KeyInv /\ RecipesInv /\ spoiled = {}
  <1>1. CommandInit => Whole
    BY SetupKeys, RecipesInit DEF CommandInit, SetupInit
  <1>2. Whole /\ [CommandNext]_<<vars, setupVars>> => Whole'
    BY SetupKeys, RecipesNext, NothingSpoiled DEF RefreshesAlone
  <1>3. Whole => EditsToldApart /\ spoiled = {}
    BY RecipesToldApart
  <1> QED
    BY <1>1, <1>2, <1>3, PTL DEF CommandSpec

\* EditsToldApart, with any number of processes in recipes.Install at once and
\* killed anywhere, of the files they have not spoiled: read half written, or
\* left behind by a command cut short.  That a refresh has the data root to
\* itself is an assumption, as no lock sees to it.
THEOREM UnspoiledStaysToldApart ==
    ASSUME RefreshAlone, NeverReturns PROVE CommandSpec => []EditsToldApart
  <1>1. CommandInit => SetupTypeOK /\ KeyInv /\ RecipesInv
    BY SetupKeys, RecipesInit DEF CommandInit
  <1>2. SetupTypeOK /\ KeyInv /\ RecipesInv /\ [CommandNext]_<<vars, setupVars>>
          => (SetupTypeOK /\ KeyInv /\ RecipesInv)'
    BY SetupKeys, RecipesNext DEF RefreshesAlone
  <1> QED
    BY <1>1, <1>2, RecipesToldApart, PTL DEF CommandSpec

-----------------------------------------------------------------------------
(* A project on the cloud: what a process is *)

\* Commands that read declarations.
Ups == {"up", "project_up"}

\* The places at which a process is at no VM.
Nowhere == {"idle", "pruneLock", "list", "sweep"}

\* The places a command begins with a VM at, or ends at.
Starts == {"idle", "load", "stopState", "rmGet", "pruneLock", "extendGet"}

\* A process at work has a command, at a VM a list of VMs, and in Reconcile a
\* project.
Proper(me) ==
    /\ me \in Process
    /\ me.pc # "idle" => me.cmd \in Commands
    /\ me.pc \notin Nowhere => me.todo # <<>>
    /\ me.cmd \in Ups => me.proj \in [VMs -> Decls]
    /\ me.pc \in {"load", "create", "diff", "update"} => me.cmd \in Ups

LEMMA IdleProper == Proper(Idle)
  <1>1. <<>> \in Seq(VMs)
    OBVIOUS
  <1>2. Idle \in Process
    BY <1>1, RemoteAssumption DEF Idle, Process, Places, Waits, Commands, NoDeadline
  <1>. QED
    BY <1>2 DEF Idle, Proper, Nowhere, Ups

LEMMA EntryFacts ==
    ASSUME NEW c \in Commands
    PROVE  /\ Entry(c) \in Starts \ {"idle"}
           /\ Entry(c) \in {"load", "create", "diff", "update"} => c \in Ups
  BY DEF Entry, Commands, FanOuts, Starts, Ups

\* The next round of a command.
LEMMA RoundProper ==
    ASSUME NEW me, Proper(me), me.pc # "idle",
           NEW names \in Seq(VMs), names # <<>>, NEW round \in {"none", "reconcile", "each"},
           NEW new, new = [Fresh(me) EXCEPT !.todo = names, !.phase = round]
    PROVE  Proper(new) /\ new.pc \in Starts
  <1>1. me.cmd \in Commands /\ me.proj \in {<<>>} \cup [VMs -> Decls]
    BY DEF Proper, Process
  <1>2. Entry(me.cmd) \in Starts \ {"idle"} /\ Entry(me.cmd) \in Places
    BY <1>1, EntryFacts DEF Starts, Places
  <1>3. PICK e \in Places, j \in {"none", "reconcile", "each"}, g \in {<<>>} \cup [VMs -> Decls] :
           e = Entry(me.cmd) /\ j = round /\ g = me.proj
    BY <1>1, <1>2
  <1>4. new = [Idle EXCEPT !.pc = e, !.cmd = me.cmd, !.todo = names, !.phase = j, !.proj = g]
    BY <1>3 DEF Fresh, Idle
  <1>5. new \in Process
    <2>1. Idle \in Process
      BY IdleProper DEF Proper
    <2>. QED
      BY <1>1, <1>4, <2>1 DEF Process
  <1>6. new.pc = Entry(me.cmd) /\ new.cmd = me.cmd /\ new.todo = names /\ new.proj = me.proj
    BY <1>3, <1>4 DEF Idle
  <1>7. me.cmd \in Ups => new.proj \in [VMs -> Decls]
    BY <1>6 DEF Proper
  <1>8. new.pc \in {"load", "create", "diff", "update"} => new.cmd \in Ups
    BY <1>1, <1>6, EntryFacts
  <1>. QED
    BY <1>1, <1>2, <1>5, <1>6, <1>7, <1>8 DEF Proper

LEMMA OrderFacts == Order \in Seq(VMs) /\ Order # <<>>
  <1>1. PICK n \in VMs : \E i \in DOMAIN Order : Order[i] = n
    BY RemoteAssumption
  <1>2. DOMAIN <<>> = {}
    OBVIOUS
  <1>. QED
    BY <1>1, <1>2, RemoteAssumption

\* A process whose VM-level function returned is where a command begins or ends.
LEMMA DoneProper ==
    ASSUME NEW me, Proper(me), me.pc # "idle"
    PROVE  Proper(Done(me)) /\ Done(me).pc \in Starts
  <1>1. me.todo \in Seq(VMs) /\ me.phase \in {"none", "reconcile", "each"}
    BY DEF Proper, Process
  <1>2. CASE Len(me.todo) > 1
    <2>1. Tail(me.todo) \in Seq(VMs) /\ Tail(me.todo) # <<>>
      <3>1. PICK k \in Nat : k = Len(me.todo)
        BY <1>1, LenProperties
      <3>2. Len(<<>>) = 0
        OBVIOUS
      <3>3. me.todo # <<>> /\ k > 1
        BY <1>2, <3>1, <3>2
      <3>4. Tail(me.todo) \in Seq(VMs) /\ Len(Tail(me.todo)) = k - 1
        BY <1>1, <3>1, <3>3, HeadTailProperties
      <3>5. k - 1 # 0
        BY <3>3
      <3>. QED
        BY <3>2, <3>4, <3>5
    <2>2. Done(me) = [Fresh(me) EXCEPT !.todo = Tail(me.todo), !.phase = me.phase]
      BY <1>2 DEF Done
    <2>. QED
      BY <1>1, <2>1, <2>2, RoundProper
  <1>3. CASE ~(Len(me.todo) > 1) /\ me.phase = "reconcile"
    <2>1. Done(me) = [Fresh(me) EXCEPT !.todo = Order, !.phase = "each"]
      BY <1>3 DEF Done
    <2>. QED
      BY <2>1, RoundProper, OrderFacts
  <1>4. CASE ~(Len(me.todo) > 1) /\ me.phase # "reconcile"
    BY <1>4, IdleProper DEF Done, Idle, Starts
  <1>. QED
    BY <1>2, <1>3, <1>4

\* A process that goes on at another place.
LEMMA PlaceProper ==
    ASSUME NEW me, Proper(me), me.pc # "idle", NEW place \in Places,
           place # "idle",
           place \notin Nowhere => me.todo # <<>>,
           place \in {"load", "create", "diff", "update"} => me.cmd \in Ups
    PROVE  /\ Proper([me EXCEPT !.pc = place])
           /\ [me EXCEPT !.pc = place].pc = place
           /\ [me EXCEPT !.pc = place].todo = me.todo
  <1>1. [me EXCEPT !.pc = place] \in Process
    BY DEF Proper, Process
  <1>. QED
    BY <1>1 DEF Proper, Process

\* Moved, in both of its forms.
LEMMA MovedProper ==
    ASSUME NEW me, Proper(me), me.pc # "idle", NEW place
    PROVE  /\ place \in {"ok", "failed"} =>
                Proper(Moved(me, place)) /\ Moved(me, place).pc \in Starts
           /\ /\ place \in Places \ {"idle", "load", "create", "diff", "update"}
              /\ place \notin Nowhere => me.todo # <<>>
              => /\ Proper(Moved(me, place)) /\ Moved(me, place).pc = place
                 /\ Moved(me, place) = [me EXCEPT !.pc = place]
  <1>1. CASE place = "ok"
    BY <1>1, DoneProper DEF Moved, Places, Waits
  <1>2. CASE place = "failed"
    BY <1>2, IdleProper DEF Moved, Places, Waits, Idle, Starts
  <1>3. CASE place \notin {"ok", "failed"}
    <2>1. Moved(me, place) = [me EXCEPT !.pc = place]
      BY <1>3 DEF Moved
    <2>. QED
      BY <1>3, <2>1, PlaceProper
  <1>. QED
    BY <1>1, <1>2, <1>3

-----------------------------------------------------------------------------
(* The records Reconcile writes *)

LEMMA DeclFacts ==
    ASSUME NEW d \in Decls
    PROVE  /\ d.image # Unset /\ d.image \in Images /\ d.cpus \in Nat /\ d.recipes \subseteq Recipes
           /\ d.params \in [Recipes -> ParamValues]
           /\ d.secrets \in [Recipes -> SecretValues]
           /\ d = [image |-> d.image, cpus |-> d.cpus, recipes |-> d.recipes,
                   params |-> d.params, secrets |-> d.secrets]
  <1>1. d \in Declaration
    BY RemoteAssumption
  <1>2. \A r \in Recipes : d.params[r] \in ParamValues
    BY DEF ParamValues
  <1>3. \A r \in Recipes : d.secrets[r] \in SecretValues
    BY DEF SecretValues
  <1>. QED
    BY <1>1, <1>2, <1>3, RemoteAssumption DEF Declaration, Images

\* A record that agrees with its own list of recipes.
Consistent(v) ==
    v \in CloudRecord /\ GivenFor(v.params, v.recipes) /\ GivenFor(v.secrets, v.recipes)

LEMMA RecordsAreRecords ==
    ASSUME NEW v \in CloudRecord
    PROVE  v # NoRecord /\ v.image # Unset
  <1>1. v.image \in Images
    BY DEF CloudRecord
  <1>. QED
    BY <1>1, RemoteAssumption DEF NoRecord, Images

\* What Create writes.
LEMMA CreatedFacts ==
    ASSUME NEW d \in Decls, GivenFor(d.params, d.recipes), GivenFor(d.secrets, d.recipes)
    PROVE  /\ Consistent(RecordOf(d))
           /\ Diff(RecordOf(d), d) = {}
           /\ RecordOf(d).secrets = d.secrets
  <1>1. PICK k \in Nat : k = (IF d.cpus = 0 THEN DefaultCPUs ELSE d.cpus)
    BY DeclFacts DEF DefaultCPUs
  <1>2. RecordOf(d) = [image |-> d.image, cpus |-> k, recipes |-> d.recipes,
                       params |-> d.params, secrets |-> d.secrets]
    BY <1>1, DeclFacts DEF RecordOf
  <1>3. RecordOf(d) \in CloudRecord
    BY <1>2, DeclFacts DEF CloudRecord
  <1>4. d.cpus # 0 => k = d.cpus
    BY <1>1
  <1>. QED
    BY <1>2, <1>3, <1>4 DEF Consistent, Diff

\* What Update writes.
LEMMA PatchedFacts ==
    ASSUME NEW d \in Decls, NEW v, Consistent(v), NEW fields, NEW unset,
           Accepted(v, d, fields, unset)
    PROVE  Consistent(Patched(v, d, fields, unset))
  <1>1. /\ v.cpus \in Nat /\ v.recipes \in SUBSET Recipes
        /\ v.params \in [Recipes -> ParamValues]
        /\ v.secrets \in [Recipes -> SecretValues]
        /\ v \in CloudRecord
        /\ GivenFor(v.params, v.recipes) /\ GivenFor(v.secrets, v.recipes)
    BY DEF Consistent, CloudRecord
  <1>2. PICK R \in SUBSET Recipes : R = (IF "recipes" \in fields THEN d.recipes ELSE v.recipes)
    BY <1>1, DeclFacts
  <1>3. PICK k \in Nat : k = (IF "cpus" \in fields THEN d.cpus ELSE v.cpus)
    BY <1>1, DeclFacts
  <1> DEFINE P == [r \in Recipes |->
                     IF r \in v.recipes \ R THEN Unset
                     ELSE IF "params" \in fields /\ d.params[r] # Unset THEN d.params[r]
                     ELSE IF r \in unset THEN Unset ELSE v.params[r]]
             S == [r \in Recipes |->
                     IF r \in v.recipes \ R THEN Unset
                     ELSE IF FilterSecrets(d)[r] # Unset THEN FilterSecrets(d)[r]
                     ELSE v.secrets[r]]
  <1>4. P \in [Recipes -> ParamValues]
    BY <1>1, DeclFacts DEF ParamValues
  <1>5. S \in [Recipes -> SecretValues]
    BY <1>1, DeclFacts DEF FilterSecrets, SecretValues
  <1>6. Patched(v, d, fields, unset) =
          [v EXCEPT !.cpus = k, !.recipes = R, !.params = P, !.secrets = S]
    BY <1>2, <1>3 DEF Patched
  <1>7. GivenFor(P, R)
    <2>1. "params" \in fields => GivenFor(d.params, R)
      BY <1>2 DEF Accepted
    <2>. QED
      BY <1>1, <2>1 DEF GivenFor
  <1>8. GivenFor(S, R)
    <2>1. GivenFor(FilterSecrets(d), R)
      BY <1>2 DEF Accepted
    <2>. QED
      BY <1>1, <2>1 DEF GivenFor
  <1> HIDE DEF P, S
  <1>9. [v EXCEPT !.cpus = k, !.recipes = R, !.params = P, !.secrets = S] \in CloudRecord
    BY <1>1, <1>4, <1>5 DEF CloudRecord
  <1>10. PICK w : w = [v EXCEPT !.cpus = k, !.recipes = R, !.params = P, !.secrets = S]
    OBVIOUS
  <1>11. w.recipes = R /\ w.params = P /\ w.secrets = S
    BY <1>1, <1>10 DEF CloudRecord
  <1>12. Consistent(w)
    BY <1>7, <1>8, <1>9, <1>10, <1>11 DEF Consistent
  <1>. QED
    BY <1>6, <1>10, <1>12

\* An update made of what Diff found leaves nothing for Diff to find.
LEMMA PatchConverges ==
    ASSUME NEW d \in Decls, NEW v, Consistent(v), GivenFor(d.params, d.recipes),
           NEW fields, fields = Diff(v, d),
           NEW unset, unset = (IF "params" \in fields THEN RemovedParams(v, d) ELSE {})
    PROVE  LET w == Patched(v, d, fields, unset)
           IN  /\ Diff(w, d) = {}
               /\ \A r \in d.recipes : d.secrets[r] # Unset => w.secrets[r] = d.secrets[r]
  <1>1. /\ v.recipes \in SUBSET Recipes
        /\ v \in CloudRecord /\ v.params \in [Recipes -> ParamValues]
        /\ GivenFor(v.params, v.recipes)
    BY DEF Consistent, CloudRecord
  <1>2. /\ "cpus" \in fields <=> d.cpus # 0 /\ d.cpus # v.cpus
        /\ "recipes" \in fields <=> d.recipes # v.recipes
        /\ "params" \in fields <=> d.params # v.params
    BY DEF Diff
  <1> DEFINE P == [r \in Recipes |->
                     IF r \in v.recipes \ d.recipes THEN Unset
                     ELSE IF "params" \in fields /\ d.params[r] # Unset THEN d.params[r]
                     ELSE IF r \in unset THEN Unset ELSE v.params[r]]
             S == [r \in Recipes |->
                     IF r \in v.recipes \ d.recipes THEN Unset
                     ELSE IF FilterSecrets(d)[r] # Unset THEN FilterSecrets(d)[r]
                     ELSE v.secrets[r]]
  <1>3. PICK k : k = (IF "cpus" \in fields THEN d.cpus ELSE v.cpus)
    OBVIOUS
  <1>4. (IF "recipes" \in fields THEN d.recipes ELSE v.recipes) = d.recipes
    BY <1>2
  <1>5. Patched(v, d, fields, unset) =
          [v EXCEPT !.cpus = k, !.recipes = d.recipes, !.params = P, !.secrets = S]
    BY <1>3, <1>4 DEF Patched
  <1>6. P = d.params
    <2>1. \A r \in Recipes : P[r] = d.params[r]
      <3> SUFFICES ASSUME NEW r \in Recipes PROVE P[r] = d.params[r]
        OBVIOUS
      <3>1. CASE r \in v.recipes \ d.recipes
        BY <3>1 DEF GivenFor
      <3>2. CASE r \notin v.recipes \ d.recipes /\ "params" \notin fields
        BY <1>2, <3>2
      <3>3. CASE r \notin v.recipes \ d.recipes /\ "params" \in fields /\ d.params[r] # Unset
        BY <3>3
      <3>4. CASE r \notin v.recipes \ d.recipes /\ "params" \in fields /\ d.params[r] = Unset
        <4>1. CASE r \in unset
          BY <3>4, <4>1
        <4>2. CASE r \notin unset
          <5>1. v.params[r] = Unset
            BY <1>1, <3>4, <4>2 DEF RemovedParams, GivenFor
          <5>. QED
            BY <3>4, <4>2, <5>1
        <4>. QED
          BY <4>1, <4>2
      <3>. QED
        BY <3>1, <3>2, <3>3, <3>4
    <2>. QED
      BY <2>1, DeclFacts
  <1>7. \A r \in d.recipes : d.secrets[r] # Unset => S[r] = d.secrets[r]
    BY DeclFacts DEF FilterSecrets
  <1> HIDE DEF P, S
  <1>8. PICK w : w = [v EXCEPT !.cpus = k, !.recipes = d.recipes, !.params = P, !.secrets = S]
    OBVIOUS
  <1>9. w.cpus = k /\ w.recipes = d.recipes /\ w.params = P /\ w.secrets = S
    BY <1>1, <1>8 DEF CloudRecord
  <1>10. d.cpus # 0 => k = d.cpus
    BY <1>2, <1>3
  <1>11. Diff(w, d) = {}
    BY <1>6, <1>9, <1>10 DEF Diff
  <1>12. \A r \in d.recipes : d.secrets[r] # Unset => w.secrets[r] = d.secrets[r]
    BY <1>7, <1>9
  <1>13. Patched(v, d, fields, unset) = w
    BY <1>5, <1>8
  <1>. QED
    BY <1>11, <1>12, <1>13

-----------------------------------------------------------------------------
(* The inductive invariant of the cloud *)

\* The operation a place waits for.
Awaited(place) ==
    CASE place = "insWait" -> "insert" [] place = "startWait" -> "start"
      [] place = "stopWait" -> "stop" [] place = "deleteWait" -> "delete"

\* The places of Destroy between its load of the record and its deletion.
Destroying == {"instanceDelete", "deleteWait", "ruleDelete", "recordDelete"}

\* What a process relies on where it is: the record it starts from and the rule
\* it inserts under are there, the record it destroys is the one it loaded, what
\* it deletes next is no longer used, the operation it waits for is going on,
\* and the deadline it promises will hold, unless it saw no hard one.
Placed(p) ==
    /\ PC(p) \in {"firewall", "insert", "instanceStart"} =>
         Recorded(Site(p)) \/ Site(p) \in unowned
    /\ PC(p) \in Destroying => pinned[At(p)] = proc[p].gcp
    /\ PC(p) = "insert" => rule[Site(p)]
    /\ PC(p) \in {"ruleDelete", "recordDelete"} => inst[Site(p)] = "none"
    /\ PC(p) = "recordDelete" => ~rule[Site(p)]
    /\ PC(p) = "sweep" => \A n \in VMs \ proc[p].seen : inst[<<n, Listed>>] = "none"
    /\ PC(p) \in Waits => flight[Site(p)] = Awaited(PC(p))
    /\ PC(p) = "setLabels" /\ ~proc[p].blind =>
         /\ proc[p].due <= Limit
         /\ inst[Site(p)] = "RUNNING" => proc[p].due <= hard[Site(p)]

DataTypes ==
    /\ file \in [VMs -> Decls] /\ served \in [VMs -> Decls]
    /\ rec \in [VMs -> {NoRecord} \cup CloudRecord]
    /\ pinned \in [VMs -> Gcps]
    /\ inst \in [Sites -> Statuses]
    /\ flight \in [Sites -> {"none", "insert", "start", "stop", "delete"}]
    /\ rule \in [Sites -> BOOLEAN]
    /\ hard \in [Sites -> NoDeadline .. Limit] /\ soft \in [Sites -> Nat \cup {NoDeadline}]
    /\ unowned \subseteq Sites /\ blind \subseteq Sites

\* An operation goes on in the status it put the instance in.
FlightInv ==
    \A s \in Sites : /\ flight[s] \in {"insert", "start"} => inst[s] = "STAGING"
                     /\ flight[s] \in {"stop", "delete"} => inst[s] = "STOPPING"

\* A promised deadline, but for one given blindly, lies within the run-time
\* limit, and within what is left of it while the instance runs.
Promised ==
    \A s \in Sites \ blind : /\ soft[s] <= Limit
                             /\ inst[s] = "RUNNING" => soft[s] <= hard[s]

RecordInv == \A n \in VMs : rec[n] # NoRecord => Consistent(rec[n])

Locking ==
    /\ lock \in Callers \cup {Nobody}
    /\ \A p \in Callers : (lock = p) <=> PC(p) \in LockPlaces

\* No two processes wait for one operation.
OneWaiter ==
    \A p, q \in Callers : PC(p) \in Waits /\ PC(q) \in Waits /\ Site(p) = Site(q) => p = q

ProcInv ==
    /\ DOMAIN proc = Callers /\ proc = [p \in Callers |-> proc[p]]
    /\ \A p \in Callers : Proper(proc[p])

CloudInv ==
    /\ DataTypes /\ FlightInv /\ RecordInv /\ ProcInv /\ Locking /\ OneWaiter
    /\ \A p \in Callers : Placed(p)
    /\ InstanceRecorded /\ Promised

\* What a process does.
Acts(p) == Step(p) \/ LoseContact(p) \/ KillCommand(p) \/ FanOut(p) \/ Prune(p) \/ Extend(p)

-----------------------------------------------------------------------------
(* A step of a process: where it goes, and the lock *)

\* p goes to one of the places.
To(p, places) ==
    \E me : Proper(me) /\ me.pc \in places /\ proc' = [proc EXCEPT ![p] = me]

\* p goes somewhere, and holds the lock there exactly if it should.
Shape(p) ==
    \E me : /\ Proper(me) /\ proc' = [proc EXCEPT ![p] = me]
            /\ me.pc \in LockPlaces => lock' = p /\ lock \in {p, Nobody}
            /\ me.pc \notin LockPlaces => lock' = IF lock = p THEN Nobody ELSE lock

LEMMA OutShape ==
    ASSUME NEW p, NEW S, To(p, S), S \cap LockPlaces = {},
           lock' = IF lock = p THEN Nobody ELSE lock
    PROVE  Shape(p)
  BY DEF To, Shape

LEMMA InShape ==
    ASSUME NEW p, NEW S, To(p, S), S \subseteq LockPlaces, lock' = p, lock \in {p, Nobody}
    PROVE  Shape(p)
  BY DEF To, Shape

\* Go to a place, or out of the VM-level function.
LEMMA GoPlace ==
    ASSUME ProcInv, NEW p \in Callers, PC(p) # "idle",
           NEW place \in Places \ {"idle", "load", "create", "diff", "update"},
           place \notin Nowhere => proc[p].todo # <<>>, Go(p, place)
    PROVE  To(p, {place}) /\ proc'[p] = [proc[p] EXCEPT !.pc = place]
  <1>1. Proper(proc[p]) /\ proc[p].pc # "idle" /\ p \in DOMAIN proc
    BY DEF ProcInv, PC
  <1>2. /\ Proper(Moved(proc[p], place)) /\ Moved(proc[p], place).pc = place
        /\ Moved(proc[p], place) = [proc[p] EXCEPT !.pc = place]
    BY <1>1, MovedProper
  <1>3. proc' = [proc EXCEPT ![p] = Moved(proc[p], place)]
    BY DEF Go, Set
  <1>. QED
    BY <1>1, <1>2, <1>3 DEF To

LEMMA GoOut ==
    ASSUME ProcInv, NEW p \in Callers, PC(p) # "idle",
           NEW how \in {"ok", "failed"}, Go(p, how)
    PROVE  To(p, Starts)
  <1>1. Proper(proc[p]) /\ proc[p].pc # "idle"
    BY DEF ProcInv, PC
  <1>2. Proper(Moved(proc[p], how)) /\ Moved(proc[p], how).pc \in Starts
    BY <1>1, MovedProper
  <1>. QED
    BY <1>2 DEF To, Go, Set

LEMMA StartsAreFree == Starts \cap LockPlaces = {}
  BY DEF Starts, LockPlaces

LEMMA ReturnShape ==
    ASSUME ProcInv, NEW p \in Callers, PC(p) # "idle",
           NEW how \in {"ok", "failed"}, Return(p, how)
    PROVE  Shape(p)
  BY GoOut, StartsAreFree, OutShape DEF Return, Unlock

\* A step without the lock keeps it as it is.
LEMMA QuietShape ==
    ASSUME Locking, NEW p \in Callers, PC(p) \notin LockPlaces, lock' = lock,
           NEW S, To(p, S), S \cap LockPlaces = {}
    PROVE  Shape(p)
  <1>1. lock # p
    BY DEF Locking
  <1>. QED
    BY <1>1, OutShape

\* A process that is at a VM.
LEMMA AtFacts ==
    ASSUME ProcInv, NEW p \in Callers, PC(p) \notin Nowhere
    PROVE  /\ proc[p].todo # <<>> /\ At(p) \in VMs /\ Site(p) \in Sites
           /\ Site(p)[1] = At(p) /\ Site(p)[2] = proc[p].gcp /\ proc[p].gcp \in Gcps
           /\ proc[p].cmd \in Ups => Declared(p) \in Decls
  <1>1. Proper(proc[p]) /\ proc[p].todo \in Seq(VMs)
    BY DEF ProcInv, Proper, Process
  <1>2. proc[p].todo # <<>>
    BY <1>1 DEF Proper, PC
  <1>3. At(p) \in VMs
    BY <1>1, <1>2, HeadTailProperties DEF At
  <1>4. proc[p].gcp \in Gcps
    BY <1>1 DEF Proper, Process
  <1>5. Site(p) \in Sites /\ Site(p)[1] = At(p) /\ Site(p)[2] = proc[p].gcp
    BY <1>3, <1>4 DEF Site, Sites
  <1>. QED
    BY <1>1, <1>2, <1>3, <1>4, <1>5 DEF Proper, Declared

\* The site a record names.
LEMMA PlaceFacts ==
    ASSUME DataTypes, NEW n \in VMs
    PROVE  /\ Place(n) \in Sites /\ Place(n)[1] = n /\ Place(n)[2] = pinned[n]
           /\ pinned[n] \in Gcps /\ <<n, Listed>> \in Sites
  BY RemoteAssumption DEF Place, Sites, DataTypes

\* A process that goes on with the GCP project of the record it loaded.
LEMMA LoadedTo ==
    ASSUME ProcInv, DataTypes, NEW p \in Callers, PC(p) \notin Nowhere,
           NEW place \in {"startLock", "instanceStop", "instanceDelete"},
           Set(p, [proc[p] EXCEPT !.pc = place, !.gcp = pinned[At(p)]])
    PROVE  /\ To(p, {place}) /\ PC(p)' = place
           /\ At(p)' = At(p) /\ proc'[p].gcp = pinned[At(p)]
  <1>1. Proper(proc[p]) /\ p \in DOMAIN proc /\ proc[p].todo # <<>> /\ At(p) \in VMs
    BY AtFacts DEF ProcInv
  <1>2. PICK g \in Gcps : g = pinned[At(p)]
    BY <1>1 DEF DataTypes
  <1>3. PICK me : me = [proc[p] EXCEPT !.pc = place, !.gcp = g]
    OBVIOUS
  <1>4. place \in Places \ {"idle", "load", "create", "diff", "update"}
    BY DEF Places
  <1>5. /\ me \in Process /\ me.pc = place /\ me.cmd = proc[p].cmd /\ me.gcp = g
        /\ me.proj = proc[p].proj /\ me.todo = proc[p].todo
    BY <1>1, <1>3, <1>4 DEF Proper, Process
  <1>6. Proper(me)
    BY <1>1, <1>4, <1>5 DEF Proper, PC, Nowhere
  <1>7. proc' = [proc EXCEPT ![p] = me]
    BY <1>2, <1>3 DEF Set
  <1>. QED
    BY <1>1, <1>2, <1>5, <1>6, <1>7 DEF To, PC, At

LEMMA ReconciledTo ==
    ASSUME ProcInv, NEW p \in Callers, PC(p) \in {"create", "diff", "update"}, Reconciled(p)
    PROVE  To(p, Starts \cup {"get", "startLoad"})
  <1>1. Proper(proc[p]) /\ proc[p].pc \notin Nowhere
    BY DEF ProcInv, PC, Nowhere
  <1>2. CASE proc[p].phase = "reconcile"
    <2>1. proc' = [proc EXCEPT ![p] = Done(proc[p])]
      BY <1>2 DEF Reconciled, Set
    <2>2. Proper(Done(proc[p])) /\ Done(proc[p]).pc \in Starts
      BY <1>1, DoneProper DEF Nowhere
    <2>. QED
      BY <2>1, <2>2 DEF To
  <1>3. CASE proc[p].phase # "reconcile"
    <2>1. PICK place \in {"get", "startLoad"} :
            proc' = [proc EXCEPT ![p] = [proc[p] EXCEPT !.pc = place, !.had = NoRecord, !.drift = {}]]
      BY <1>3 DEF Reconciled, Set
    <2>2. PICK me : me = [proc[p] EXCEPT !.pc = place, !.had = NoRecord, !.drift = {}]
      OBVIOUS
    <2>3. place \in Places /\ place \notin Nowhere
      BY DEF Places, Nowhere
    <2>4. me \in Process /\ me.pc = place /\ me.todo = proc[p].todo /\ me.cmd = proc[p].cmd
          /\ me.proj = proc[p].proj
      BY <1>1, <2>2, <2>3 DEF Proper, Process
    <2>5. Proper(me)
      BY <1>1, <2>3, <2>4 DEF Proper, Nowhere
    <2>. QED
      BY <2>1, <2>2, <2>4, <2>5 DEF To
  <1>. QED
    BY <1>2, <1>3

\* Steps that edit more of the process than its place.
LEMMA LoadTo ==
    ASSUME ProcInv, DataTypes, NEW p \in Callers, Load(p)
    PROVE  To(p, {"create", "diff"})
  <1>1. Proper(proc[p]) /\ PC(p) = "load" /\ proc[p].pc = "load"
    BY DEF ProcInv, PC, Load
  <1>2. At(p) \in VMs /\ proc[p].todo # <<>>
    BY <1>1, AtFacts DEF Nowhere
  <1>3. rec[At(p)] \in {NoRecord} \cup CloudRecord
    BY <1>2 DEF DataTypes
  <1>4. PICK place \in {"create", "diff"}, v \in {NoRecord} \cup CloudRecord :
          proc' = [proc EXCEPT ![p] = [proc[p] EXCEPT !.had = v, !.pc = place]]
    BY <1>3 DEF Load, Set
  <1>5. PICK me : me = [proc[p] EXCEPT !.had = v, !.pc = place]
    OBVIOUS
  <1>6. place \in Places
    BY DEF Places
  <1>7. /\ me \in Process /\ me.pc = place /\ me.todo = proc[p].todo /\ me.cmd = proc[p].cmd
        /\ me.proj = proc[p].proj
    BY <1>1, <1>5, <1>6 DEF Proper, Process
  <1>8. Proper(me)
    BY <1>1, <1>2, <1>7 DEF Proper
  <1>. QED
    BY <1>4, <1>5, <1>7, <1>8 DEF To

LEMMA DiffTo ==
    ASSUME ProcInv, NEW p \in Callers, DiffStep(p)
    PROVE  To(p, Starts \cup {"get", "startLoad", "update"})
  <1>1. Proper(proc[p]) /\ PC(p) = "diff" /\ proc[p].pc = "diff" /\ PC(p) # "idle"
    BY DEF ProcInv, PC, DiffStep
  <1>2. CASE Go(p, "failed")
    BY <1>1, <1>2, GoOut DEF To
  <1>3. CASE Reconciled(p)
    BY <1>1, <1>3, ReconciledTo DEF To
  <1>4. ASSUME Set(p, [proc[p] EXCEPT !.drift = Diff(rec[At(p)], Declared(p)), !.pc = "update"])
        PROVE  To(p, {"update"})
    <2>1. PICK D : D = Diff(rec[At(p)], Declared(p))
      OBVIOUS
    <2>2. D \in SUBSET {"cpus", "recipes", "params"}
      BY <2>1 DEF Diff
    <2>3. PICK me : me = [proc[p] EXCEPT !.drift = D, !.pc = "update"]
      OBVIOUS
    <2>4. /\ me \in Process /\ me.pc = "update" /\ me.todo = proc[p].todo /\ me.cmd = proc[p].cmd
          /\ me.proj = proc[p].proj
      BY <1>1, <2>2, <2>3 DEF Proper, Process, Places
    <2>5. Proper(me)
      BY <1>1, <2>4 DEF Proper, Nowhere
    <2>. QED
      BY <1>4, <2>1, <2>3, <2>4, <2>5 DEF To, Set
  <1>. QED
    BY <1>2, <1>3, <1>4 DEF DiffStep, To

\* An extension by d is accepted.
Extending(p, d) ==
    LET s == Place(At(p)) IN
    /\ hard[s] # NoDeadline => d <= hard[s]
    /\ Set(p, [proc[p] EXCEPT !.pc = "setLabels", !.gcp = pinned[At(p)], !.due = d,
                              !.label = soft[s], !.blind = hard[s] = NoDeadline])

LEMMA ListTo ==
    ASSUME ProcInv, NEW p \in Callers, PC(p) = "list",
           Set(p, [proc[p] EXCEPT !.pc = "sweep",
                                   !.seen = {n \in VMs : inst[<<n, Listed>>] # "none"}])
    PROVE  To(p, {"sweep"}) /\ proc'[p].seen = {n \in VMs : inst[<<n, Listed>>] # "none"}
  <1>1. Proper(proc[p]) /\ proc[p].pc = "list" /\ p \in DOMAIN proc
    BY DEF ProcInv, PC
  <1>2. PICK seen \in SUBSET VMs : seen = {n \in VMs : inst[<<n, Listed>>] # "none"}
    OBVIOUS
  <1>3. PICK me : me = [proc[p] EXCEPT !.pc = "sweep", !.seen = seen]
    OBVIOUS
  <1>4. /\ me \in Process /\ me.pc = "sweep" /\ me.cmd = proc[p].cmd /\ me.seen = seen
        /\ me.proj = proc[p].proj
    BY <1>1, <1>3 DEF Proper, Process, Places
  <1>5. Proper(me)
    BY <1>1, <1>4 DEF Proper, Nowhere
  <1>6. proc' = [proc EXCEPT ![p] = me]
    BY <1>2, <1>3 DEF Set
  <1>. QED
    BY <1>1, <1>2, <1>4, <1>5, <1>6 DEF To

LEMMA ExtendTo ==
    ASSUME ProcInv, DataTypes, NEW p \in Callers, PC(p) = "extendGet",
           NEW d \in Durations, Extending(p, d)
    PROVE  /\ To(p, {"setLabels"}) /\ PC(p)' = "setLabels" /\ proc'[p].due = d
           /\ Site(p)' = Place(At(p))
           /\ ~proc'[p].blind => hard[Place(At(p))] # NoDeadline
  <1>1. Proper(proc[p]) /\ proc[p].pc = "extendGet" /\ p \in DOMAIN proc
    BY DEF ProcInv, PC
  <1>2. At(p) \in VMs /\ proc[p].todo # <<>>
    BY AtFacts DEF Nowhere
  <1>3. PICK s : s = Place(At(p))
    OBVIOUS
  <1>4. s \in Sites /\ pinned[At(p)] \in Gcps /\ s = <<At(p), pinned[At(p)]>>
    BY <1>2, <1>3, PlaceFacts DEF Place
  <1>5. d \in Nat
    BY RemoteAssumption
  <1>6. PICK label \in Nat \cup {NoDeadline} : label = soft[s]
    BY <1>4 DEF DataTypes
  <1>7. PICK g \in Gcps, b \in BOOLEAN : g = pinned[At(p)] /\ b = (hard[s] = NoDeadline)
    BY <1>4
  <1>8. PICK me : me = [proc[p] EXCEPT !.pc = "setLabels", !.gcp = g, !.due = d, !.label = label,
                                      !.blind = b]
    OBVIOUS
  <1>9. /\ me \in Process /\ me.pc = "setLabels" /\ me.cmd = proc[p].cmd /\ me.due = d
        /\ me.proj = proc[p].proj /\ me.todo = proc[p].todo /\ me.gcp = g /\ me.blind = b
    BY <1>1, <1>5, <1>8 DEF Proper, Process, Places
  <1>10. Proper(me)
    BY <1>1, <1>2, <1>9 DEF Proper
  <1>11. proc' = [proc EXCEPT ![p] = me]
    BY <1>3, <1>6, <1>7, <1>8 DEF Set, Extending
  <1>12. proc'[p] = me
    BY <1>1, <1>11
  <1>13. Site(p)' = s
    BY <1>4, <1>7, <1>9, <1>12 DEF Site, At
  <1>. QED
    BY <1>3, <1>7, <1>9, <1>10, <1>11, <1>12, <1>13 DEF To, PC

LEMMA InvokeTo ==
    ASSUME ProcInv, DataTypes, NEW p \in Callers, NEW c \in Commands,
           NEW names \in Seq(VMs), c # "prune" => names # <<>>, Invoke(p, c, names)
    PROVE  To(p, Starts)
  <1>1. PICK g \in {<<>>} \cup [VMs -> Decls] :
          /\ g = IF c = "project_up" THEN served ELSE IF c = "up" THEN file ELSE <<>>
          /\ c \in Ups => g \in [VMs -> Decls]
    BY DEF DataTypes, Ups
  <1>2. PICK e \in Places : e = Entry(c)
    BY EntryFacts DEF Starts, Places, Waits
  <1>3. PICK j \in {"reconcile", "each"} : j = IF c = "up" THEN "reconcile" ELSE "each"
    OBVIOUS
  <1>4. PICK me : me = [Idle EXCEPT !.pc = e, !.cmd = c, !.todo = names, !.proj = g, !.phase = j]
    OBVIOUS
  <1>5. Idle \in Process
    BY IdleProper DEF Proper
  <1>6. /\ me \in Process /\ me.pc = e /\ me.cmd = c /\ me.todo = names /\ me.proj = g
    BY <1>4, <1>5 DEF Process
  <1>7. c = "prune" => e \in Nowhere
    BY <1>2 DEF Entry, Nowhere
  <1>8. Proper(me)
    BY <1>1, <1>2, <1>6, <1>7, EntryFacts DEF Proper
  <1>9. proc' = [proc EXCEPT ![p] = me]
    BY <1>1, <1>2, <1>3, <1>4 DEF Invoke, Set, Idle
  <1>. QED
    BY <1>2, <1>6, <1>8, <1>9, EntryFacts DEF To

\* Every step of a process goes somewhere it may be, and keeps the lock's rule.
LEMMA StepShape ==
    ASSUME DataTypes, ProcInv, Locking, NEW p \in Callers, Acts(p)
    PROVE  Shape(p)
  <1> DEFINE Outside == Starts \cup {"create", "diff", "update", "get", "startLoad", "startLock",
                                     "instanceStop", "stopWait", "destroyLock", "setLabels"}
  <1>1. Outside \cap LockPlaces = {}
    BY DEF Starts, LockPlaces
  <1>2. \A S : To(p, S) /\ S \subseteq Outside => To(p, Outside)
    BY DEF To
  <1> HIDE DEF Outside
  <1>3. ASSUME PC(p) \notin LockPlaces, lock' = lock, To(p, Outside)
        PROVE  Shape(p)
    BY <1>1, <1>3, QuietShape
  <1>4. ASSUME NEW place \in {"get", "startLoad", "startLock", "instanceStop", "stopWait",
                              "destroyLock", "setLabels"},
               PC(p) \notin Nowhere, Go(p, place)
        PROVE  To(p, Outside)
    <2>1. place \in Places \ {"idle", "load", "create", "diff", "update"} /\ proc[p].todo # <<>>
          /\ PC(p) # "idle"
      BY <1>4, AtFacts DEF Places, Waits, Nowhere
    <2>. QED
      BY <1>2, <1>4, <2>1, GoPlace DEF Outside
  <1>5. ASSUME NEW how \in {"ok", "failed"}, PC(p) # "idle", Go(p, how)
        PROVE  To(p, Outside)
    BY <1>2, <1>5, GoOut DEF Outside
  <1>6. ASSUME NEW place \in LockPlaces, PC(p) # "idle", place \notin Nowhere => PC(p) \notin Nowhere,
               Go(p, place), lock' = p, lock \in {p, Nobody}
        PROVE  Shape(p)
    <2>1. place \in Places \ {"idle", "load", "create", "diff", "update"}
          /\ (place \notin Nowhere => proc[p].todo # <<>>)
      BY <1>6, AtFacts DEF Places, Waits, LockPlaces
    <2>2. To(p, {place})
      BY <1>6, <2>1, GoPlace
    <2>. QED
      BY <1>6, <2>2, InShape
  <1>7. PC(p) \in LockPlaces => lock = p /\ PC(p) # "idle"
    BY DEF Locking, LockPlaces
  <1>8. CASE Load(p)
    <2>1. PC(p) = "load" /\ lock' = lock
      BY <1>8 DEF Load
    <2>. QED
      BY <1>2, <1>3, <1>8, <2>1, LoadTo DEF Outside, LockPlaces
  <1>9. CASE Create(p) \/ DiffStep(p) \/ Update(p)
    <2>1. PC(p) \in {"create", "diff", "update"} /\ PC(p) # "idle" /\ lock' = lock
      BY <1>9 DEF Create, DiffStep, Update
    <2>2. Go(p, "failed") \/ Reconciled(p) \/ DiffStep(p)
      BY <1>9 DEF Create, Update
    <2>3. To(p, Starts \cup {"get", "startLoad"}) => To(p, Outside)
      BY <1>2 DEF Outside
    <2>4. To(p, Starts \cup {"get", "startLoad", "update"}) => To(p, Outside)
      BY <1>2 DEF Outside
    <2>5. To(p, Outside)
      BY <1>5, <2>1, <2>2, <2>3, <2>4, ReconciledTo, DiffTo
    <2>. QED
      BY <1>3, <2>1, <2>5 DEF LockPlaces
  <1>10. CASE Get(p) \/ StartLoad(p) \/ StopState(p) \/ InstanceStop(p) \/ RmGet(p) \/ SetLabels(p)
    <2>1. /\ PC(p) \in {"get", "startLoad", "stopState", "instanceStop", "rmGet", "setLabels"}
          /\ lock' = lock
      BY <1>10 DEF Get, StartLoad, StopState, InstanceStop, RmGet, SetLabels
    <2>2. PC(p) \notin Nowhere /\ PC(p) # "idle" /\ PC(p) \notin LockPlaces
      BY <2>1 DEF Nowhere, LockPlaces
    <2>3. \/ \E place \in {"ok", "failed", "startLoad", "stopWait", "destroyLock"} : Go(p, place)
          \/ \E place \in {"startLock", "instanceStop"} :
               Set(p, [proc[p] EXCEPT !.pc = place, !.gcp = pinned[At(p)]])
      BY <1>10 DEF Get, StartLoad, StopState, InstanceStop, RmGet, SetLabels
    <2>4. To(p, Outside)
      BY <1>2, <1>4, <1>5, <2>2, <2>3, LoadedTo DEF Outside
    <2>. QED
      BY <1>3, <2>1, <2>2, <2>4
  <1>11. CASE ExtendGet(p)
    <2>1. PC(p) = "extendGet" /\ lock' = lock
      BY <1>11 DEF ExtendGet
    <2>2. CASE Go(p, "failed")
      BY <1>3, <1>5, <2>1, <2>2 DEF LockPlaces
    <2>3. ASSUME NEW d \in Durations, Extending(p, d) PROVE Shape(p)
      BY <1>2, <1>3, <2>1, <2>3, ExtendTo DEF Outside, LockPlaces
    <2>. QED
      BY <1>11, <2>2, <2>3 DEF ExtendGet, Extending
  <1>12. CASE StartLock(p) \/ DestroyLock(p) \/ PruneLock(p)
    <2>1. PC(p) \in {"startLock", "destroyLock", "pruneLock"} /\ PC(p) # "idle" /\ lock = Nobody
      BY <1>12 DEF StartLock, DestroyLock, PruneLock
    <2>2. \/ Return(p, "failed")
          \/ /\ PC(p) # "pruneLock" /\ lock' = p
             /\ \E place \in {"firewall", "instanceStart"} : Go(p, place)
          \/ /\ PC(p) # "pruneLock" /\ lock' = p
             /\ Set(p, [proc[p] EXCEPT !.pc = "instanceDelete", !.gcp = pinned[At(p)]])
          \/ Go(p, "list") /\ lock' = p
      BY <1>12 DEF StartLock, DestroyLock, PruneLock
    <2>3. ASSUME PC(p) # "pruneLock", lock' = p,
                 NEW place \in {"firewall", "instanceStart"}, Go(p, place)
          PROVE  Shape(p)
      BY <1>6, <2>1, <2>3 DEF LockPlaces, Nowhere
    <2>5. CASE /\ PC(p) # "pruneLock" /\ lock' = p
               /\ Set(p, [proc[p] EXCEPT !.pc = "instanceDelete", !.gcp = pinned[At(p)]])
      <3>1. To(p, {"instanceDelete"})
        BY <2>1, <2>5, LoadedTo DEF Nowhere
      <3>. QED
        BY <2>1, <2>5, <3>1, InShape DEF LockPlaces
    <2>4. CASE Go(p, "list") /\ lock' = p
      BY <1>6, <2>1, <2>4 DEF LockPlaces, Nowhere
    <2>. QED
      BY <2>1, <2>2, <2>3, <2>4, <2>5, ReturnShape
  <1>13. CASE Firewall(p) \/ Insert(p) \/ Undo(p) \/ InstanceStart(p) \/ InstanceDelete(p)
              \/ RuleDelete(p) \/ RecordDelete(p)
    <2>1. PC(p) \in {"firewall", "insert", "undo", "instanceStart", "instanceDelete", "ruleDelete",
                     "recordDelete"}
      BY <1>13 DEF Firewall, Insert, Undo, InstanceStart, InstanceDelete, RuleDelete, RecordDelete
    <2>2. PC(p) \in LockPlaces \ Nowhere
      BY <2>1 DEF LockPlaces, Nowhere
    <2>3. \/ Return(p, "ok") \/ Return(p, "failed")
          \/ /\ lock' = lock
             /\ \E place \in {"insert", "insWait", "undo", "startWait", "deleteWait", "recordDelete"} :
                  Go(p, place)
      BY <1>13 DEF Firewall, Insert, Undo, InstanceStart, InstanceDelete, RuleDelete, RecordDelete,
                   others
    <2>4. ASSUME lock' = lock,
                 NEW place \in {"insert", "insWait", "undo", "startWait", "deleteWait", "recordDelete"},
                 Go(p, place)
          PROVE  Shape(p)
      BY <1>6, <1>7, <2>2, <2>4 DEF LockPlaces
    <2>. QED
      BY <1>7, <2>2, <2>3, <2>4, ReturnShape
  <1>14. CASE List(p) \/ Sweep(p)
    <2>1. PC(p) \in {"list", "sweep"} /\ PC(p) \in LockPlaces
      BY <1>14 DEF List, Sweep, LockPlaces
    <2>2. CASE Return(p, "ok") \/ Return(p, "failed")
      BY <1>7, <2>1, <2>2, ReturnShape
    <2>3. CASE /\ PC(p) = "list" /\ lock' = lock
               /\ Set(p, [proc[p] EXCEPT !.pc = "sweep",
                                   !.seen = {n \in VMs : inst[<<n, Listed>>] # "none"}])
      BY <1>7, <2>1, <2>3, ListTo, InShape DEF LockPlaces
    <2>4. CASE UNCHANGED <<lock, proc>>
      <3>1. proc' = [proc EXCEPT ![p] = proc[p]] /\ Proper(proc[p]) /\ proc[p].pc \in LockPlaces
        BY <2>1, <2>4 DEF ProcInv, PC
      <3>. QED
        BY <1>7, <2>1, <2>4, <3>1 DEF Shape
    <2>. QED
      BY <1>14, <2>2, <2>3, <2>4 DEF List, Sweep
  <1>15. CASE LoseContact(p)
    <2>1. PC(p) \in Waits /\ PC(p) \notin Nowhere /\ PC(p) # "idle"
      BY <1>15 DEF LoseContact, Waits, Nowhere
    <2>2. CASE PC(p) = "insWait"
      <3>1. Go(p, "undo") /\ lock' = lock /\ PC(p) \in LockPlaces
        BY <1>15, <2>2 DEF LoseContact, LockPlaces
      <3>. QED
        BY <1>6, <1>7, <2>1, <3>1 DEF LockPlaces
    <2>3. CASE PC(p) # "insWait"
      BY <1>15, <2>1, <2>3, ReturnShape DEF LoseContact
    <2>. QED
      BY <2>2, <2>3
  <1>16. CASE KillCommand(p)
    <2>1. To(p, {"idle"}) /\ lock' = IF lock = p THEN Nobody ELSE lock
      BY <1>16, IdleProper DEF KillCommand, Set, To, Unlock, Idle
    <2>. QED
      BY <2>1, OutShape DEF LockPlaces
  <1>17. CASE FanOut(p) \/ Prune(p) \/ Extend(p)
    <2>1. \E c \in Commands : \E names \in Seq(VMs) :
            (c # "prune" => names # <<>>) /\ Invoke(p, c, names)
      <3>1. CASE FanOut(p)
        BY <3>1, OrderFacts DEF FanOut, Commands
      <3>2. CASE Prune(p)
        <4>1. <<>> \in Seq(VMs)
          OBVIOUS
        <4>. QED
          BY <3>2, <4>1 DEF Prune, Commands
      <3>3. CASE Extend(p)
        <4>1. \A n \in VMs : <<n>> \in Seq(VMs) /\ <<n>> # <<>>
          OBVIOUS
        <4>. QED
          BY <3>3, <4>1 DEF Extend, Commands, FanOuts
      <3>. QED
        BY <1>17, <3>1, <3>2, <3>3
    <2>2. To(p, Outside)
      BY <1>2, <2>1, InvokeTo DEF Outside
    <2>3. PC(p) \notin LockPlaces /\ lock' = lock
      BY <2>1 DEF Invoke, LockPlaces
    <2>. QED
      BY <1>3, <2>2, <2>3
  <1>. QED
    BY <1>8, <1>9, <1>10, <1>11, <1>12, <1>13, <1>14, <1>15, <1>16, <1>17 DEF Acts, Step

-----------------------------------------------------------------------------
(* A step of a process: what it does to the records and the cloud *)

\* What every other process may count on: an operation that goes on is left
\* alone, no instance begins to run, and without the lock no rule is touched, no
\* instance made, no record removed, and none pinned elsewhere or accounted for
\* while somebody holds it.
Effects(p) ==
    /\ hard' = hard
    /\ \A s \in Sites : flight[s] # "none" => flight'[s] = flight[s] /\ inst'[s] = inst[s]
    /\ \A s \in Sites : inst'[s] = "RUNNING" => inst[s] = "RUNNING"
    /\ PC(p) \notin LockPlaces =>
         /\ rule' = rule
         /\ lock # Nobody => pinned' = pinned /\ unowned \subseteq unowned'
         /\ \A s \in Sites : inst[s] = "none" => inst'[s] = "none"
         /\ \A n \in VMs : rec[n] # NoRecord => rec'[n] # NoRecord

\* A step that leaves the cloud alone.
LEMMA SameCloud ==
    ASSUME DataTypes, FlightInv, RecordInv, Promised, NEW p,
           UNCHANGED <<file, served, rec, pinned, inst, flight, rule, hard, soft, blind>>,
           unowned \subseteq unowned', unowned' \subseteq Sites
    PROVE  Effects(p) /\ DataTypes' /\ FlightInv' /\ RecordInv' /\ Promised'
  <1>1. DataTypes' /\ FlightInv' /\ RecordInv'
    BY DEF DataTypes, FlightInv, RecordInv
  <1>2. Promised'
    BY DEF Promised
  <1>. QED
    BY <1>1, <1>2 DEF Effects

\* A step that writes one record.
LEMMA OneRecord ==
    ASSUME DataTypes, FlightInv, RecordInv, Promised, NEW p, NEW n \in VMs, NEW v,
           v = NoRecord \/ Consistent(v), v = NoRecord => PC(p) \in LockPlaces,
           rec' = [rec EXCEPT ![n] = v],
           pinned' \in [VMs -> Gcps], unowned' \subseteq Sites,
           \/ PC(p) \in LockPlaces \/ lock = Nobody
           \/ UNCHANGED <<pinned, unowned>>,
           UNCHANGED <<file, served, inst, flight, rule, hard, soft, blind>>
    PROVE  Effects(p) /\ DataTypes' /\ FlightInv' /\ RecordInv' /\ Promised'
  <1>1. v \in {NoRecord} \cup CloudRecord
    BY DEF Consistent
  <1>2. DataTypes'
    BY <1>1 DEF DataTypes
  <1>3. RecordInv'
    BY DEF RecordInv, DataTypes
  <1>4. PC(p) \notin LockPlaces => \A x \in VMs : rec[x] # NoRecord => rec'[x] # NoRecord
    BY DEF DataTypes
  <1>5. FlightInv' /\ Promised'
    BY DEF FlightInv, Promised
  <1>. QED
    BY <1>2, <1>3, <1>4, <1>5 DEF Effects

\* A step that starts an operation, or that changes one rule or label.
LEMMA OneInstance ==
    ASSUME DataTypes, FlightInv, RecordInv, Promised, NEW p, NEW s \in Sites,
           NEW status \in {"STAGING", "STOPPING"}, NEW op \in {"insert", "start", "stop", "delete"},
           status = (IF op \in {"insert", "start"} THEN "STAGING" ELSE "STOPPING"),
           flight[s] = "none", inst[s] = "none" => PC(p) \in LockPlaces,
           inst' = [inst EXCEPT ![s] = status], flight' = [flight EXCEPT ![s] = op],
           UNCHANGED <<file, served, rec, pinned, rule, hard, soft, unowned, blind>>
    PROVE  Effects(p) /\ DataTypes' /\ FlightInv' /\ RecordInv' /\ Promised'
  <1>1. DataTypes'
    BY DEF DataTypes, Statuses
  <1>2. \A x \in Sites : /\ x # s => inst'[x] = inst[x] /\ flight'[x] = flight[x]
                         /\ x = s => inst'[x] = status /\ flight'[x] = op
    BY DEF DataTypes
  <1>3. FlightInv'
    BY <1>2 DEF FlightInv
  <1>4. RecordInv'
    BY DEF RecordInv
  <1>5. Promised'
    BY <1>2 DEF Promised
  <1>. QED
    BY <1>1, <1>2, <1>3, <1>4, <1>5 DEF Effects

LEMMA OneRule ==
    ASSUME DataTypes, FlightInv, RecordInv, Promised, NEW p, PC(p) \in LockPlaces,
           rule' \in [Sites -> BOOLEAN],
           UNCHANGED <<file, served, rec, pinned, inst, flight, hard, soft, unowned, blind>>
    PROVE  Effects(p) /\ DataTypes' /\ FlightInv' /\ RecordInv' /\ Promised'
  <1>1. DataTypes' /\ FlightInv' /\ RecordInv'
    BY DEF DataTypes, FlightInv, RecordInv
  <1>2. Promised'
    BY DEF Promised
  <1>. QED
    BY <1>1, <1>2 DEF Effects

LEMMA StepEffects ==
    ASSUME DataTypes, FlightInv, RecordInv, ProcInv, Promised,
           NEW p \in Callers, Placed(p), Acts(p)
    PROVE  Effects(p) /\ DataTypes' /\ FlightInv' /\ RecordInv' /\ Promised'
  <1> USE DEF others, gce, histories, bounds
  <1>1. CASE \/ Load(p) \/ DiffStep(p) \/ Get(p) \/ StartLoad(p) \/ StartLock(p) \/ StopState(p)
             \/ RmGet(p) \/ DestroyLock(p) \/ PruneLock(p) \/ List(p) \/ ExtendGet(p)
             \/ LoseContact(p) \/ KillCommand(p) \/ FanOut(p) \/ Prune(p) \/ Extend(p)
    <2>2. StartLock(p) => Site(p) \in Sites
      BY AtFacts DEF StartLock, Nowhere
    <2>3. unowned \subseteq Sites
      BY DEF DataTypes
    <2>1. /\ UNCHANGED <<file, served, rec, pinned, inst, flight, rule, hard, soft, blind>>
          /\ unowned' = unowned \/ (StartLock(p) /\ unowned' = unowned \cup {Site(p)})
      BY <1>1 DEF Load, DiffStep, Get, StartLoad, StartLock, StopState, RmGet, DestroyLock, PruneLock,
           List, ExtendGet, LoseContact, KillCommand, FanOut, Prune, Extend, Invoke
    <2>. QED
      BY <2>1, <2>2, <2>3, SameCloud
  <1>2. CASE Create(p)
    <2>1. PC(p) = "create" /\ At(p) \in VMs /\ Declared(p) \in Decls
      <3>1. PC(p) = "create" /\ PC(p) \notin Nowhere
        BY <1>2 DEF Create, Nowhere
      <3>2. proc[p].cmd \in Ups
        BY <3>1 DEF ProcInv, Proper, PC
      <3>. QED
        BY <3>1, <3>2, AtFacts
    <2>2. CASE /\ GivenFor(Declared(p).params, Declared(p).recipes)
               /\ GivenFor(Declared(p).secrets, Declared(p).recipes)
               /\ rec' = [rec EXCEPT ![At(p)] = RecordOf(Declared(p))]
               /\ pinned' = [pinned EXCEPT ![At(p)] = Listed]
               /\ unowned' = unowned \ {<<At(p), Listed>>}
      <3>2. pinned' \in [VMs -> Gcps] /\ unowned' \subseteq Sites
        BY <2>2, RemoteAssumption DEF DataTypes
      <3>1. Consistent(RecordOf(Declared(p))) /\ RecordOf(Declared(p)) # NoRecord
        BY <2>1, <2>2, CreatedFacts, RecordsAreRecords DEF Consistent
      <3>. QED
        BY <1>2, <2>1, <2>2, <3>1, <3>2, OneRecord DEF Create
    <2>3. CASE UNCHANGED <<rec, pinned, unowned>>
      BY <1>2, <2>3, SameCloud DEF Create, DataTypes
    <2>. QED
      BY <1>2, <2>2, <2>3 DEF Create
  <1>3. CASE Update(p)
    <2>1. PC(p) = "update" /\ At(p) \in VMs /\ Declared(p) \in Decls
      <3>1. PC(p) = "update" /\ PC(p) \notin Nowhere
        BY <1>3 DEF Update, Nowhere
      <3>2. proc[p].cmd \in Ups
        BY <3>1 DEF ProcInv, Proper, PC
      <3>. QED
        BY <3>1, <3>2, AtFacts
    <2>2. PICK unset :
            unset = IF "params" \in proc[p].drift THEN RemovedParams(proc[p].had, Declared(p)) ELSE {}
      OBVIOUS
    <2>3. CASE /\ rec[At(p)] # NoRecord
               /\ Accepted(rec[At(p)], Declared(p), proc[p].drift, unset)
               /\ rec' = [rec EXCEPT ![At(p)] =
                            Patched(rec[At(p)], Declared(p), proc[p].drift, unset)]
      <3>1. Consistent(rec[At(p)])
        BY <2>1, <2>3 DEF RecordInv
      <3>2. PICK w : w = Patched(rec[At(p)], Declared(p), proc[p].drift, unset)
        OBVIOUS
      <3>3. Consistent(w)
        BY <2>1, <2>3, <3>1, <3>2, PatchedFacts
      <3>4. w # NoRecord
        BY <3>3, RecordsAreRecords DEF Consistent
      <3>. QED
        BY <1>3, <2>1, <2>3, <3>2, <3>3, <3>4, OneRecord DEF Update, DataTypes
    <2>4. CASE UNCHANGED rec
      BY <1>3, <2>4, SameCloud DEF Update, DataTypes
    <2>. QED
      BY <1>3, <2>2, <2>3, <2>4 DEF Update
  <1>4. CASE RecordDelete(p) \/ Sweep(p)
    <2>1. PC(p) \in {"recordDelete", "sweep"} /\ PC(p) \in LockPlaces
      BY <1>4 DEF RecordDelete, Sweep, LockPlaces
    <2>2. PC(p) = "recordDelete" => At(p) \in VMs
      BY AtFacts DEF Nowhere
    <2>3. \/ UNCHANGED <<rec, pinned, unowned>>
          \/ \E n \in VMs : /\ rec' = [rec EXCEPT ![n] = NoRecord]
                            /\ pinned' = [pinned EXCEPT ![n] = Listed]
                            /\ unowned' = unowned \/ unowned' = unowned \cup {Place(n)}
      BY <1>4, <2>2 DEF RecordDelete, Sweep, Stale, Drop
    <2>4. UNCHANGED <<file, served, inst, flight, rule, hard, soft, blind>>
      BY <1>4 DEF RecordDelete, Sweep
    <2>5. CASE UNCHANGED <<rec, pinned, unowned>>
      BY <2>4, <2>5, SameCloud DEF DataTypes
    <2>6. ASSUME NEW n \in VMs, rec' = [rec EXCEPT ![n] = NoRecord],
                 pinned' = [pinned EXCEPT ![n] = Listed],
                 unowned' = unowned \/ unowned' = unowned \cup {Place(n)}
          PROVE  Effects(p) /\ DataTypes' /\ FlightInv' /\ RecordInv' /\ Promised'
      <3>1. pinned' \in [VMs -> Gcps] /\ unowned' \subseteq Sites
        <4>1. Place(n) \in Sites
          BY PlaceFacts
        <4>2. unowned' \subseteq Sites
          BY <2>6, <4>1 DEF DataTypes
        <4>3. pinned' \in [VMs -> Gcps]
          BY <2>6, RemoteAssumption DEF DataTypes
        <4>. QED
          BY <4>2, <4>3
      <3>. QED
        BY <2>1, <2>4, <2>6, <3>1, OneRecord
    <2>. QED
      BY <2>3, <2>5, <2>6
  <1>5. CASE Insert(p) \/ InstanceStart(p) \/ InstanceStop(p) \/ InstanceDelete(p)
    <2>1. Site(p) \in Sites
      BY <1>5, AtFacts DEF Insert, InstanceStart, InstanceStop, InstanceDelete, Nowhere
    <2>2. UNCHANGED <<file, served, rec, pinned, rule, hard, soft, unowned, blind>>
      BY <1>5 DEF Insert, InstanceStart, InstanceStop, InstanceDelete
    <2>3. CASE UNCHANGED <<inst, flight>>
      BY <2>2, <2>3, SameCloud DEF DataTypes
    <2>4. flight[Site(p)] \in {"none", "insert", "start", "stop", "delete"}
      BY <2>1 DEF DataTypes
    <2>5. CASE /\ inst[Site(p)] = "none" /\ PC(p) = "insert"
               /\ inst' = [inst EXCEPT ![Site(p)] = "STAGING"]
               /\ flight' = [flight EXCEPT ![Site(p)] = "insert"]
      <3>1. flight[Site(p)] = "none" /\ PC(p) \in LockPlaces
        BY <2>1, <2>4, <2>5 DEF FlightInv, LockPlaces
      <3>. QED
        BY <2>1, <2>2, <2>5, <3>1, OneInstance
    <2>6. CASE /\ inst[Site(p)] = "TERMINATED" /\ inst' = [inst EXCEPT ![Site(p)] = "STAGING"]
               /\ flight' = [flight EXCEPT ![Site(p)] = "start"]
      <3>1. flight[Site(p)] = "none"
        BY <2>1, <2>4, <2>6 DEF FlightInv
      <3>. QED
        BY <2>1, <2>2, <2>6, <3>1, OneInstance
    <2>7. CASE /\ inst[Site(p)] = "RUNNING" /\ flight[Site(p)] = "none"
               /\ inst' = [inst EXCEPT ![Site(p)] = "STOPPING"]
               /\ flight' = [flight EXCEPT ![Site(p)] = "stop"]
      BY <2>1, <2>2, <2>7, OneInstance
    <2>8. CASE /\ inst[Site(p)] # "none" /\ flight[Site(p)] = "none"
               /\ inst' = [inst EXCEPT ![Site(p)] = "STOPPING"]
               /\ flight' = [flight EXCEPT ![Site(p)] = "delete"]
      BY <2>1, <2>2, <2>8, OneInstance
    <2>. QED
      BY <1>5, <2>3, <2>5, <2>6, <2>7, <2>8 DEF Insert, InstanceStart, InstanceStop, InstanceDelete
  <1>6. CASE Firewall(p) \/ Undo(p) \/ RuleDelete(p)
    <2>1. PC(p) \in LockPlaces
      BY <1>6 DEF Firewall, Undo, RuleDelete, LockPlaces
    <2>2. rule' \in [Sites -> BOOLEAN]
      BY <1>6 DEF Firewall, Undo, RuleDelete, DataTypes
    <2>3. UNCHANGED <<file, served, rec, pinned, inst, flight, hard, soft, unowned, blind>>
      BY <1>6 DEF Firewall, Undo, RuleDelete
    <2>. QED
      BY <2>1, <2>2, <2>3, OneRule
  <1>7. CASE SetLabels(p)
    <2>1. PC(p) = "setLabels" /\ Site(p) \in Sites
      BY <1>7, AtFacts DEF SetLabels, Nowhere
    <2>2. UNCHANGED <<file, served, rec, pinned, inst, flight, rule, hard, unowned>>
      BY <1>7 DEF SetLabels
    <2>3. CASE UNCHANGED <<soft, blind>>
      BY <2>2, <2>3, SameCloud DEF DataTypes
    <2>4. CASE /\ soft' = [soft EXCEPT ![Site(p)] = proc[p].due]
               /\ blind' = IF proc[p].blind THEN blind \cup {Site(p)} ELSE blind \ {Site(p)}
      <3>1. proc[p].due \in Nat /\ proc[p].blind \in BOOLEAN
        BY DEF ProcInv, Proper, Process
      <3>2. blind' \subseteq Sites
        BY <2>1, <2>4, <3>1 DEF DataTypes
      <3>3. DataTypes'
        BY <2>1, <2>2, <2>4, <3>1, <3>2 DEF DataTypes
      <3>4. Promised'
        <4>1. \A s \in Sites : /\ s # Site(p) => soft'[s] = soft[s] /\ (s \in blind' <=> s \in blind)
                               /\ s = Site(p) => /\ soft'[s] = proc[p].due
                                                 /\ s \notin blind' => ~proc[p].blind
          BY <2>1, <2>4, <3>1 DEF DataTypes
        <4>2. ~proc[p].blind => /\ proc[p].due <= Limit
                                /\ inst[Site(p)] = "RUNNING" => proc[p].due <= hard[Site(p)]
          BY <2>1 DEF Placed
        <4>. QED
          BY <2>2, <4>1, <4>2 DEF Promised
      <3>5. FlightInv' /\ RecordInv'
        BY <2>2 DEF FlightInv, RecordInv
      <3>. QED
        BY <2>2, <3>3, <3>4, <3>5 DEF Effects
    <2>. QED
      BY <1>7, <2>3, <2>4 DEF SetLabels
  <1>. QED
    BY <1>1, <1>2, <1>3, <1>4, <1>5, <1>6, <1>7 DEF Acts, Step

-----------------------------------------------------------------------------
(* A step of a process: the processes after it *)

LEMMA ShapeKeeps ==
    ASSUME ProcInv, Locking, NEW p \in Callers, Shape(p)
    PROVE  /\ ProcInv' /\ Locking'
           /\ \A q \in Callers \ {p} : proc'[q] = proc[q]
  <1>1. PICK me : /\ Proper(me) /\ proc' = [proc EXCEPT ![p] = me]
                  /\ me.pc \in LockPlaces => lock' = p /\ lock \in {p, Nobody}
                  /\ me.pc \notin LockPlaces => lock' = IF lock = p THEN Nobody ELSE lock
    BY DEF Shape
  <1>2. /\ proc'[p] = me /\ \A q \in Callers \ {p} : proc'[q] = proc[q]
        /\ DOMAIN proc' = Callers /\ proc' = [q \in Callers |-> proc'[q]]
    BY <1>1 DEF ProcInv
  <1>3. ProcInv'
    BY <1>1, <1>2 DEF ProcInv
  <1>4. Nobody \notin Callers
    BY RemoteAssumption
  <1>5. Locking'
    <2>1. CASE me.pc \in LockPlaces
      <3>1. \A q \in Callers \ {p} : PC(q) \notin LockPlaces
        BY <1>1, <1>4, <2>1 DEF Locking
      <3>. QED
        BY <1>1, <1>2, <2>1, <3>1 DEF Locking, PC
    <2>2. CASE me.pc \notin LockPlaces /\ lock = p
      BY <1>1, <1>2, <1>4, <2>2 DEF Locking, PC
    <2>3. CASE me.pc \notin LockPlaces /\ lock # p
      BY <1>1, <1>2, <2>3 DEF Locking, PC
    <2>. QED
      BY <2>1, <2>2, <2>3
  <1>. QED
    BY <1>2, <1>3, <1>5

\* The places a process relies on something at.
PlacedPlaces ==
    Waits \cup {"firewall", "insert", "instanceStart", "instanceDelete", "ruleDelete",
                "recordDelete", "sweep", "setLabels"}

\* What another process relies on survives the step.
LEMMA OthersPlaced ==
    ASSUME ProcInv, Locking, NEW p \in Callers, Effects(p),
           NEW q \in Callers \ {p}, proc'[q] = proc[q], Placed(q)
    PROVE  Placed(q)'
  <1>1. /\ PC(q)' = PC(q) /\ At(q)' = At(q) /\ Site(q)' = Site(q)
        /\ proc'[q].gcp = proc[q].gcp /\ proc'[q].seen = proc[q].seen
        /\ proc'[q].due = proc[q].due /\ proc'[q].blind = proc[q].blind
    BY DEF PC, At, Site
  <1>2. PC(q) \in LockPlaces => PC(p) \notin LockPlaces /\ lock # Nobody
    BY RemoteAssumption DEF Locking
  <1>3. PC(q) \notin Nowhere =>
          At(q) \in VMs /\ Site(q) \in Sites /\ Site(q)[1] = At(q)
    BY AtFacts
  <1>10. PC(q) \in Destroying => pinned'[At(q)] = proc[q].gcp
    <2> SUFFICES ASSUME PC(q) \in Destroying PROVE pinned'[At(q)] = proc[q].gcp
      OBVIOUS
    <2>1. PC(q) \in LockPlaces
      BY DEF Destroying, LockPlaces
    <2>. QED
      BY <1>2, <2>1 DEF Placed, Effects
  <1>4. CASE PC(q) \in {"firewall", "insert", "instanceStart"}
    <2>1. /\ PC(p) \notin LockPlaces /\ lock # Nobody
          /\ At(q) \in VMs /\ Site(q) \in Sites /\ Site(q)[1] = At(q)
      BY <1>2, <1>3, <1>4 DEF LockPlaces, Nowhere
    <2>2. Recorded(Site(q))' \/ Site(q) \in unowned'
      BY <1>1, <1>4, <2>1 DEF Placed, Effects, Recorded
    <2>3. PC(q) = "insert" => rule'[Site(q)]
      BY <2>1 DEF Placed, Effects
    <2>. QED
      BY <1>1, <1>4, <2>2, <2>3 DEF Placed, Waits, Destroying
  <1>5. CASE PC(q) \in {"ruleDelete", "recordDelete"}
    <2>1. PC(p) \notin LockPlaces /\ Site(q) \in Sites
      BY <1>2, <1>3, <1>5 DEF LockPlaces, Nowhere
    <2>2. inst'[Site(q)] = "none" /\ (PC(q) = "recordDelete" => ~rule'[Site(q)])
      BY <1>5, <2>1 DEF Placed, Effects
    <2>. QED
      BY <1>1, <1>5, <1>10, <2>2 DEF Placed, Waits
  <1>6. CASE PC(q) = "sweep"
    <2>1. PC(p) \notin LockPlaces
      BY <1>2, <1>6 DEF LockPlaces
    <2>2. \A n \in VMs \ proc[q].seen : inst'[<<n, Listed>>] = "none"
      BY <1>6, <2>1, RemoteAssumption DEF Placed, Effects, Sites
    <2>. QED
      BY <1>1, <1>6, <2>2 DEF Placed, Waits, Destroying
  <1>7. CASE PC(q) \in Waits
    <2>1. Site(q) \in Sites
      BY <1>3, <1>7 DEF Waits, Nowhere
    <2>2. flight[Site(q)] = Awaited(PC(q)) /\ Awaited(PC(q)) # "none"
      BY <1>7 DEF Placed, Awaited, Waits
    <2>3. flight'[Site(q)] = Awaited(PC(q))
      BY <2>1, <2>2 DEF Effects
    <2>. QED
      BY <1>1, <1>7, <1>10, <2>3 DEF Placed, Waits
  <1>8. CASE PC(q) = "setLabels"
    <2>1. Site(q) \in Sites
      BY <1>3, <1>8 DEF Nowhere
    <2>2. ~proc[q].blind => /\ proc[q].due <= Limit
                            /\ inst'[Site(q)] = "RUNNING" => proc[q].due <= hard'[Site(q)]
      BY <1>8, <2>1 DEF Placed, Effects
    <2>. QED
      BY <1>1, <1>8, <2>2 DEF Placed, Waits, Destroying
  <1>11. CASE PC(q) = "instanceDelete"
    BY <1>1, <1>10, <1>11 DEF Placed, Waits
  <1>9. CASE PC(q) \notin PlacedPlaces
    BY <1>1, <1>9 DEF Placed, PlacedPlaces, Destroying, Waits
  <1>. QED
    BY <1>4, <1>5, <1>6, <1>7, <1>8, <1>9, <1>11 DEF PlacedPlaces

\* p is well placed after the step; when it has begun to wait, nothing went on
\* for its VM before.
WellPlaced(p) ==
    /\ Placed(p)'
    /\ PC(p)' \in Waits => flight[Site(p)'] = "none"

LEMMA FreePlaced ==
    ASSUME ProcInv, NEW p \in Callers, NEW S, To(p, S), S \cap PlacedPlaces = {}
    PROVE  WellPlaced(p)
  <1>1. PC(p)' \in S
    BY DEF To, ProcInv, PC
  <1>. QED
    BY <1>1 DEF WellPlaced, Placed, PlacedPlaces, Destroying, Waits

\* After a step to a place.
LEMMA WentTo ==
    ASSUME ProcInv, NEW p \in Callers, PC(p) \notin Nowhere,
           NEW place \in Places \ {"idle", "load", "create", "diff", "update"}, Go(p, place)
    PROVE  /\ PC(p)' = place /\ At(p)' = At(p) /\ At(p) \in VMs
           /\ Site(p)' = Site(p) /\ Site(p) \in Sites /\ proc'[p].gcp = proc[p].gcp
           /\ place \notin PlacedPlaces => WellPlaced(p)
  <1>1. PC(p) # "idle" /\ proc[p].todo # <<>> /\ At(p) \in VMs /\ Site(p) \in Sites
    BY AtFacts DEF Nowhere
  <1>2. To(p, {place}) /\ proc'[p] = [proc[p] EXCEPT !.pc = place]
    BY <1>1, GoPlace
  <1>3. proc[p] \in Process
    BY DEF ProcInv, Proper
  <1>4. PC(p)' = place /\ At(p)' = At(p) /\ Site(p)' = Site(p) /\ proc'[p].gcp = proc[p].gcp
    BY <1>2, <1>3 DEF Process, PC, At, Site
  <1>5. place \notin PlacedPlaces => WellPlaced(p)
    BY <1>2, FreePlaced
  <1>. QED
    BY <1>1, <1>4, <1>5

LEMMA OutPlaced ==
    ASSUME ProcInv, NEW p \in Callers, PC(p) # "idle",
           NEW how \in {"ok", "failed"}, Go(p, how)
    PROVE  WellPlaced(p)
  <1>1. Starts \cap PlacedPlaces = {}
    BY DEF Starts, PlacedPlaces, Waits
  <1>. QED
    BY <1>1, GoOut, FreePlaced

LEMMA OwnPlaced ==
    ASSUME DataTypes, FlightInv, RecordInv, ProcInv, Promised,
           NEW p \in Callers, Placed(p), Acts(p)
    PROVE  WellPlaced(p)
  <1> USE DEF others, gce, histories, bounds
  <1>1. ASSUME NEW how \in {"ok", "failed"}, PC(p) # "idle", Go(p, how)
        PROVE  WellPlaced(p)
    BY <1>1, OutPlaced
  <1>2. ASSUME NEW place \in {"create", "diff", "update", "get", "startLoad", "startLock", "undo",
                              "stopState", "instanceStop", "destroyLock", "list"}
                             \cup Starts
        PROVE  place \notin PlacedPlaces
    BY <1>2 DEF PlacedPlaces, Waits, Starts
  <1>3. CASE Load(p)
    BY <1>2, <1>3, LoadTo, FreePlaced
  <1>4. CASE Create(p) \/ DiffStep(p) \/ Update(p)
    <2>1. PC(p) \in {"create", "diff", "update"} /\ PC(p) # "idle"
      BY <1>4 DEF Create, DiffStep, Update
    <2>2. Go(p, "failed") \/ Reconciled(p) \/ DiffStep(p)
      BY <1>4 DEF Create, Update
    <2>3. CASE Reconciled(p)
      BY <1>2, <2>1, <2>3, ReconciledTo, FreePlaced
    <2>4. CASE DiffStep(p)
      BY <1>2, <2>4, DiffTo, FreePlaced
    <2>. QED
      BY <1>1, <2>1, <2>2, <2>3, <2>4
  <1>5. CASE Get(p) \/ StartLoad(p) \/ StopState(p) \/ RmGet(p) \/ DestroyLock(p)
    <2>1. PC(p) \in {"get", "startLoad", "stopState", "rmGet", "destroyLock"}
      BY <1>5 DEF Get, StartLoad, StopState, RmGet, DestroyLock
    <2>2. PC(p) \notin Nowhere
      BY <2>1 DEF Nowhere
    <2>3. \/ \E place \in {"ok", "failed", "startLoad", "destroyLock"} : Go(p, place)
          \/ \E place \in {"startLock", "instanceStop"} :
               Set(p, [proc[p] EXCEPT !.pc = place, !.gcp = pinned[At(p)]])
          \/ /\ Set(p, [proc[p] EXCEPT !.pc = "instanceDelete", !.gcp = pinned[At(p)]])
             /\ UNCHANGED pinned
      BY <1>5 DEF Get, StartLoad, StopState, RmGet, DestroyLock, Return
    <2>4. ASSUME NEW place \in {"startLoad", "destroyLock"}, Go(p, place) PROVE WellPlaced(p)
      <3>1. place \in Places \ {"idle", "load", "create", "diff", "update"}
        BY DEF Places
      <3>. QED
        BY <1>2, <2>2, <2>4, <3>1, WentTo
    <2>5. ASSUME NEW place \in {"startLock", "instanceStop"},
                 Set(p, [proc[p] EXCEPT !.pc = place, !.gcp = pinned[At(p)]])
          PROVE  WellPlaced(p)
      BY <1>2, <2>2, <2>5, LoadedTo, FreePlaced
    <2>6. ASSUME Set(p, [proc[p] EXCEPT !.pc = "instanceDelete", !.gcp = pinned[At(p)]]),
                 UNCHANGED pinned
          PROVE  WellPlaced(p)
      <3>1. PC(p)' = "instanceDelete" /\ At(p)' = At(p) /\ proc'[p].gcp = pinned[At(p)]
        BY <2>2, <2>6, LoadedTo
      <3>. QED
        BY <2>6, <3>1 DEF WellPlaced, Placed, Waits
    <2>. QED
      BY <1>1, <2>1, <2>3, <2>4, <2>5, <2>6
  <1>6. CASE PruneLock(p)
    <2>1. PC(p) # "idle" /\ Go(p, "list") /\ "list" \in Places /\ "list" \in Nowhere
      BY <1>6 DEF PruneLock, Places, Nowhere
    <2>2. To(p, {"list"})
      BY <2>1, GoPlace
    <2>. QED
      BY <1>2, <2>2, FreePlaced
  <1>7. CASE Undo(p) \/ RecordDelete(p)
    BY <1>1, <1>7 DEF Undo, RecordDelete, Return
  <1>8. CASE LoseContact(p)
    <2>1. PC(p) \in Waits /\ PC(p) \notin Nowhere /\ PC(p) # "idle"
      BY <1>8 DEF LoseContact, Waits, Nowhere
    <2>2. CASE Go(p, "undo")
      <3>1. "undo" \in Places
        BY DEF Places
      <3>. QED
        BY <1>2, <2>1, <2>2, <3>1, WentTo
    <2>. QED
      BY <1>1, <1>8, <2>1, <2>2 DEF LoseContact, Return
  <1>9. CASE KillCommand(p)
    <2>1. To(p, {"idle"})
      BY <1>9, IdleProper DEF KillCommand, Set, To, Idle
    <2>. QED
      BY <1>2, <2>1, FreePlaced DEF Starts
  <1>10. CASE FanOut(p) \/ Prune(p) \/ Extend(p)
    <2>1. \E c \in Commands : \E names \in Seq(VMs) :
            (c # "prune" => names # <<>>) /\ Invoke(p, c, names)
      <3>1. CASE FanOut(p)
        BY <3>1, OrderFacts DEF FanOut, Commands
      <3>2. CASE Prune(p)
        <4>1. <<>> \in Seq(VMs)
          OBVIOUS
        <4>. QED
          BY <3>2, <4>1 DEF Prune, Commands
      <3>3. CASE Extend(p)
        <4>1. \A n \in VMs : <<n>> \in Seq(VMs) /\ <<n>> # <<>>
          OBVIOUS
        <4>. QED
          BY <3>3, <4>1 DEF Extend, Commands, FanOuts
      <3>. QED
        BY <1>10, <3>1, <3>2, <3>3
    <2>2. To(p, Starts)
      BY <2>1, InvokeTo
    <2>. QED
      BY <1>2, <2>2, FreePlaced
  <1>11. CASE StartLock(p)
    <2>1. PC(p) = "startLock" /\ PC(p) \notin Nowhere /\ PC(p) # "idle"
      BY <1>11 DEF StartLock, Nowhere
    <2>2. CASE Return(p, "failed")
      BY <1>1, <2>1, <2>2 DEF Return
    <2>3. ASSUME NEW place \in {"firewall", "instanceStart"}, Go(p, place), UNCHANGED <<rec, pinned>>,
                 unowned' = IF Recorded(Site(p)) THEN unowned ELSE unowned \cup {Site(p)}
          PROVE  WellPlaced(p)
      <3>1. place \in Places \ {"idle", "load", "create", "diff", "update"}
        BY DEF Places
      <3>2. PC(p)' = place /\ Site(p)' = Site(p)
        BY <2>1, <2>3, <3>1, WentTo
      <3>3. Recorded(Site(p))' \/ Site(p) \in unowned'
        BY <2>3, <3>2 DEF Recorded
      <3>. QED
        BY <3>2, <3>3 DEF WellPlaced, Placed, Waits, Destroying
    <2>. QED
      BY <1>11, <2>2, <2>3 DEF StartLock
  <1>12. CASE Firewall(p)
    <2>1. PC(p) = "firewall" /\ PC(p) \notin Nowhere /\ PC(p) # "idle"
      BY <1>12 DEF Firewall, Nowhere
    <2>2. CASE Return(p, "failed")
      BY <1>1, <2>1, <2>2 DEF Return
    <2>3. CASE Go(p, "insert") /\ rule' = [rule EXCEPT ![Site(p)] = TRUE]
      <3>1. "insert" \in Places
        BY DEF Places
      <3>2. PC(p)' = "insert" /\ Site(p)' = Site(p) /\ Site(p) \in Sites
        BY <2>1, <2>3, <3>1, WentTo
      <3>3. rule'[Site(p)]
        BY <2>3, <3>2 DEF DataTypes
      <3>4. Recorded(Site(p))' \/ Site(p) \in unowned'
        BY <1>12, <2>1, <3>2 DEF Placed, Firewall, Recorded
      <3>. QED
        BY <3>2, <3>3, <3>4 DEF WellPlaced, Placed, Waits, Destroying
    <2>. QED
      BY <1>12, <2>2, <2>3 DEF Firewall
  <1>13. CASE Insert(p) \/ InstanceStart(p) \/ InstanceStop(p) \/ InstanceDelete(p)
    <2>1. /\ PC(p) \in {"insert", "instanceStart", "instanceStop", "instanceDelete"}
          /\ PC(p) \notin Nowhere /\ PC(p) # "idle"
      BY <1>13 DEF Insert, InstanceStart, InstanceStop, InstanceDelete, Nowhere
    <2>2. Site(p) \in Sites
      BY <2>1, AtFacts
    <2>3. ASSUME NEW place \in Waits, Go(p, place), flight[Site(p)] = "none",
                 place = "deleteWait" => PC(p) = "instanceDelete", UNCHANGED pinned,
                 flight' = [flight EXCEPT ![Site(p)] = Awaited(place)]
          PROVE  WellPlaced(p)
      <3>1. place \in Places \ {"idle", "load", "create", "diff", "update"}
        BY DEF Places, Waits
      <3>2. /\ PC(p)' = place /\ At(p)' = At(p) /\ Site(p)' = Site(p)
            /\ proc'[p].gcp = proc[p].gcp
        BY <2>1, <2>3, <3>1, WentTo
      <3>3. flight'[Site(p)] = Awaited(place)
        BY <2>2, <2>3 DEF DataTypes
      <3>4. PC(p)' \in Destroying => pinned'[At(p)'] = proc'[p].gcp
        BY <2>3, <3>2 DEF Placed, Destroying, Waits
      <3>. QED
        BY <2>3, <3>2, <3>3, <3>4 DEF WellPlaced, Placed, Waits
    <2>4. CASE Go(p, "undo")
      <3>1. "undo" \in Places
        BY DEF Places
      <3>. QED
        BY <1>2, <2>1, <2>4, <3>1, WentTo
    <2>5. flight[Site(p)] \in {"none", "insert", "start", "stop", "delete"}
      BY <2>2 DEF DataTypes
    <2>6. inst[Site(p)] \in {"none", "TERMINATED"} => flight[Site(p)] = "none"
      BY <2>2, <2>5 DEF FlightInv
    <2>7. \/ Go(p, "ok") \/ Go(p, "failed") \/ Go(p, "undo")
          \/ \E place \in Waits : /\ Go(p, place) /\ flight[Site(p)] = "none"
                                  /\ flight' = [flight EXCEPT ![Site(p)] = Awaited(place)]
                                  /\ place = "deleteWait" => PC(p) = "instanceDelete"
                                  /\ UNCHANGED pinned
      <3>1. CASE Insert(p)
        BY <2>6, <3>1 DEF Insert, Awaited, Waits
      <3>2. CASE InstanceStart(p)
        BY <2>6, <3>2 DEF InstanceStart, Awaited, Waits, Return
      <3>3. CASE InstanceStop(p)
        BY <3>3 DEF InstanceStop, Awaited, Waits
      <3>4. CASE InstanceDelete(p)
        BY <3>4 DEF InstanceDelete, Awaited, Waits, Return
      <3>. QED
        BY <1>13, <3>1, <3>2, <3>3, <3>4
    <2>. QED
      BY <1>1, <2>1, <2>3, <2>4, <2>7
  <1>14. CASE RuleDelete(p)
    <2>1. PC(p) = "ruleDelete" /\ PC(p) \notin Nowhere /\ PC(p) # "idle"
      BY <1>14 DEF RuleDelete, Nowhere
    <2>2. CASE Return(p, "failed")
      BY <1>1, <2>1, <2>2 DEF Return
    <2>3. CASE Go(p, "recordDelete") /\ rule' = [rule EXCEPT ![Site(p)] = FALSE]
      <3>1. "recordDelete" \in Places
        BY DEF Places
      <3>2. /\ PC(p)' = "recordDelete" /\ At(p)' = At(p) /\ Site(p)' = Site(p)
            /\ Site(p) \in Sites /\ proc'[p].gcp = proc[p].gcp
        BY <2>1, <2>3, <3>1, WentTo
      <3>3. ~rule'[Site(p)]
        BY <2>3, <3>2 DEF DataTypes
      <3>4. inst'[Site(p)] = "none"
        BY <1>14, <2>1 DEF Placed, RuleDelete
      <3>5. pinned'[At(p)] = proc[p].gcp
        BY <1>14, <2>1 DEF Placed, RuleDelete, Destroying
      <3>. QED
        BY <3>2, <3>3, <3>4, <3>5 DEF WellPlaced, Placed, Waits
    <2>. QED
      BY <1>14, <2>2, <2>3 DEF RuleDelete
  <1>15. CASE List(p)
    <2>1. PC(p) = "list" /\ PC(p) # "idle"
      BY <1>15 DEF List
    <2>2. CASE Return(p, "failed")
      BY <1>1, <2>1, <2>2 DEF Return
    <2>3. CASE Set(p, [proc[p] EXCEPT !.pc = "sweep",
                                   !.seen = {n \in VMs : inst[<<n, Listed>>] # "none"}])
      <3>1. PC(p)' = "sweep" /\ proc'[p].seen = {n \in VMs : inst[<<n, Listed>>] # "none"}
        BY <2>1, <2>3, ListTo DEF To, PC, ProcInv
      <3>2. inst' = inst
        BY <1>15 DEF List
      <3>. QED
        BY <3>1, <3>2 DEF WellPlaced, Placed, Waits, Destroying
    <2>. QED
      BY <1>15, <2>2, <2>3 DEF List
  <1>16. CASE Sweep(p)
    <2>1. PC(p) = "sweep" /\ PC(p) # "idle"
      BY <1>16 DEF Sweep
    <2>2. CASE Return(p, "ok")
      BY <1>1, <2>1, <2>2 DEF Return
    <2>3. CASE UNCHANGED proc
      <3>1. inst' = inst
        BY <1>16 DEF Sweep
      <3>. QED
        BY <2>1, <2>3, <3>1 DEF WellPlaced, Placed, Waits, Destroying, PC
    <2>. QED
      BY <1>16, <2>2, <2>3 DEF Sweep
  <1>17. CASE ExtendGet(p)
    <2>1. PC(p) = "extendGet" /\ PC(p) # "idle"
      BY <1>17 DEF ExtendGet
    <2>2. CASE Go(p, "failed")
      BY <1>1, <2>1, <2>2
    <2>3. ASSUME NEW d \in Durations, Extending(p, d) PROVE WellPlaced(p)
      <3>1. PICK s : s = Place(At(p))
        OBVIOUS
      <3>2. /\ PC(p)' = "setLabels" /\ Site(p)' = s /\ proc'[p].due = d
            /\ ~proc'[p].blind => hard[s] # NoDeadline
        BY <2>1, <2>3, <3>1, ExtendTo
      <3>3. hard' = hard
        BY <1>17 DEF ExtendGet
      <3>4. hard[s] # NoDeadline => d <= hard[s]
        BY <2>3, <3>1 DEF Extending
      <3>5. s \in Sites
        BY <2>1, <3>1, AtFacts, PlaceFacts DEF Nowhere
      <3>6. hard[s] \in NoDeadline .. Limit /\ Limit \in Nat /\ d \in Nat
        BY <3>5, RemoteAssumption DEF DataTypes
      <3>7. d <= hard[s] => d <= Limit
        BY <3>6 DEF NoDeadline
      <3>. QED
        BY <3>2, <3>3, <3>4, <3>7 DEF WellPlaced, Placed, Waits, Destroying
    <2>. QED
      BY <1>17, <2>2, <2>3 DEF ExtendGet, Extending
  <1>18. CASE SetLabels(p)
    BY <1>1, <1>18 DEF SetLabels
  <1>. QED
    BY <1>3, <1>4, <1>5, <1>6, <1>7, <1>8, <1>9, <1>10, <1>11, <1>12, <1>13, <1>14, <1>15, <1>16,
       <1>17, <1>18 DEF Acts, Step

\* No instance loses its record.
LEMMA StepRecorded ==
    ASSUME DataTypes, RecordInv, ProcInv, InstanceRecorded, NEW p \in Callers, Placed(p), Acts(p)
    PROVE  InstanceRecorded'
  <1> USE DEF others, gce, histories, bounds
  <1>1. CASE UNCHANGED <<rec, pinned, inst>> /\ unowned \subseteq unowned'
    BY <1>1 DEF InstanceRecorded, Recorded
  <1>2. CASE \/ Load(p) \/ DiffStep(p) \/ Get(p) \/ StartLoad(p) \/ StartLock(p) \/ StopState(p)
             \/ RmGet(p) \/ DestroyLock(p) \/ PruneLock(p) \/ List(p) \/ ExtendGet(p)
             \/ LoseContact(p) \/ KillCommand(p) \/ FanOut(p) \/ Prune(p) \/ Extend(p)
             \/ Firewall(p) \/ Undo(p) \/ RuleDelete(p) \/ SetLabels(p)
    <2>1. UNCHANGED <<rec, pinned, inst>> /\ unowned \subseteq unowned'
      BY <1>2 DEF Load, DiffStep, Get, StartLoad, StartLock, StopState, RmGet, DestroyLock, PruneLock,
           List, ExtendGet, LoseContact, KillCommand, FanOut, Prune, Extend, Invoke, Firewall, Undo,
           RuleDelete, SetLabels
    <2>. QED
      BY <1>1, <2>1
  <1>8. \A s \in Sites : s[1] \in VMs /\ s[2] \in Gcps /\ s = <<s[1], s[2]>>
    BY DEF Sites
  <1>9. PC(p) \in {"create", "update", "recordDelete", "insert"} =>
          At(p) \in VMs /\ Site(p) \in Sites /\ Site(p)[1] = At(p) /\ Site(p)[2] = proc[p].gcp
    BY AtFacts DEF Nowhere
  <1>3. CASE Create(p)
    <2>1. PC(p) = "create" /\ At(p) \in VMs /\ inst' = inst
      BY <1>3, <1>9 DEF Create
    <2>2. CASE UNCHANGED <<rec, pinned, unowned>>
      BY <1>1, <2>1, <2>2
    <2>3. ASSUME rec[At(p)] = NoRecord,
                 rec' = [rec EXCEPT ![At(p)] = RecordOf(Declared(p))],
                 GivenFor(Declared(p).params, Declared(p).recipes),
                 GivenFor(Declared(p).secrets, Declared(p).recipes),
                 pinned' = [pinned EXCEPT ![At(p)] = Listed],
                 unowned' = unowned \ {<<At(p), Listed>>}
          PROVE  InstanceRecorded'
      <3>1. RecordOf(Declared(p)) # NoRecord
        <4>1. proc[p].cmd \in Ups /\ PC(p) \notin Nowhere
          BY <2>1 DEF ProcInv, Proper, PC, Nowhere
        <4>2. Declared(p) \in Decls
          BY <4>1, AtFacts
        <4>. QED
          BY <2>3, <4>2, CreatedFacts, RecordsAreRecords DEF Consistent
      <3>2. \A n \in VMs : /\ n = At(p) => rec'[n] # NoRecord /\ pinned'[n] = Listed
                           /\ n # At(p) => rec'[n] = rec[n] /\ pinned'[n] = pinned[n]
        BY <2>1, <2>3, <3>1 DEF DataTypes
      <3>3. SUFFICES ASSUME NEW s \in Sites, inst[s] # "none"
                     PROVE  Recorded(s)' \/ s \in unowned'
        BY <2>1 DEF InstanceRecorded
      <3>4. CASE s[1] # At(p)
        <4>1. Recorded(s) => Recorded(s)'
          BY <1>8, <3>2, <3>4 DEF Recorded
        <4>2. s # <<At(p), Listed>>
          BY <3>4
        <4>. QED
          BY <2>3, <3>3, <4>1, <4>2 DEF InstanceRecorded
      <3>5. CASE s[1] = At(p)
        <4>1. s \in unowned
          BY <2>3, <3>3, <3>5 DEF InstanceRecorded, Recorded
        <4>2. CASE s[2] = Listed
          BY <2>1, <3>2, <3>5, <4>2 DEF Recorded
        <4>3. CASE s[2] # Listed
          BY <2>3, <4>1, <4>3
        <4>. QED
          BY <4>2, <4>3
      <3>. QED
        BY <3>4, <3>5
    <2>. QED
      BY <1>3, <2>2, <2>3 DEF Create
  <1>10. CASE Update(p)
    <2>1. PC(p) = "update" /\ At(p) \in VMs /\ Declared(p) \in Decls
      <3>1. PC(p) = "update" /\ PC(p) \notin Nowhere
        BY <1>10 DEF Update, Nowhere
      <3>2. proc[p].cmd \in Ups
        BY <3>1 DEF ProcInv, Proper, PC
      <3>. QED
        BY <3>1, <3>2, AtFacts
    <2>2. UNCHANGED <<pinned, inst, unowned>>
      BY <1>10 DEF Update
    <2>3. PICK unset :
            unset = IF "params" \in proc[p].drift THEN RemovedParams(proc[p].had, Declared(p)) ELSE {}
      OBVIOUS
    <2>4. CASE UNCHANGED rec
      BY <1>1, <2>2, <2>4
    <2>5. CASE /\ rec[At(p)] # NoRecord
               /\ Accepted(rec[At(p)], Declared(p), proc[p].drift, unset)
               /\ rec' = [rec EXCEPT ![At(p)] =
                            Patched(rec[At(p)], Declared(p), proc[p].drift, unset)]
      <3>1. Consistent(rec[At(p)])
        BY <2>1, <2>5 DEF RecordInv
      <3>2. PICK w : w = Patched(rec[At(p)], Declared(p), proc[p].drift, unset)
        OBVIOUS
      <3>3. Consistent(w)
        BY <2>1, <2>5, <3>1, <3>2, PatchedFacts
      <3>4. w # NoRecord
        BY <3>3, RecordsAreRecords DEF Consistent
      <3>5. \A n \in VMs : rec[n] # NoRecord => rec'[n] # NoRecord
        BY <2>1, <2>5, <3>2, <3>4 DEF DataTypes
      <3>. QED
        BY <1>8, <2>2, <3>5 DEF InstanceRecorded, Recorded
    <2>. QED
      BY <1>10, <2>3, <2>4, <2>5 DEF Update
  <1>4. ASSUME NEW n \in VMs, rec' = [rec EXCEPT ![n] = NoRecord],
               pinned' = [pinned EXCEPT ![n] = Listed], inst' = inst, unowned \subseteq unowned',
               inst[Place(n)] # "none" => Place(n) \in unowned'
        PROVE  InstanceRecorded'
    <2>1. \A x \in VMs \ {n} : rec'[x] = rec[x] /\ pinned'[x] = pinned[x]
      BY <1>4 DEF DataTypes
    <2>2. SUFFICES ASSUME NEW s \in Sites, inst[s] # "none"
                   PROVE  Recorded(s)' \/ s \in unowned'
      BY <1>4 DEF InstanceRecorded
    <2>3. CASE s[1] # n
      BY <1>4, <1>8, <2>1, <2>2, <2>3 DEF InstanceRecorded, Recorded
    <2>4. CASE s[1] = n /\ s[2] = pinned[n]
      <3>1. s = Place(n)
        BY <1>8, <2>4 DEF Place
      <3>. QED
        BY <1>4, <2>2, <3>1
    <2>5. CASE s[1] = n /\ s[2] # pinned[n]
      BY <1>4, <2>2, <2>5 DEF InstanceRecorded, Recorded
    <2>. QED
      BY <2>3, <2>4, <2>5
  <1>11. CASE RecordDelete(p)
    <2>1. /\ PC(p) = "recordDelete" /\ At(p) \in VMs
          /\ inst[Site(p)] = "none" /\ pinned[At(p)] = proc[p].gcp
      BY <1>9, <1>11 DEF RecordDelete, Placed, Destroying
    <2>2. Site(p) = Place(At(p))
      BY <2>1 DEF Site, Place
    <2>. QED
      BY <1>4, <1>11, <2>1, <2>2 DEF RecordDelete
  <1>5. CASE Sweep(p)
    <2>1. PC(p) = "sweep" /\ inst' = inst
      BY <1>5 DEF Sweep
    <2>2. CASE UNCHANGED <<rec, pinned, unowned>>
      BY <1>1, <2>1, <2>2
    <2>3. ASSUME NEW n \in Stale(p), Drop(n) PROVE InstanceRecorded'
      <3>1. n \in VMs /\ inst[<<n, Listed>>] = "none"
        BY <2>1 DEF Stale, Placed
      <3>2. inst[Place(n)] # "none" => Place(n) \in unowned'
        BY <2>3, <3>1 DEF Drop, Place
      <3>. QED
        BY <1>4, <2>1, <2>3, <3>1, <3>2 DEF Drop
    <2>. QED
      BY <1>5, <2>2, <2>3 DEF Sweep
  <1>6. CASE Insert(p)
    <2>1. PC(p) = "insert" /\ UNCHANGED <<rec, pinned, unowned>>
      BY <1>6 DEF Insert
    <2>2. Recorded(Site(p)) \/ Site(p) \in unowned
      BY <2>1 DEF Placed
    <2>3. inst' = inst \/ inst' = [inst EXCEPT ![Site(p)] = "STAGING"]
      BY <1>6 DEF Insert
    <2>. QED
      BY <2>1, <2>2, <2>3 DEF InstanceRecorded, DataTypes, Recorded
  <1>7. CASE InstanceStart(p) \/ InstanceStop(p) \/ InstanceDelete(p)
    <2>1. UNCHANGED <<rec, pinned, unowned>>
      BY <1>7 DEF InstanceStart, InstanceStop, InstanceDelete
    <2>2. \/ inst' = inst
          \/ inst[Site(p)] # "none" /\ \E st \in Statuses : inst' = [inst EXCEPT ![Site(p)] = st]
      BY <1>7 DEF InstanceStart, InstanceStop, InstanceDelete, Statuses
    <2>. QED
      BY <2>1, <2>2 DEF InstanceRecorded, DataTypes, Recorded
  <1>. QED
    BY <1>2, <1>3, <1>5, <1>6, <1>7, <1>10, <1>11 DEF Acts, Step

LEMMA ActsKeep ==
    ASSUME CloudInv, NEW p \in Callers, Acts(p)
    PROVE  CloudInv'
  <1>1. Effects(p) /\ DataTypes' /\ FlightInv' /\ RecordInv' /\ Promised'
    BY StepEffects DEF CloudInv
  <1>2. ProcInv' /\ Locking' /\ \A q \in Callers \ {p} : proc'[q] = proc[q]
    BY StepShape, ShapeKeeps DEF CloudInv
  <1>3. WellPlaced(p)
    BY OwnPlaced DEF CloudInv
  <1>4. \A q \in Callers : Placed(q)'
    BY <1>1, <1>2, <1>3, OthersPlaced DEF CloudInv, WellPlaced
  <1>5. OneWaiter'
    <2> SUFFICES ASSUME NEW a \in Callers, NEW b \in Callers,
                        PC(a)' \in Waits, PC(b)' \in Waits, Site(a)' = Site(b)', a # b
                 PROVE  FALSE
      BY DEF OneWaiter
    <2>1. ASSUME NEW q \in Callers \ {p}, PC(q)' \in Waits
          PROVE  PC(q) \in Waits /\ Site(q)' = Site(q) /\ flight[Site(q)] # "none"
      <3>1. PC(q) \in Waits /\ Site(q)' = Site(q)
        BY <1>2, <2>1 DEF PC, At, Site
      <3>. QED
        BY <3>1 DEF CloudInv, Placed, Awaited, Waits
    <2>2. CASE a # p /\ b # p
      BY <2>1, <2>2 DEF CloudInv, OneWaiter
    <2>3. CASE a = p
      BY <1>3, <2>1, <2>3 DEF WellPlaced
    <2>4. CASE b = p
      BY <1>3, <2>1, <2>4 DEF WellPlaced
    <2>. QED
      BY <2>2, <2>3, <2>4
  <1>6. InstanceRecorded'
    BY StepRecorded DEF CloudInv
  <1>. QED
    BY <1>1, <1>2, <1>4, <1>5, <1>6 DEF CloudInv

-----------------------------------------------------------------------------
(* The steps of GCE, of time and of the user *)

\* The instance after its operation, and what it was before.
LEMMA CompleteCloud ==
    ASSUME DataTypes, FlightInv, RecordInv, Promised, InstanceRecorded,
           NEW s \in Sites, NEW ok \in BOOLEAN, Complete(s, ok)
    PROVE  /\ DataTypes' /\ FlightInv' /\ RecordInv' /\ Promised' /\ InstanceRecorded'
           /\ inst[s] # "none" /\ (flight[s] = "delete" => inst'[s] = "none")
           /\ \A x \in Sites \ {s} : inst'[x] = inst[x] /\ flight'[x] = flight[x] /\ hard'[x] = hard[x]
           /\ inst'[s] = "RUNNING" => hard'[s] = Limit
  <1>1. flight[s] \in {"insert", "start", "stop", "delete"} /\ Limit \in Nat
    BY RemoteAssumption DEF Complete, DataTypes
  <1>2. inst[s] # "none"
    BY <1>1 DEF FlightInv
  <1>3. PICK st \in {"RUNNING", "TERMINATED", "none"} :
          /\ inst' = [inst EXCEPT ![s] = st] /\ (flight[s] = "delete" => st = "none")
    BY <1>1 DEF Complete
  <1>4. inst'[s] = st
    BY <1>3 DEF DataTypes
  <1>5. /\ flight' = [flight EXCEPT ![s] = "none"]
        /\ hard' = [hard EXCEPT ![s] = IF st = "RUNNING" THEN Limit
                                       ELSE IF st = "none" THEN NoDeadline ELSE @]
        /\ soft' = [soft EXCEPT ![s] = IF st = "none" THEN NoDeadline ELSE @]
        /\ blind' = IF st = "none" THEN blind \ {s} ELSE blind
        /\ UNCHANGED <<file, served, rec, pinned, rule, unowned>>
    BY <1>4 DEF Complete, others
  <1>6. PICK h \in NoDeadline .. Limit :
          hard' = [hard EXCEPT ![s] = h] /\ (st = "RUNNING" => h = Limit)
    <2>1. hard[s] \in NoDeadline .. Limit /\ NoDeadline \in NoDeadline .. Limit
          /\ Limit \in NoDeadline .. Limit
      BY <1>1 DEF DataTypes, NoDeadline
    <2>. QED
      BY <1>5, <2>1
  <1>7. PICK t \in Nat \cup {NoDeadline} :
          /\ soft' = [soft EXCEPT ![s] = t]
          /\ t = soft[s] \/ t = NoDeadline
          /\ s \notin blind' => t = NoDeadline \/ (s \notin blind /\ t = soft[s])
    <2>1. soft[s] \in Nat \cup {NoDeadline}
      BY DEF DataTypes
    <2>2. CASE st = "none"
      BY <1>5, <2>2
    <2>3. CASE st # "none"
      BY <1>5, <2>1, <2>3
    <2>. QED
      BY <2>2, <2>3
  <1>8. DataTypes'
    <2>1. blind' \subseteq Sites /\ unowned' \subseteq Sites
      BY <1>5 DEF DataTypes
    <2>. QED
      BY <1>3, <1>5, <1>6, <1>7, <2>1 DEF DataTypes, Statuses
  <1>9. \A x \in Sites \ {s} : /\ inst'[x] = inst[x] /\ flight'[x] = flight[x]
                               /\ hard'[x] = hard[x] /\ soft'[x] = soft[x]
                               /\ x \in blind' <=> x \in blind
    <2>1. \A x \in Sites \ {s} : x \in blind' <=> x \in blind
      BY <1>5
    <2>. QED
      BY <1>3, <1>5, <1>6, <1>7, <2>1 DEF DataTypes
  <1>10. flight'[s] = "none" /\ hard'[s] = h /\ soft'[s] = t
    BY <1>5, <1>6, <1>7 DEF DataTypes
  <1>11. FlightInv'
    BY <1>9, <1>10 DEF FlightInv
  <1>12. RecordInv'
    BY <1>5 DEF RecordInv
  <1>13. s \notin blind' => t <= Limit
    <2>1. NoDeadline <= Limit
      BY <1>1 DEF NoDeadline
    <2>. QED
      BY <1>7, <2>1 DEF Promised
  <1>14. Promised'
    BY <1>4, <1>6, <1>9, <1>10, <1>13 DEF Promised
  <1>15. InstanceRecorded'
    BY <1>2, <1>5, <1>9 DEF InstanceRecorded, Recorded
  <1>. QED
    BY <1>2, <1>3, <1>4, <1>6, <1>8, <1>9, <1>10, <1>11, <1>12, <1>14, <1>15

LEMMA CompleteKeeps ==
    ASSUME CloudInv, NEW s \in Sites, NEW ok \in BOOLEAN, Complete(s, ok)
    PROVE  CloudInv'
  <1>1. /\ DataTypes' /\ FlightInv' /\ RecordInv' /\ Promised' /\ InstanceRecorded'
        /\ inst[s] # "none" /\ (flight[s] = "delete" => inst'[s] = "none")
        /\ \A x \in Sites \ {s} : inst'[x] = inst[x] /\ flight'[x] = flight[x] /\ hard'[x] = hard[x]
        /\ inst'[s] = "RUNNING" => hard'[s] = Limit
    BY CompleteCloud DEF CloudInv
  <1>2. UNCHANGED <<rec, pinned, rule, unowned>>
    BY DEF Complete, others
  <1>3. \A p \in Callers : Proper(proc[p])
    BY DEF CloudInv, ProcInv
  <1>4. \A p \in Waiting(s) :
          /\ p \in Callers /\ PC(p) \in Waits /\ Site(p) = s /\ PC(p) # "idle" /\ proc[p].todo # <<>>
          /\ flight[s] = Awaited(PC(p))
    <2> SUFFICES ASSUME NEW p \in Waiting(s)
                 PROVE  /\ p \in Callers /\ PC(p) \in Waits /\ Site(p) = s /\ PC(p) # "idle"
                        /\ proc[p].todo # <<>> /\ flight[s] = Awaited(PC(p))
      OBVIOUS
    <2>1. p \in Callers /\ PC(p) \in Waits /\ Site(p) = s
      BY DEF Waiting
    <2>2. PC(p) \notin Nowhere
      BY <2>1 DEF Waits, Nowhere
    <2>. QED
      BY <2>1, <2>2, AtFacts DEF CloudInv, Placed, Nowhere
  <1>5. \A p \in Waiting(s) : /\ proc'[p] = Moved(proc[p], After(PC(p), ok))
                              /\ After(PC(p), ok) \in {"ok", "failed", "undo", "ruleDelete"}
                              /\ After(PC(p), ok) \in {"undo", "ruleDelete"} => PC(p) \in LockPlaces
                              /\ After(PC(p), ok) = "ruleDelete" => PC(p) = "deleteWait"
    BY <1>4 DEF Complete, After, Waits, LockPlaces
  <1>6. \A p \in Callers \ Waiting(s) : proc'[p] = proc[p]
    BY DEF Complete
  <1>7. DOMAIN proc' = Callers /\ proc' = [p \in Callers |-> proc'[p]]
    BY DEF Complete
  <1>8. \A p \in Waiting(s) : After(PC(p), ok) \in {"ok", "failed"} =>
          Proper(proc'[p]) /\ PC(p)' \in Starts
    BY <1>3, <1>4, <1>5, MovedProper DEF PC
  <1>9. \A p \in Waiting(s) : After(PC(p), ok) \in {"undo", "ruleDelete"} =>
          Proper(proc'[p]) /\ PC(p)' = After(PC(p), ok) /\ At(p)' = At(p) /\ Site(p)' = s
          /\ proc'[p].gcp = proc[p].gcp
    <2> SUFFICES ASSUME NEW p \in Waiting(s), After(PC(p), ok) \in {"undo", "ruleDelete"}
                 PROVE  Proper(proc'[p]) /\ PC(p)' = After(PC(p), ok) /\ At(p)' = At(p) /\ Site(p)' = s
          /\ proc'[p].gcp = proc[p].gcp
      OBVIOUS
    <2>1. After(PC(p), ok) \in Places \ {"idle", "load", "create", "diff", "update"}
      BY DEF Places
    <2>2. Proper(proc[p]) /\ proc[p].pc # "idle" /\ proc[p].todo # <<>>
      BY <1>3, <1>4 DEF PC
    <2>3. /\ Proper(proc'[p]) /\ proc'[p].pc = After(PC(p), ok)
          /\ proc'[p] = [proc[p] EXCEPT !.pc = After(PC(p), ok)]
      BY <1>5, <2>1, <2>2, MovedProper
    <2>4. proc'[p].todo = proc[p].todo /\ proc'[p].gcp = proc[p].gcp
      BY <2>2, <2>3 DEF Proper, Process
    <2>. QED
      BY <1>4, <2>3, <2>4 DEF PC, At, Site
  <1>10. ProcInv'
    BY <1>3, <1>5, <1>6, <1>7, <1>8, <1>9 DEF ProcInv
  <1>11. Locking'
    <2>1. lock \in Callers \cup {Nobody} /\ Nobody \notin Callers
          /\ \A p \in Callers : (lock = p) <=> PC(p) \in LockPlaces
      BY RemoteAssumption DEF CloudInv, Locking
    <2> DEFINE Left == {p \in Waiting(s) : After(PC(p), ok) \in {"ok", "failed"}}
    <2>2. lock' = IF lock \in Left THEN Nobody ELSE lock
      BY DEF Complete
    <2>3. \A p \in Left : PC(p)' \notin LockPlaces
      BY <1>8 DEF Starts, LockPlaces
    <2>4. \A p \in Waiting(s) \ Left : PC(p)' \in LockPlaces /\ lock = p
      BY <1>4, <1>5, <1>9, <2>1 DEF LockPlaces
    <2>5. \A p \in Callers \ Waiting(s) : PC(p)' = PC(p)
      BY <1>6 DEF PC
    <2>6. Left \subseteq Waiting(s) /\ Waiting(s) \subseteq Callers
      BY DEF Waiting
    <2> HIDE DEF Left
    <2>7. ASSUME NEW p \in Callers PROVE (lock' = p) <=> PC(p)' \in LockPlaces
      <3>1. CASE p \in Left
        BY <2>1, <2>2, <2>3, <3>1
      <3>2. CASE p \in Waiting(s) \ Left
        BY <2>1, <2>2, <2>4, <3>2
      <3>3. CASE p \in Callers \ Waiting(s)
        BY <2>1, <2>2, <2>5, <2>6, <3>3
      <3>. QED
        BY <3>1, <3>2, <3>3
    <2>. QED
      BY <2>1, <2>2, <2>7 DEF Locking
  <1>12. ASSUME NEW p \in Callers PROVE Placed(p)'
    <2>1. CASE p \in Waiting(s) /\ After(PC(p), ok) \in {"ok", "failed"}
      BY <1>8, <2>1 DEF Placed, Starts, Waits, Destroying
    <2>2. CASE p \in Waiting(s) /\ After(PC(p), ok) = "undo"
      BY <1>9, <2>2 DEF Placed, Waits, Destroying
    <2>3. CASE p \in Waiting(s) /\ After(PC(p), ok) = "ruleDelete"
      <3>1. inst'[s] = "none"
        BY <1>1, <1>4, <1>5, <2>3 DEF Awaited
      <3>2. pinned[At(p)] = proc[p].gcp
        BY <1>4, <1>5, <2>3 DEF CloudInv, Placed, Destroying
      <3>. QED
        BY <1>2, <1>9, <2>3, <3>1, <3>2 DEF Placed, Waits
    <2>4. CASE p \notin Waiting(s)
      <3>1. /\ PC(p)' = PC(p) /\ At(p)' = At(p) /\ Site(p)' = Site(p)
            /\ proc'[p].gcp = proc[p].gcp /\ proc'[p].seen = proc[p].seen
            /\ proc'[p].due = proc[p].due /\ proc'[p].blind = proc[p].blind
        BY <1>6, <2>4 DEF PC, At, Site
      <3>2. Placed(p)
        BY DEF CloudInv
      <3>3. PC(p) \notin Nowhere => Site(p) \in Sites
        BY AtFacts DEF CloudInv
      <3>4. PC(p) \in {"firewall", "insert", "instanceStart"} =>
              Recorded(Site(p))' \/ Site(p) \in unowned'
        BY <1>2, <3>1, <3>2 DEF Placed, Recorded
      <3>5. PC(p) \in Destroying => pinned'[At(p)] = proc[p].gcp
        BY <1>2, <3>2 DEF Placed
      <3>6. PC(p) \in {"ruleDelete", "recordDelete"} => inst'[Site(p)] = "none"
        BY <1>1, <3>2, <3>3 DEF Placed, Nowhere
      <3>7. PC(p) = "sweep" => \A n \in VMs \ proc[p].seen : inst'[<<n, Listed>>] = "none"
        <4>1. \A n \in VMs : <<n, Listed>> \in Sites
          BY RemoteAssumption DEF Sites
        <4>. QED
          BY <1>1, <3>2, <4>1 DEF Placed
      <3>8. PC(p) \in Waits => flight'[Site(p)] = Awaited(PC(p))
        <4>1. PC(p) \in Waits => Site(p) \in Sites \ {s}
          BY <2>4, <3>3 DEF Waiting, Waits, Nowhere
        <4>. QED
          BY <1>1, <3>2, <4>1 DEF Placed
      <3>9. PC(p) = "setLabels" /\ ~proc[p].blind =>
              /\ proc[p].due <= Limit
              /\ inst'[Site(p)] = "RUNNING" => proc[p].due <= hard'[Site(p)]
        BY <1>1, <3>2, <3>3 DEF Placed, Nowhere
      <3>. QED
        BY <1>2, <3>1, <3>2, <3>4, <3>5, <3>6, <3>7, <3>8, <3>9 DEF Placed
    <2>. QED
      BY <1>5, <2>1, <2>2, <2>3, <2>4
  <1>13. OneWaiter'
    <2>1. ASSUME NEW p \in Callers, PC(p)' \in Waits PROVE PC(p) \in Waits /\ Site(p)' = Site(p)
      <3>1. p \notin Waiting(s)
        BY <1>5, <1>8, <1>9, <2>1 DEF Starts, Waits
      <3>. QED
        BY <1>6, <2>1, <3>1 DEF PC, At, Site
    <2>. QED
      BY <2>1 DEF CloudInv, OneWaiter
  <1>. QED
    BY <1>1, <1>10, <1>11, <1>12, <1>13 DEF CloudInv

LEMMA LimitKeeps ==
    ASSUME CloudInv, NEW s \in Sites, TimeLimit(s)
    PROVE  CloudInv'
  <1>1. /\ inst[s] = "RUNNING" /\ flight[s] = "none" /\ inst' = [inst EXCEPT ![s] = "TERMINATED"]
        /\ UNCHANGED <<file, served, rec, pinned, lock, flight, rule, hard, soft, proc, unowned,
                       blind>>
    BY DEF TimeLimit, others, histories
  <1>2. \A x \in Sites : /\ inst'[x] = IF x = s THEN "TERMINATED" ELSE inst[x]
                         /\ inst[x] = "none" <=> inst'[x] = "none"
    BY <1>1 DEF CloudInv, DataTypes
  <1>3. DataTypes'
    BY <1>1 DEF CloudInv, DataTypes, Statuses
  <1>4. FlightInv' /\ RecordInv' /\ Promised' /\ InstanceRecorded'
    BY <1>1, <1>2 DEF CloudInv, FlightInv, RecordInv, Promised, InstanceRecorded, Recorded
  <1>5. ProcInv' /\ Locking' /\ OneWaiter'
    BY <1>1 DEF CloudInv, ProcInv, Locking, OneWaiter, PC, At, Site
  <1>6. ASSUME NEW p \in Callers PROVE Placed(p)'
    <2>1. Placed(p) /\ (PC(p) \notin Nowhere => Site(p) \in Sites)
      BY AtFacts DEF CloudInv
    <2>2. PC(p) \in {"ruleDelete", "recordDelete", "setLabels"} => Site(p) \in Sites
      BY <2>1 DEF Nowhere
    <2>3. \A n \in VMs : <<n, Listed>> \in Sites
      BY RemoteAssumption DEF Sites
    <2>4. PC(p)' = PC(p) /\ At(p)' = At(p) /\ Site(p)' = Site(p) /\ Recorded(Site(p))' = Recorded(Site(p))
      BY <1>1 DEF PC, At, Site, Recorded
    <2>. QED
      BY <1>1, <1>2, <2>1, <2>2, <2>3, <2>4 DEF Placed
  <1>. QED
    BY <1>3, <1>4, <1>5, <1>6 DEF CloudInv

LEMMA TickKeeps ==
    ASSUME CloudInv, Tick
    PROVE  CloudInv'
  <1>1. /\ hard' = [s \in Sites |-> Later(hard[s])] /\ soft' = [s \in Sites |-> Later(soft[s])]
        /\ proc' = [p \in Callers |-> [proc[p] EXCEPT !.due = Later(@), !.label = Later(@)]]
        /\ UNCHANGED <<file, served, rec, pinned, lock, inst, flight, rule, unowned, blind>>
    BY DEF Tick, others, histories
  <1>2. Limit \in Nat
    BY RemoteAssumption
  <1>3. /\ \A t \in Nat : Later(t) \in Nat
        /\ \A t \in Nat \cup {NoDeadline} : Later(t) \in Nat \cup {NoDeadline} /\ Later(t) <= t
        /\ \A t \in NoDeadline .. Limit : Later(t) \in NoDeadline .. Limit
        /\ \A t \in Nat \cup {NoDeadline}, h \in NoDeadline .. Limit : t <= h => Later(t) <= Later(h)
    BY <1>2 DEF Later, NoDeadline
  <1>4. DataTypes'
    BY <1>1, <1>3 DEF CloudInv, DataTypes
  <1>5. \A t \in Nat \cup {NoDeadline} : t <= Limit => Later(t) <= Limit
    BY <1>2 DEF Later, NoDeadline
  <1>6. Promised'
    <2> SUFFICES ASSUME NEW s \in Sites \ blind
                 PROVE  soft'[s] <= Limit /\ (inst[s] = "RUNNING" => soft'[s] <= hard'[s])
      BY <1>1 DEF Promised
    <2>1. /\ soft[s] <= Limit /\ (inst[s] = "RUNNING" => soft[s] <= hard[s])
          /\ soft[s] \in Nat \cup {NoDeadline} /\ hard[s] \in NoDeadline .. Limit
      BY DEF CloudInv, Promised, DataTypes
    <2>2. soft'[s] = Later(soft[s]) /\ hard'[s] = Later(hard[s])
      BY <1>1
    <2>. QED
      BY <1>3, <1>5, <2>1, <2>2
  <1>7. FlightInv' /\ RecordInv' /\ InstanceRecorded'
    BY <1>1 DEF CloudInv, FlightInv, RecordInv, InstanceRecorded, Recorded
  <1>8. ASSUME NEW p \in Callers
        PROVE  /\ Proper(proc'[p]) /\ PC(p)' = PC(p) /\ At(p)' = At(p) /\ Site(p)' = Site(p)
               /\ proc'[p].gcp = proc[p].gcp /\ proc'[p].seen = proc[p].seen
               /\ proc'[p].due = Later(proc[p].due) /\ proc'[p].blind = proc[p].blind
    <2>1. proc[p] \in Process /\ Proper(proc[p])
      BY DEF CloudInv, ProcInv, Proper
    <2>2. PICK d \in Nat, b \in Nat \cup {NoDeadline} :
            d = Later(proc[p].due) /\ b = Later(proc[p].label)
      BY <1>3, <2>1 DEF Process
    <2>3. PICK me : me = [proc[p] EXCEPT !.due = d, !.label = b]
      OBVIOUS
    <2>4. /\ me \in Process /\ me.pc = proc[p].pc /\ me.todo = proc[p].todo /\ me.cmd = proc[p].cmd
          /\ me.proj = proc[p].proj /\ me.seen = proc[p].seen /\ me.due = d
          /\ me.gcp = proc[p].gcp /\ me.blind = proc[p].blind
      BY <2>1, <2>3 DEF Process
    <2>5. Proper(me)
      BY <2>1, <2>4 DEF Proper
    <2>6. proc'[p] = me
      BY <1>1, <2>2, <2>3
    <2>. QED
      BY <2>2, <2>4, <2>5, <2>6 DEF PC, At, Site
  <1>9. ProcInv'
    BY <1>1, <1>8 DEF ProcInv
  <1>10. Locking' /\ OneWaiter'
    BY <1>1, <1>8 DEF CloudInv, Locking, OneWaiter
  <1>11. ASSUME NEW p \in Callers PROVE Placed(p)'
    <2>1. Placed(p) /\ (PC(p) \notin Nowhere => Site(p) \in Sites)
      BY AtFacts DEF CloudInv
    <2>2. PC(p) = "setLabels" /\ ~proc[p].blind =>
            /\ proc'[p].due <= Limit
            /\ inst[Site(p)] = "RUNNING" => proc'[p].due <= hard'[Site(p)]
      <3> SUFFICES ASSUME PC(p) = "setLabels", ~proc[p].blind
                   PROVE  /\ proc'[p].due <= Limit
                          /\ inst[Site(p)] = "RUNNING" => proc'[p].due <= hard'[Site(p)]
        OBVIOUS
      <3>1. Site(p) \in Sites
        BY <2>1 DEF Nowhere
      <3>2. PICK t, h : t = proc[p].due /\ h = hard[Site(p)]
        OBVIOUS
      <3>3. /\ t <= Limit /\ (inst[Site(p)] = "RUNNING" => t <= h)
            /\ t \in Nat \cup {NoDeadline} /\ h \in NoDeadline .. Limit
        BY <2>1, <3>1, <3>2 DEF Placed, CloudInv, ProcInv, Proper, Process, DataTypes
      <3>4. proc'[p].due = Later(t) /\ hard'[Site(p)] = Later(h)
        BY <1>1, <1>8, <3>1, <3>2
      <3>. QED
        BY <1>3, <1>5, <3>3, <3>4
    <2>3. /\ PC(p)' = PC(p) /\ At(p)' = At(p) /\ Site(p)' = Site(p) /\ proc'[p].gcp = proc[p].gcp
          /\ proc'[p].seen = proc[p].seen /\ proc'[p].blind = proc[p].blind
          /\ UNCHANGED <<rec, pinned, inst, flight, rule, unowned>>
      BY <1>1, <1>8
    <2>4. Recorded(Site(p))' = Recorded(Site(p))
      BY <2>3 DEF Recorded
    <2>. QED
      BY <2>1, <2>2, <2>3, <2>4 DEF Placed
  <1>. QED
    BY <1>4, <1>6, <1>7, <1>9, <1>10, <1>11 DEF CloudInv

LEMMA QuietKeeps ==
    ASSUME CloudInv, EditProject \/ UNCHANGED remoteVars
    PROVE  CloudInv'
  <1>1. UNCHANGED <<served, rec, pinned, lock, inst, flight, rule, hard, soft, proc, unowned, blind>>
    BY DEF EditProject, remoteVars, gce, histories
  <1>2. file' \in [VMs -> Decls]
    BY DEF EditProject, remoteVars, CloudInv, DataTypes
  <1>3. DataTypes' /\ FlightInv' /\ RecordInv' /\ Promised' /\ InstanceRecorded'
    BY <1>1, <1>2 DEF CloudInv, DataTypes, FlightInv, RecordInv, Promised, InstanceRecorded,
         Recorded
  <1>4. ProcInv' /\ Locking' /\ OneWaiter'
    BY <1>1 DEF CloudInv, ProcInv, Locking, OneWaiter, PC, At, Site
  <1>5. \A p \in Callers : Placed(p)'
    BY <1>1 DEF CloudInv, Placed, Recorded, PC, At, Site
  <1>. QED
    BY <1>3, <1>4, <1>5 DEF CloudInv

LEMMA CloudStep == CloudInv /\ [RemoteNext]_remoteVars => CloudInv'
  <1> SUFFICES ASSUME CloudInv, [RemoteNext]_remoteVars PROVE CloudInv'
    OBVIOUS
  <1>1. CASE \E p \in Callers : Acts(p)
    BY <1>1, ActsKeep
  <1>2. CASE \E s \in Sites, ok \in BOOLEAN : Complete(s, ok)
    BY <1>2, CompleteKeeps
  <1>3. CASE \E s \in Sites : TimeLimit(s)
    BY <1>3, LimitKeeps
  <1>4. CASE Tick
    BY <1>4, TickKeeps
  <1>5. CASE EditProject \/ UNCHANGED remoteVars
    BY <1>5, QuietKeeps
  <1>. QED
    BY <1>1, <1>2, <1>3, <1>4, <1>5 DEF RemoteNext, Acts

LEMMA CloudInit == RemoteInit => CloudInv
  <1> SUFFICES ASSUME RemoteInit PROVE CloudInv
    OBVIOUS
  <1>1. PICK d \in Decls, up \in BOOLEAN, g \in Gcps :
          /\ up => GivenFor(d.params, d.recipes) /\ GivenFor(d.secrets, d.recipes)
          /\ file = [n \in VMs |-> d] /\ served = file
          /\ rec = [n \in VMs |-> IF up THEN RecordOf(d) ELSE NoRecord]
          /\ lock = Nobody
          /\ pinned = [n \in VMs |-> IF up THEN g ELSE Listed]
          /\ inst = [s \in Sites |-> IF up /\ s[2] = g THEN "RUNNING" ELSE "none"]
          /\ flight = [s \in Sites |-> "none"]
          /\ rule = [s \in Sites |-> up /\ s[2] = g]
          /\ hard = [s \in Sites |-> IF up /\ s[2] = g THEN Limit ELSE NoDeadline]
          /\ soft = [s \in Sites |-> NoDeadline]
          /\ proc = [p \in Callers |-> Idle]
          /\ unowned = {} /\ blind = {}
    BY DEF RemoteInit
  <1>2. Limit \in Nat /\ Nobody \notin Callers /\ Listed \in Gcps
    BY RemoteAssumption
  <1>3. up => Consistent(RecordOf(d)) /\ RecordOf(d) \in CloudRecord /\ RecordOf(d) # NoRecord
    BY <1>1, CreatedFacts, RecordsAreRecords DEF Consistent
  <1>4. DataTypes
    <2>1. /\ rec \in [VMs -> {NoRecord} \cup CloudRecord] /\ pinned \in [VMs -> Gcps]
          /\ file \in [VMs -> Decls] /\ served \in [VMs -> Decls]
      BY <1>1, <1>2, <1>3
    <2>2. /\ inst \in [Sites -> Statuses] /\ rule \in [Sites -> BOOLEAN]
          /\ flight \in [Sites -> {"none", "insert", "start", "stop", "delete"}]
      BY <1>1 DEF Statuses
    <2>3. hard \in [Sites -> NoDeadline .. Limit] /\ soft \in [Sites -> Nat \cup {NoDeadline}]
      <3>1. Limit \in NoDeadline .. Limit /\ NoDeadline \in NoDeadline .. Limit
        BY <1>2 DEF NoDeadline
      <3>. QED
        BY <1>1, <3>1
    <2>. QED
      BY <1>1, <2>1, <2>2, <2>3 DEF DataTypes
  <1>5. FlightInv /\ RecordInv
    BY <1>1, <1>3 DEF FlightInv, RecordInv
  <1>6. Promised
    BY <1>1, <1>2 DEF Promised, NoDeadline
  <1>7. InstanceRecorded
    BY <1>1, <1>3 DEF InstanceRecorded, Recorded, Sites
  <1>8. \A p \in Callers : proc[p] = Idle /\ PC(p) = "idle"
    BY <1>1 DEF PC, Idle
  <1>9. ProcInv
    BY <1>1, <1>8, IdleProper DEF ProcInv
  <1>10. Locking /\ OneWaiter
    BY <1>1, <1>2, <1>8 DEF Locking, OneWaiter, LockPlaces, Waits
  <1>11. \A p \in Callers : Placed(p)
    BY <1>8 DEF Placed, Waits, Destroying
  <1>. QED
    BY <1>4, <1>5, <1>6, <1>7, <1>9, <1>10, <1>11 DEF CloudInv

LEMMA CloudInvHolds == RemoteSpec => []CloudInv
  BY CloudInit, CloudStep, PTL DEF RemoteSpec

-----------------------------------------------------------------------------
(* What follows from the invariant *)

\* In every state of every project every variable has its type, the lock is held
\* exactly by a process between config.Lock and unlock, and no two processes
\* wait for one operation, which then is going on (RemoteTypeOK).
THEOREM CloudTypes == RemoteSpec => []RemoteTypeOK
  <1>1. ASSUME CloudInv PROVE RemoteTypeOK
    <2>1. proc \in [Callers -> Process]
      BY <1>1 DEF CloudInv, ProcInv, Proper
    <2>2. \A s \in Sites : \A p, q \in Waiting(s) : p = q /\ flight[s] # "none"
      <3> SUFFICES ASSUME NEW s \in Sites, NEW p \in Waiting(s), NEW q \in Waiting(s)
                   PROVE  p = q /\ flight[s] # "none"
        OBVIOUS
      <3>1. PC(p) \in Waits /\ Site(p) = s /\ p \in Callers /\ PC(q) \in Waits /\ Site(q) = s
            /\ q \in Callers
        BY DEF Waiting
      <3>. QED
        BY <1>1, <3>1 DEF CloudInv, OneWaiter, Placed, Awaited, Waits
    <2>. QED
      BY <1>1, <2>1, <2>2 DEF CloudInv, DataTypes, Locking, RemoteTypeOK
  <1>. QED
    BY <1>1, CloudInvHolds, PTL

BornStep == \A s \in Sites : inst[s] = "none" /\ inst'[s] # "none" => rule[s]

DestroyStep ==
    \A p \in Callers : PC(p) = "recordDelete" /\ rec' # rec => inst[Site(p)] = "none" /\ ~rule[Site(p)]

LEMMA BornHolds == CloudInv /\ [RemoteNext]_remoteVars => BornStep
  <1> SUFFICES ASSUME CloudInv, [RemoteNext]_remoteVars,
                      NEW s \in Sites, inst[s] = "none", inst'[s] # "none"
               PROVE  rule[s]
    BY DEF BornStep
  <1>1. CASE \E p \in Callers : Acts(p)
    <2>1. PICK p \in Callers : Acts(p)
      BY <1>1
    <2>2. CASE Insert(p)
      <3>1. PC(p) = "insert" /\ rule[Site(p)]
        BY <2>2 DEF Insert, CloudInv, Placed
      <3>2. inst' = inst \/ inst' = [inst EXCEPT ![Site(p)] = "STAGING"]
        BY <2>2 DEF Insert
      <3>. QED
        BY <3>1, <3>2 DEF CloudInv, DataTypes
    <2>3. CASE InstanceStart(p) \/ InstanceStop(p) \/ InstanceDelete(p)
      <3>1. \/ inst' = inst
            \/ inst[Site(p)] # "none" /\ \E st \in Statuses : inst' = [inst EXCEPT ![Site(p)] = st]
        BY <2>3 DEF InstanceStart, InstanceStop, InstanceDelete, Statuses
      <3>. QED
        BY <3>1 DEF CloudInv, DataTypes
    <2>4. CASE ~(Insert(p) \/ InstanceStart(p) \/ InstanceStop(p) \/ InstanceDelete(p))
      <3>1. inst' = inst
        BY <2>1, <2>4 DEF Acts, Step, Load, Create, DiffStep, Update, Get, StartLoad, StartLock,
             Firewall, Undo, StopState, RmGet, DestroyLock, RuleDelete, RecordDelete, PruneLock, List,
             Sweep, ExtendGet, SetLabels, LoseContact, KillCommand, FanOut, Prune, Extend, Invoke, gce
      <3>. QED
        BY <3>1
    <2>. QED
      BY <2>2, <2>3, <2>4
  <1>2. CASE \E m \in Sites, ok \in BOOLEAN : Complete(m, ok)
    BY <1>2, CompleteCloud DEF CloudInv
  <1>3. CASE \E m \in Sites : TimeLimit(m)
    BY <1>3 DEF TimeLimit, CloudInv, DataTypes
  <1>4. CASE Tick \/ EditProject \/ UNCHANGED remoteVars
    BY <1>4 DEF Tick, EditProject, remoteVars, gce
  <1>. QED
    BY <1>1, <1>2, <1>3, <1>4 DEF RemoteNext, Acts

LEMMA DestroyHolds == CloudInv /\ [RemoteNext]_remoteVars => DestroyStep
  BY DEF CloudInv, Placed, DestroyStep

\* Whatever is killed, refused or left unanswered, every instance has a record
\* that names it (but for one started from a record removed before the lock was
\* taken, and one whose record prune dropped because it is pinned to another GCP
\* project than config.toml's), no soft deadline is later than the hard one (but
\* for one given before there was a hard one), no instance begins to come up
\* before its firewall rule exists, and a VM reported as deleted leaves neither
\* instance nor rule where its record was pinned (CloudAccounted).
THEOREM CloudStaysAccounted == RemoteSpec => CloudAccounted
  <1>1. CloudInv => InstanceRecorded /\ SoftWithinHard
    BY DEF CloudInv, Promised, SoftWithinHard
  <1>2. RemoteSpec => [](InstanceRecorded /\ SoftWithinHard)
    BY <1>1, CloudInvHolds, PTL
  <1>3. RemoteSpec => [][BornStep]_remoteVars
    BY CloudInvHolds, BornHolds, PTL DEF RemoteSpec
  <1>4. RemoteSpec => [][DestroyStep]_remoteVars
    BY CloudInvHolds, DestroyHolds, PTL DEF RemoteSpec
  <1>5. RemoteSpec => BornLocked
    BY <1>3 DEF BornLocked, BornStep
  <1>6. RemoteSpec => DestroyClean
    BY <1>4 DEF DestroyClean, DestroyStep
  <1>. QED
    BY <1>2, <1>5, <1>6 DEF CloudAccounted

ConvergeStep ==
    \A p \in Callers :
       LET n == At(p)
           d == Declared(p)
       IN  PC(p) \in {"create", "update"} /\ proc'[p].pc \notin {"idle", PC(p)}
             /\ Undisturbed(p) /\ GivenFor(d.params, d.recipes)
           => /\ Diff(rec'[n], d) = {}
              /\ \A r \in d.recipes : d.secrets[r] # Unset => rec'[n].secrets[r] = d.secrets[r]
              /\ GivenFor(rec'[n].params, rec'[n].recipes)
              /\ GivenFor(rec'[n].secrets, rec'[n].recipes)

\* A process at Reconcile's write that goes on is at that write.
LEMMA WritesItself ==
    ASSUME CloudInv, [RemoteNext]_remoteVars, NEW p \in Callers,
           PC(p) \in {"create", "update"}, proc'[p].pc \notin {"idle", PC(p)}
    PROVE  Create(p) \/ Update(p)
  <1>1. proc'[p] # proc[p]
    BY DEF PC
  <1>2. CASE \E q \in Callers : Acts(q)
    <2>1. PICK q \in Callers : Acts(q)
      BY <1>2
    <2>2. q = p
      BY <1>1, <2>1, StepShape, ShapeKeeps DEF CloudInv
    <2>3. ~KillCommand(p)
      BY DEF KillCommand, Set, Idle, CloudInv, ProcInv
    <2>. QED
      BY <2>1, <2>2, <2>3 DEF Acts, Step, Load, DiffStep, Get, StartLoad, StartLock, Firewall, Insert,
         Undo, InstanceStart, StopState, InstanceStop, RmGet, DestroyLock, InstanceDelete, RuleDelete,
         RecordDelete, PruneLock, List, Sweep, ExtendGet, SetLabels, LoseContact, FanOut, Prune,
         Extend, Invoke, Waits
  <1>3. CASE \E s \in Sites, ok \in BOOLEAN : Complete(s, ok)
    <2>1. \A s \in Sites : p \notin Waiting(s)
      BY DEF Waiting, Waits
    <2>. QED
      BY <1>1, <1>3, <2>1 DEF Complete
  <1>4. CASE \E s \in Sites : TimeLimit(s)
    BY <1>1, <1>4 DEF TimeLimit
  <1>5. CASE Tick
    <2>1. proc[p] \in Process
      BY DEF CloudInv, ProcInv, Proper
    <2>2. proc'[p].pc = proc[p].pc
      BY <1>5, <2>1 DEF Tick, Process
    <2>. QED
      BY <2>2 DEF PC
  <1>6. CASE EditProject \/ UNCHANGED remoteVars
    BY <1>1, <1>6 DEF EditProject, remoteVars
  <1>. QED
    BY <1>2, <1>3, <1>4, <1>5, <1>6 DEF RemoteNext, Acts

\* A failed step ends the command.
LEMMA FailedIsIdle ==
    ASSUME ProcInv, NEW p \in Callers, Go(p, "failed")
    PROVE  proc'[p].pc = "idle"
  <1>1. proc' = [proc EXCEPT ![p] = Idle]
    BY DEF Go, Set, Moved
  <1>. QED
    BY <1>1 DEF ProcInv, Idle

LEMMA ConvergeHolds == CloudInv /\ [RemoteNext]_remoteVars => ConvergeStep
  <1> SUFFICES ASSUME CloudInv, [RemoteNext]_remoteVars, NEW p \in Callers,
                      PC(p) \in {"create", "update"}, proc'[p].pc \notin {"idle", PC(p)},
                      Undisturbed(p), GivenFor(Declared(p).params, Declared(p).recipes)
               PROVE  /\ Diff(rec'[At(p)], Declared(p)) = {}
                      /\ \A r \in Declared(p).recipes : Declared(p).secrets[r] # Unset =>
                           rec'[At(p)].secrets[r] = Declared(p).secrets[r]
                      /\ GivenFor(rec'[At(p)].params, rec'[At(p)].recipes)
                      /\ GivenFor(rec'[At(p)].secrets, rec'[At(p)].recipes)
    BY DEF ConvergeStep
  <1>1. At(p) \in VMs /\ Declared(p) \in Decls
    <2>1. PC(p) \notin Nowhere /\ proc[p].cmd \in Ups
      BY DEF CloudInv, ProcInv, Proper, PC, Nowhere
    <2>. QED
      BY <2>1, AtFacts DEF CloudInv
  <1>2. ~Go(p, "failed")
    BY FailedIsIdle DEF CloudInv
  <1>3. PICK d \in Decls : d = Declared(p)
    BY <1>1
  <1>4. CASE Create(p)
    <2>1. /\ GivenFor(d.params, d.recipes) /\ GivenFor(d.secrets, d.recipes)
          /\ rec' = [rec EXCEPT ![At(p)] = RecordOf(d)]
      BY <1>2, <1>3, <1>4 DEF Create
    <2>2. rec'[At(p)] = RecordOf(d)
      BY <1>1, <2>1 DEF CloudInv, DataTypes
    <2>3. Consistent(RecordOf(d)) /\ Diff(RecordOf(d), d) = {} /\ RecordOf(d).secrets = d.secrets
      BY <2>1, CreatedFacts
    <2>. QED
      BY <1>3, <2>2, <2>3 DEF Consistent
  <1>5. CASE Update(p)
    <2>1. PICK v : v = rec[At(p)]
      OBVIOUS
    <2>2. PICK fields : fields = proc[p].drift
      OBVIOUS
    <2>3. PC(p) = "update" /\ v = proc[p].had /\ fields = Diff(v, d)
      BY <1>3, <1>5, <2>1, <2>2 DEF Undisturbed, Update
    <2>4. PICK unset : unset = IF "params" \in fields THEN RemovedParams(v, d) ELSE {}
      OBVIOUS
    <2>5. /\ v # NoRecord /\ Accepted(v, d, fields, unset)
          /\ rec' = [rec EXCEPT ![At(p)] = Patched(v, d, fields, unset)]
      BY <1>2, <1>3, <1>5, <2>1, <2>2, <2>3, <2>4 DEF Update
    <2>6. Consistent(v)
      BY <1>1, <2>1, <2>5 DEF CloudInv, RecordInv
    <2>7. PICK w : w = Patched(v, d, fields, unset)
      OBVIOUS
    <2>8. Consistent(w)
      BY <2>5, <2>6, <2>7, PatchedFacts
    <2>9. /\ Diff(w, d) = {}
          /\ \A r \in d.recipes : d.secrets[r] # Unset => w.secrets[r] = d.secrets[r]
      BY <1>3, <2>3, <2>4, <2>6, <2>7, PatchConverges
    <2>10. rec'[At(p)] = w
      BY <1>1, <2>5, <2>7 DEF CloudInv, DataTypes
    <2>. QED
      BY <1>3, <2>8, <2>9, <2>10 DEF Consistent
  <1>. QED
    BY <1>4, <1>5, WritesItself

\* A Reconcile whose record nobody else changed, of a declaration whose
\* parameters are for recipes it names, leaves a record that matches the
\* declaration (Converges): after it, Diff finds nothing.
THEOREM UpConverges == RemoteSpec => Converges
  <1>1. RemoteSpec => [][ConvergeStep]_remoteVars
    BY CloudInvHolds, ConvergeHolds, PTL DEF RemoteSpec
  <1>. QED
    BY <1>1 DEF Converges, ConvergeStep
=============================================================================
