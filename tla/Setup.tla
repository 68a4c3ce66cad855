------------------------------- MODULE Setup -------------------------------
(***************************************************************************)
(* What every stoat command does to the data root before its own work:     *)
(* recipes.Install brings the bundled recipe files up to date and leaves   *)
(* edited ones alone, keys.Ensure makes the ssh key pair.  With them goes  *)
(* `stoat recipe refresh`, which rewrites edited files too.  Install and   *)
(* Refresh take no lock and os.WriteFile truncates before it writes; two   *)
(* commands may do both at the same time and be cut short anywhere.        *)
(***************************************************************************)
EXTENDS Naturals, Sequences, FiniteSets, FiniteSetsExt

CONSTANTS
    Procs,        \* stoat processes
    NoProc,
    Walk,         \* the files of a recipe directory, in the order WalkDir has
    Ships,        \* the files each release bundles
    RefreshAlone, \* whether `recipe refresh` runs with no other command beside it
    MaxCuts       \* commands killed, or stopped by a failed write

RecipeFiles == {Walk[i] : i \in DOMAIN Walk}
Releases    == DOMAIN Ships

ASSUME ShipsAssumption == /\ Walk \in Seq(RecipeFiles)
                          /\ Ships \in Seq(SUBSET RecipeFiles) /\ Ships # <<>>
ASSUME SetupAssumption == NoProc \notin Procs /\ RefreshAlone \in BOOLEAN /\ MaxCuts \in Nat

VARIABLES
    release,      \* the release of the stoat binary
    recipe, bak,  \* what each recipe file and its .bak hold
    edited,       \* history: the files the user has saved
    manifest,     \* .manifest: whether it is there, and the text it records for each file
    flat, attic,  \* whether a v1 flat recipe file is in recipes/, in .v1-removed/
    at, asks,     \* the step each process is at, and the command it runs
    mem,          \* what each process has in memory
    keyLock,      \* who holds .keys.lock
    priv, pub,    \* the run of ssh-keygen each half of id_stoat is from
    keygens,      \* runs of ssh-keygen so far
    trusted,      \* history: the key in place when an Ensure first returned
    spoiled,      \* history: files read half written, or left by a command cut short
    cuts

recipeVars == <<recipe, bak, edited, manifest, flat, attic, spoiled>>
keyVars    == <<keyLock, priv, pub, keygens, trusted>>
setupVars  == <<release, recipeVars, at, asks, mem, keyVars, cuts>>

\* The contents of a file: a release's text is the release's number, and no two
\* texts have the same checksum.
None  == 0
Torn  == Len(Ships) + 1   \* truncated and not yet written
Users == Len(Ships) + 2   \* saved by the user
Texts == 0 .. Users

NoSums == [f \in RecipeFiles |-> None]
NoMem  == [refreshing |-> FALSE, man |-> [there |-> FALSE, sums |-> NoSums],
           next |-> NoSums, todo |-> {}, have |-> None]

InRecipes == {"sweep", "move", "manifest", "file", "bak_trunc", "bak_write",
              "trunc", "write", "remove", "man_trunc", "man_write"}
InKeys    == {"stat", "stat_pub", "flock", "check", "keygen", "keygen_pub", "keygen_end"}

Sums   == [RecipeFiles -> Releases \cup {None}]
Memory == [refreshing : BOOLEAN, man : [there : BOOLEAN, sums : Sums], next : Sums,
           todo : SUBSET RecipeFiles, have : Texts]

SetupTypeOK ==
    /\ release \in Releases
    /\ recipe \in [RecipeFiles -> Texts] /\ bak \in [RecipeFiles -> Texts]
    /\ edited \subseteq RecipeFiles /\ spoiled \subseteq RecipeFiles
    /\ manifest \in [there : BOOLEAN, sums : Sums]
    /\ flat \in BOOLEAN /\ attic \in BOOLEAN
    /\ at \in [Procs -> InRecipes \cup InKeys \cup {"idle", "ready"}]
    /\ asks \in [Procs -> {"command", "refresh"}]
    /\ mem \in [Procs -> Memory]
    /\ keyLock \in Procs \cup {NoProc} /\ keygens \in Nat
    /\ {priv, pub, trusted} \subseteq 0 .. keygens + 1
    /\ cuts \in 0 .. MaxCuts

\* A fresh data root, or one a stoat from before the manifest left, whose
\* recipes the user may have edited.
SetupInit ==
    /\ \/ release = 1 /\ recipe = NoSums /\ flat = FALSE
       \/ /\ release \in Releases /\ flat = TRUE
          /\ recipe \in [RecipeFiles -> {None, 1, Users}]
          /\ \A f \in RecipeFiles : recipe[f] # None <=> f \in Ships[1]
    /\ edited = {f \in RecipeFiles : recipe[f] = Users}
    /\ bak = NoSums /\ manifest = NoMem.man /\ attic = FALSE
    /\ at = [p \in Procs |-> "idle"] /\ asks = [p \in Procs |-> "command"]
    /\ mem = [p \in Procs |-> NoMem]
    /\ keyLock = NoProc /\ priv = None /\ pub = None /\ keygens = 0 /\ trusted = None
    /\ spoiled = {} /\ cuts = 0

Goto(p, s) == at' = [at EXCEPT ![p] = s]
Writing(p) == at[p] \in InRecipes
OthersIdle(p) == \A q \in Procs \ {p} : at[q] \in {"idle", "ready"}

-----------------------------------------------------------------------------
(* The command, the upgrade and the user *)

Command(p) ==
    /\ at[p] = "idle"
    /\ \E c \in {"command", "refresh"} :
          /\ RefreshAlone => (IF c = "refresh" THEN OthersIdle(p)
                              ELSE \A q \in Procs : at[q] = "idle" \/ asks[q] # "refresh")
          /\ asks' = [asks EXCEPT ![p] = c]
    /\ Goto(p, "sweep")
    /\ UNCHANGED <<release, recipeVars, mem, keyVars, cuts>>

\* The command proper is over.
CommandEnds(p) ==
    /\ at[p] = "ready"
    /\ Goto(p, "idle") /\ asks' = [asks EXCEPT ![p] = "command"]
    /\ UNCHANGED <<release, recipeVars, mem, keyVars, cuts>>

\* A newer stoat is installed while none runs.
Upgrade ==
    /\ \A p \in Procs : at[p] = "idle"
    /\ release + 1 \in Releases /\ release' = release + 1
    /\ UNCHANGED <<recipeVars, at, asks, mem, keyVars, cuts>>

\* The user saves a recipe file, while no command is in the middle of them.
UserEdits(f) ==
    /\ \A p \in Procs : ~Writing(p)
    /\ recipe[f] \notin {None, Users}
    /\ recipe' = [recipe EXCEPT ![f] = Users]
    /\ edited' = edited \cup {f} /\ spoiled' = spoiled \ {f}
    /\ UNCHANGED <<release, bak, manifest, flat, attic, at, asks, mem, keyVars, cuts>>

-----------------------------------------------------------------------------
(* recipes.Install and recipes.Refresh *)

SweepLists(p) ==
    /\ at[p] = "sweep"
    /\ Goto(p, IF flat THEN "move" ELSE "manifest")
    /\ UNCHANGED <<release, recipeVars, asks, mem, keyVars, cuts>>

\* Rename into the attic, or Remove when the attic has one.  Either fails, and
\* Install with it, when another command has swept the file.
SweepMoves(p) ==
    /\ at[p] = "move"
    /\ flat' = FALSE /\ attic' = TRUE
    /\ Goto(p, IF flat THEN "manifest" ELSE "idle")
    /\ UNCHANGED <<release, recipe, bak, edited, manifest, spoiled, asks, mem, keyVars, cuts>>

\* A truncated manifest is there and records nothing.  Refresh starts from
\* what is recorded, Install from nothing.
ReadManifest(p) ==
    /\ at[p] = "manifest"
    /\ mem' = [mem EXCEPT ![p].man = manifest,
                          ![p].todo = IF mem[p].refreshing THEN RecipeFiles ELSE Ships[release],
                          ![p].next = IF mem[p].refreshing THEN manifest.sums ELSE NoSums]
    /\ Goto(p, "file")
    /\ UNCHANGED <<release, recipeVars, asks, keyVars, cuts>>

\* The walk goes through the files of the release and then, for Refresh, through
\* the others there are, each time in WalkDir's order.
Round(p) == IF mem[p].todo \cap Ships[release] # {} THEN mem[p].todo \cap Ships[release]
            ELSE mem[p].todo
File(p)  == Walk[Min({i \in DOMAIN Walk : Walk[i] \in Round(p)})]

NextFile(p, m) == mem' = [mem EXCEPT ![p] = [m EXCEPT !.todo = @ \ {File(p)}, !.have = None]]

Record(p, f) == [mem[p] EXCEPT !.next[f] = release]

\* What installFile, refreshFile and refreshOrphans do with what they read.
InstallDecides(p, have) ==
    IF have = None THEN "trunc"
    ELSE IF have = release THEN "current"
    ELSE IF ~mem[p].man.there THEN "bak_trunc"
    ELSE IF mem[p].man.sums[File(p)] # have THEN "leave" ELSE "trunc"
RefreshDecides(p, have) ==
    IF have = None THEN "trunc" ELSE IF have = release THEN "current" ELSE "bak_trunc"
OrphanDecides(p, have) ==
    IF have = None \/ mem[p].next[File(p)] # None THEN "leave" ELSE "bak_trunc"

\* Mutants: every file that differs counts as stoat's own and no copy is kept;
\* a file that is current is not recorded again.
MutOverwrites(p, have) ==
    IF File(p) \notin Ships[release] THEN OrphanDecides(p, have)
    ELSE IF have = release THEN "current" ELSE "trunc"

MutCurrentUnrecorded(p, have) ==
    IF File(p) \notin Ships[release] THEN OrphanDecides(p, have)
    ELSE IF mem[p].refreshing THEN RefreshDecides(p, have)
    ELSE IF have = release THEN "leave" ELSE InstallDecides(p, have)

Decides(p, have) ==
    IF File(p) \notin Ships[release] THEN OrphanDecides(p, have)
    ELSE IF mem[p].refreshing THEN RefreshDecides(p, have)
    ELSE InstallDecides(p, have)

ReadRecipe(p) ==
    /\ at[p] = "file"
    /\ IF mem[p].todo = {} THEN Goto(p, "man_trunc") /\ UNCHANGED <<mem, spoiled>>
       ELSE LET f == File(p)  have == recipe[f]  do == Decides(p, have) IN
            /\ CASE do = "current" -> NextFile(p, Record(p, f)) /\ UNCHANGED at
                 [] do = "leave"   -> NextFile(p, mem[p]) /\ UNCHANGED at
                 [] OTHER -> Goto(p, do) /\ mem' = [mem EXCEPT ![p].have = have]
            /\ spoiled' = IF have = Torn THEN spoiled \cup {f} ELSE spoiled
    /\ UNCHANGED <<release, recipe, bak, edited, manifest, flat, attic, asks, keyVars, cuts>>

\* os.WriteFile(dst+".bak"), then os.WriteFile(dst) or, for an orphan, Remove.
TruncateBak(p) ==
    /\ at[p] = "bak_trunc"
    /\ bak' = [bak EXCEPT ![File(p)] = Torn]
    /\ Goto(p, "bak_write")
    /\ UNCHANGED <<release, recipe, edited, manifest, flat, attic, spoiled, asks, mem, keyVars, cuts>>

WriteBak(p) ==
    /\ at[p] = "bak_write"
    /\ bak' = [bak EXCEPT ![File(p)] = mem[p].have]
    /\ Goto(p, IF File(p) \in Ships[release] THEN "trunc" ELSE "remove")
    /\ UNCHANGED <<release, recipe, edited, manifest, flat, attic, spoiled, asks, mem, keyVars, cuts>>

TruncateRecipe(p) ==
    /\ at[p] = "trunc"
    /\ recipe' = [recipe EXCEPT ![File(p)] = Torn]
    /\ Goto(p, "write")
    /\ UNCHANGED <<release, bak, edited, manifest, flat, attic, spoiled, asks, mem, keyVars, cuts>>

WriteRecipe(p) ==
    /\ at[p] = "write"
    /\ recipe' = [recipe EXCEPT ![File(p)] = release]
    /\ NextFile(p, Record(p, File(p)))
    /\ Goto(p, "file")
    /\ UNCHANGED <<release, bak, edited, manifest, flat, attic, spoiled, asks, keyVars, cuts>>

\* A second Refresh may have removed the orphan: Remove fails, Refresh returns.
RemoveOrphan(p) ==
    /\ at[p] = "remove"
    /\ recipe' = [recipe EXCEPT ![File(p)] = None]
    /\ IF recipe[File(p)] = None
       THEN Goto(p, "ready") /\ mem' = [mem EXCEPT ![p] = NoMem]
       ELSE Goto(p, "file") /\ NextFile(p, mem[p])
    /\ UNCHANGED <<release, bak, edited, manifest, flat, attic, spoiled, asks, keyVars, cuts>>

TruncateManifest(p) ==
    /\ at[p] = "man_trunc"
    /\ manifest' = [there |-> TRUE, sums |-> NoSums]
    /\ Goto(p, "man_write")
    /\ UNCHANGED <<release, recipe, bak, edited, flat, attic, spoiled, asks, mem, keyVars, cuts>>

\* Install is followed by Ensure, Refresh is the end.
WriteManifest(p) ==
    /\ at[p] = "man_write"
    /\ manifest' = [there |-> TRUE, sums |-> mem[p].next]
    /\ Goto(p, IF mem[p].refreshing THEN "ready" ELSE "stat")
    /\ mem' = [mem EXCEPT ![p] = NoMem]
    /\ UNCHANGED <<release, recipe, bak, edited, flat, attic, spoiled, asks, keyVars, cuts>>

-----------------------------------------------------------------------------
(* keys.Ensure *)

\* Ensure returns.  `recipe refresh` goes on with Refresh.
Ensured(p) ==
    /\ IF asks[p] = "refresh"
       THEN Goto(p, "manifest") /\ mem' = [mem EXCEPT ![p].refreshing = TRUE]
       ELSE Goto(p, "ready") /\ UNCHANGED mem
    /\ trusted' = IF trusted = None THEN priv ELSE trusted

\* pairExists, without the lock: one Stat, then the other.
StatPrivate(p) ==
    /\ at[p] = "stat"
    /\ Goto(p, IF priv = None THEN "flock" ELSE "stat_pub")
    /\ UNCHANGED <<release, recipeVars, asks, mem, keyVars, cuts>>

StatPublic(p) ==
    /\ at[p] = "stat_pub"
    /\ IF pub = None THEN Goto(p, "flock") /\ UNCHANGED <<mem, trusted>> ELSE Ensured(p)
    /\ UNCHANGED <<release, recipeVars, asks, keyLock, priv, pub, keygens, cuts>>

LockKeys(p) ==
    /\ at[p] = "flock" /\ keyLock = NoProc
    /\ keyLock' = p /\ Goto(p, "check")
    /\ UNCHANGED <<release, recipeVars, asks, mem, priv, pub, keygens, trusted, cuts>>

\* Mutant: the pair is not looked for again under the lock.
MutClearAlways(p) ==
    /\ at[p] = "check"
    /\ priv' = None /\ pub' = None /\ Goto(p, "keygen")
    /\ UNCHANGED <<release, recipeVars, asks, mem, keyLock, keygens, trusted, cuts>>

\* pairExists again under the lock; else both halves are removed.
CheckAndClear(p) ==
    /\ at[p] = "check"
    /\ IF priv # None /\ pub # None
       THEN Ensured(p) /\ keyLock' = NoProc /\ UNCHANGED <<priv, pub>>
       ELSE /\ priv' = None /\ pub' = None /\ Goto(p, "keygen")
            /\ UNCHANGED <<mem, keyLock, trusted>>
    /\ UNCHANGED <<release, recipeVars, asks, keygens, cuts>>

\* ssh-keygen writes the private key, makes id_stoat.pub, and writes it.
KeygenPrivate(p) ==
    /\ at[p] = "keygen"
    /\ keygens' = keygens + 1 /\ priv' = keygens'
    /\ Goto(p, "keygen_pub")
    /\ UNCHANGED <<release, recipeVars, asks, mem, keyLock, pub, trusted, cuts>>

KeygenPublic(p) ==
    /\ at[p] = "keygen_pub"
    /\ pub' = keygens + 1    \* there, and empty
    /\ Goto(p, "keygen_end")
    /\ UNCHANGED <<release, recipeVars, asks, mem, keyLock, priv, keygens, trusted, cuts>>

KeygenEnds(p) ==
    /\ at[p] = "keygen_end"
    /\ pub' = priv
    /\ Ensured(p) /\ keyLock' = NoProc
    /\ UNCHANGED <<release, recipeVars, asks, priv, keygens, cuts>>

-----------------------------------------------------------------------------
\* The command is killed, its ssh-keygen with it, or a write fails.  What it
\* was at stays as it is, and its flock is released.
CutShort(p) ==
    /\ cuts < MaxCuts /\ at[p] \notin {"idle", "ready"}
    /\ cuts' = cuts + 1
    /\ Goto(p, "idle") /\ asks' = [asks EXCEPT ![p] = "command"]
    /\ mem' = [mem EXCEPT ![p] = NoMem]
    /\ keyLock' = IF keyLock = p THEN NoProc ELSE keyLock
    /\ spoiled' = IF Writing(p) THEN RecipeFiles ELSE spoiled
    /\ UNCHANGED <<release, recipe, bak, edited, manifest, flat, attic,
                   priv, pub, keygens, trusted>>

SetupStep(p) ==
    \/ Command(p) \/ SweepLists(p) \/ SweepMoves(p) \/ ReadManifest(p) \/ ReadRecipe(p)
    \/ TruncateBak(p) \/ WriteBak(p) \/ TruncateRecipe(p) \/ WriteRecipe(p) \/ RemoveOrphan(p)
    \/ TruncateManifest(p) \/ WriteManifest(p)
    \/ StatPrivate(p) \/ StatPublic(p) \/ LockKeys(p) \/ CheckAndClear(p)
    \/ KeygenPrivate(p) \/ KeygenPublic(p) \/ KeygenEnds(p)
    \/ CutShort(p)

-----------------------------------------------------------------------------
(* Properties *)

\* A copy of f the user saved last is on its way into f.bak.
BackingUp(f) == \E p \in Procs : at[p] = "bak_write" /\ File(p) = f /\ mem[p].have = Users

\* What the user saved last in a recipe file is in it or in its .bak, whatever
\* commands, upgrades and refreshes ran over it, as long as no command was cut
\* short and none read the file half written ("the one-time adoption destroys
\* nothing").
EditKept ==
    \A f \in (edited \cap Ships[release]) \ spoiled : Users \in {recipe[f], bak[f]} \/ BackingUp(f)

\* stoat knows its own copies: between commands an unedited file of this
\* release is what the manifest records for it, so that the next release
\* replaces it and does not take it for an edit ("a fixed recipe never reached
\* anyone who already had the buggy one").
StockRecognised ==
    manifest.there /\ (\A p \in Procs : ~Writing(p)) =>
        \A f \in Ships[release] \ spoiled :
            recipe[f] \in Releases => manifest.sums[f] = recipe[f]

\* stoat's own copies and the user's are told apart through all of it: neither
\* is an edit lost nor a stock file kept for an edit.
EditsToldApart == EditKept /\ StockRecognised

\* The key a command has gone on with stays the key: no later Ensure makes
\* another pair, whatever was cut short ("Regenerating would hand out a key
\* the winner's already-seeded guest does not accept").
KeyStable == trusted # None => priv = trusted /\ pub # None
============================================================================
