------------------------------- MODULE Images -------------------------------
(***************************************************************************)
(* The image cache isos/ under the data root and everything that writes or *)
(* reads it: downloads (internal/iso and core.DownloadImage), Create, the  *)
(* first start of a cloud VM, which puts a copy-on-write overlay on an     *)
(* image (backend/cloudinit.go), and prune.                                *)
(*                                                                         *)
(* Downloads hold no lock: they meet each other and prune only in the      *)
(* directory.  Create, Destroy and prune hold the flock of the data root.  *)
(*                                                                         *)
(* An image is its blocks, each of some published version: 0 is a hole.    *)
(* An entry is a direct-URL one, whose file keeps its name while the       *)
(* publisher rolls the bytes and the sums file forward.  Time is counted   *)
(* in stall timeouts of a minute.                                          *)
(***************************************************************************)
EXTENDS Integers, FiniteSets

CONSTANTS
    Entries,       \* catalog entries
    Catalogs,      \* which of them may have a ChecksumURL: sets of entries
    Downloaders,   \* goroutines or processes that may download
    VMs,           \* names of cloud VMs
    MaxVersion,    \* times the publisher releases an image
    MaxParts       \* .part files at a time

ASSUME CatalogsAssumption == Catalogs \subseteq SUBSET Entries
ASSUME BoundsAssumption == MaxVersion \in Nat \ {0} /\ MaxParts \in Nat \ {0}
ASSUME NoneAssumption == "none" \notin Entries

VARIABLES
    summed,      \* the entries with a ChecksumURL; immutable
    published,   \* the version each entry's URL serves
    isos,        \* isos/<file>: the blocks of the image, or NoFile
    parts,       \* isos/<file>.<random>.part: entry, blocks, age of its mtime
    dl,          \* the downloads
    vm,          \* the records and disks
    start,       \* how far a start of each VM has come
    lock,        \* who holds the data root's flock
    maker,       \* a create at work
    pruner       \* a prune at work

vars == <<summed, published, isos, parts, dl, vm, start, lock, maker, pruner>>

Blocks   == 1..2
Versions == 1..MaxVersion
Data     == [Blocks -> 0..MaxVersion]
NoFile   == <<>>
Complete(v) == [b \in Blocks |-> v]

Parts    == 1..MaxParts
NoPart   == [e |-> "none", data |-> NoFile, age |-> 0]
NoEntry  == "none"

(* stallTimeout and partStaleAfter.                                        *)
Stall      == 1
StaleAfter == 2 * Stall

Idle  == [pc |-> "idle", e |-> NoEntry, sum |-> 0, got |-> 0, done |-> 0, part |-> 0]
NoVM  == [image |-> NoEntry, disk |-> NoFile, seed |-> FALSE, up |-> FALSE, broken |-> FALSE]
NoOne == "none"
NoMaker == [pc |-> "idle", n |-> NoOne, e |-> NoEntry]
Resting == [pc |-> "idle", images |-> FALSE, left |-> {}]

Init ==
    /\ summed \in Catalogs
    /\ published = [e \in Entries |-> 1]
    /\ isos = [e \in Entries |-> NoFile]
    /\ parts = [p \in Parts |-> NoPart]
    /\ dl = [d \in Downloaders |-> Idle]
    /\ vm = [n \in VMs |-> NoVM]
    /\ start = [n \in VMs |-> "idle"]
    /\ lock = NoOne
    /\ maker = NoMaker
    /\ pruner = Resting

------------------------------------------------------------------------------
(* Downloads: core.DownloadImage, iso.Resolve, iso.Download                *)

Downloading == UNCHANGED <<summed, published, vm, start, lock, maker, pruner>>

At(d, pc)  == dl[d].pc = pc
Give(d)    == dl' = [dl EXCEPT ![d] = Idle]
Removed(p) == [parts EXCEPT ![p] = NoPart]

Fetch(d, e) ==
    /\ Downloading
    /\ At(d, "idle")
    /\ dl' = [dl EXCEPT ![d] = [Idle EXCEPT !.pc = "resolve", !.e = e]]
    /\ UNCHANGED <<isos, parts>>

(* The published digest of an entry: 0 for one that has no sums file.      *)
PublishedSum(e) == IF e \in summed THEN published[e] ELSE 0

(* The digest of the file under the final name.                            *)
HasDigest(e, sum) == sum # 0 /\ isos[e] = Complete(sum)

(* Resolve reads the sums file, if the entry has one; it takes no context  *)
(* and is bounded by its client's timeout.                                 *)
Resolve(d) ==
    /\ Downloading
    /\ At(d, "resolve")
    /\ \/ dl' = [dl EXCEPT ![d].pc = "get",
                          ![d].sum = PublishedSum(dl[d].e)]
       \/ Give(d)
    /\ UNCHANGED <<isos, parts>>

(* os.Create of one .part per image, as it was before CreateTemp.          *)
MutCreateTemp(d, p) ==
    IF \E q \in Parts : parts[q].e = dl[d].e THEN parts[p].e = dl[d].e ELSE parts[p] = NoPart

(* A file name of its own for every download.                              *)
CreateTemp(d, p) == parts[p] = NoPart

(* A file whose digest is the published one is used as it is.  Otherwise  *)
(* the server answers with the image it has now, of a known length, and    *)
(* the .part is created; or the request fails or its context is cancelled. *)
Get(d) ==
    /\ Downloading
    /\ At(d, "get")
    /\ \/ /\ ~HasDigest(dl[d].e, dl[d].sum)
          /\ \E p \in Parts :
              /\ CreateTemp(d, p)
              /\ parts' = [parts EXCEPT ![p] = [e |-> dl[d].e, data |-> Complete(0), age |-> 0]]
              /\ dl' = [dl EXCEPT ![d].pc = "read", ![d].got = published[dl[d].e],
                                  ![d].part = p]
       \/ Give(d) /\ UNCHANGED parts
    /\ UNCHANGED isos

(* A chunk is written and pushes the stall deadline back.                  *)
Chunk(d) ==
    /\ Downloading
    /\ At(d, "read")
    /\ LET b == dl[d].done + 1
       IN  /\ parts' = [parts EXCEPT ![dl[d].part].data[b] = dl[d].got,
                                     ![dl[d].part].age = 0]
           /\ dl' = [dl EXCEPT ![d].done = b,
                               ![d].pc = IF b = Cardinality(Blocks) THEN "close" ELSE "read"]
    /\ UNCHANGED isos

(* A read or write error; esc in the form and a signal to the command      *)
(* cancel the context, which is one.                                       *)
ReadFails(d) ==
    /\ Downloading
    /\ At(d, "read")
    /\ parts' = Removed(dl[d].part)
    /\ Give(d)
    /\ UNCHANGED isos

MutStalled(d) ==
    /\ Downloading
    /\ At(d, "read")
    /\ parts[dl[d].part].age > StaleAfter
    /\ parts' = Removed(dl[d].part)
    /\ Give(d)
    /\ UNCHANGED isos

(* No byte for stallTimeout: the timer cancels the request.                *)
Stalled(d) ==
    /\ Downloading
    /\ At(d, "read")
    /\ parts[dl[d].part].age >= Stall
    /\ parts' = Removed(dl[d].part)
    /\ Give(d)
    /\ UNCHANGED isos

(* Close, compare the digest of what was read, rename over the final name. *)
Finish(d) ==
    /\ Downloading
    /\ At(d, "close")
    /\ \/ /\ dl[d].sum \in {0, dl[d].got}
          /\ parts[dl[d].part] # NoPart
          /\ isos' = [isos EXCEPT ![dl[d].e] = parts[dl[d].part].data]
       \/ UNCHANGED isos
    /\ parts' = Removed(dl[d].part)
    /\ Give(d)

(* A killed process leaves its .part, whose blocks nobody reads any more.  *)
Kill(d) ==
    /\ Downloading
    /\ ~At(d, "idle")
    /\ Give(d)
    /\ parts' = IF dl[d].part = 0 THEN parts
                ELSE [parts EXCEPT ![dl[d].part].data = Complete(0)]
    /\ UNCHANGED isos

(* The publisher replaces the image and its sums file.                     *)
Publish(e) ==
    /\ published[e] < MaxVersion
    /\ published' = [published EXCEPT ![e] = @ + 1]
    /\ UNCHANGED <<summed, isos, parts, dl, vm, start, lock, maker, pruner>>

(* A minute passes; a download whose timer has fired acts within it.       *)
Tick ==
    /\ \A d \in Downloaders : dl[d].pc \in {"read", "close"} => parts[dl[d].part].age < Stall
    /\ \E p \in Parts : parts[p] # NoPart /\ parts[p].age < StaleAfter
    /\ parts' = [p \in Parts |-> IF parts[p] # NoPart /\ parts[p].age < StaleAfter
                                 THEN [parts[p] EXCEPT !.age = @ + 1] ELSE parts[p]]
    /\ UNCHANGED <<summed, published, isos, dl, vm, start, lock, maker, pruner>>

------------------------------------------------------------------------------
(* VMs on the images                                                       *)

OnVMs == UNCHANGED <<summed, published, parts, dl, pruner>>

MutLocked == TRUE

(* config.Lock.                                                            *)
Locked == lock = NoOne

(* resolveImage: the file of a catalog entry.                              *)
resolveImage(e) == isos[e] # NoFile

(* Create resolves the image under the flock and saves the record naming   *)
(* it; an image that is not there is ErrImageNotDownloaded.                *)
Create(n, e) ==
    /\ OnVMs
    /\ Locked
    /\ maker.pc = "idle" /\ vm[n] = NoVM
    /\ resolveImage(e)
    /\ maker' = [pc |-> "save", n |-> n, e |-> e]
    /\ lock' = "create"
    /\ UNCHANGED <<isos, vm, start>>

Save ==
    /\ OnVMs
    /\ maker.pc = "save"
    /\ vm' = [vm EXCEPT ![maker.n] = [NoVM EXCEPT !.image = maker.e]]
    /\ maker' = NoMaker
    /\ lock' = NoOne
    /\ UNCHANGED <<isos, start>>

(* Destroy removes the directory, of a broken VM too, never of a running   *)
(* one.  Its race with a start is Lifecycle's.                             *)
Destroy(n) ==
    /\ OnVMs
    /\ Locked
    /\ vm[n] # NoVM /\ ~vm[n].up /\ start[n] = "idle"
    /\ vm' = [vm EXCEPT ![n] = NoVM]
    /\ UNCHANGED <<isos, start, lock, maker>>

(* A hand edit breaks vm.toml in a line other than the image's, or mends   *)
(* it.                                                                     *)
EditRecord(n) ==
    /\ OnVMs
    /\ vm[n] # NoVM
    /\ vm' = [vm EXCEPT ![n].broken = ~@]
    /\ UNCHANGED <<isos, start, lock, maker>>

(* qemu opens the overlay, the image behind it and the seed, or exits.     *)
Boots(n, seed) == isos[vm[n].image] # NoFile /\ seed

(* A start prepares the cloud VM: qemu-img puts the overlay on the image,  *)
(* unless the VM has a disk already, in which case there is nothing to     *)
(* prepare; a resize that fails takes the overlay away again.              *)
StartPrepare(n) ==
    /\ OnVMs
    /\ vm[n] # NoVM /\ ~vm[n].broken /\ ~vm[n].up /\ start[n] = "idle"
    /\ IF vm[n].disk # NoFile
       THEN vm' = [vm EXCEPT ![n].up = Boots(n, vm[n].seed)] /\ UNCHANGED start
       ELSE /\ isos[vm[n].image] # NoFile
            /\ vm' = [vm EXCEPT ![n].disk = isos[vm[n].image]]
            /\ start' = [start EXCEPT ![n] = "seed"]
    /\ UNCHANGED <<isos, lock, maker>>

(* The seed: keys, the recipes' scripts and the ISO.  Any of them may      *)
(* fail, a recipe that is gone for one, and the start ends there.          *)
StartSeed(n) ==
    /\ OnVMs
    /\ start[n] = "seed"
    /\ start' = [start EXCEPT ![n] = "idle"]
    /\ \/ vm' = [vm EXCEPT ![n].seed = TRUE, ![n].up = Boots(n, TRUE)]
       \/ UNCHANGED vm
    /\ UNCHANGED <<isos, lock, maker>>

Stop(n) ==
    /\ OnVMs
    /\ vm[n].up
    /\ vm' = [vm EXCEPT ![n].up = FALSE]
    /\ UNCHANGED <<isos, start, lock, maker>>

------------------------------------------------------------------------------
(* Prune: broken VMs and images only if asked for, stale parts always      *)

Pruning == UNCHANGED <<summed, published, dl, start, maker>>

(* Every record names its image, a broken one through the text of its      *)
(* line.                                                                   *)
referencedImages == {vm[n].image : n \in VMs} \ {NoEntry}
LocalImages      == {e \in Entries : isos[e] # NoFile}

MutStale(p) == parts[p] # NoPart /\ parts[p].age >= Stall
Stale(p)    == parts[p] # NoPart /\ parts[p].age >= StaleAfter

(* Take the flock; with Broken, remove the broken VMs that do not run.     *)
Prune ==
    /\ Pruning
    /\ pruner.pc = "idle"
    /\ Locked
    /\ lock' = "prune"
    /\ \E images, broken \in BOOLEAN :
        /\ pruner' = [Resting EXCEPT !.pc = "parts", !.images = images]
        /\ vm' = [n \in VMs |-> IF broken /\ vm[n].broken /\ ~vm[n].up /\ start[n] = "idle"
                                THEN NoVM ELSE vm[n]]
    /\ UNCHANGED <<isos, parts>>

prunePartialDownloads ==
    /\ Pruning
    /\ pruner.pc = "parts"
    /\ parts' = [p \in Parts |-> IF Stale(p) THEN NoPart ELSE parts[p]]
    /\ pruner' = [pruner EXCEPT !.pc = "images"]
    /\ UNCHANGED <<isos, vm, lock>>

(* The candidates are listed once, and removed one after another.          *)
pruneImages ==
    /\ Pruning
    /\ pruner.pc = "images"
    /\ pruner' = [Resting EXCEPT !.pc = "remove",
                                 !.left = IF pruner.images THEN LocalImages \ referencedImages
                                          ELSE {}]
    /\ UNCHANGED <<isos, parts, vm, lock>>

RemoveImage ==
    /\ Pruning
    /\ pruner.pc = "remove"
    /\ IF pruner.left = {}
       THEN pruner' = Resting /\ lock' = NoOne /\ UNCHANGED isos
       ELSE \E e \in pruner.left :
              /\ isos' = [isos EXCEPT ![e] = NoFile]
              /\ pruner' = [pruner EXCEPT !.left = @ \ {e}]
              /\ UNCHANGED lock
    /\ UNCHANGED <<parts, vm>>

------------------------------------------------------------------------------

Progress(d) == Resolve(d) \/ Get(d) \/ Finish(d)

Download == \E d \in Downloaders :
    \/ \E e \in Entries : Fetch(d, e)
    \/ Progress(d) \/ Chunk(d) \/ ReadFails(d) \/ Stalled(d) \/ Kill(d)

Machines == \E n \in VMs :
    \/ \E e \in Entries : Create(n, e)
    \/ Destroy(n) \/ EditRecord(n)
    \/ StartPrepare(n) \/ StartSeed(n) \/ Stop(n)

Next ==
    \/ Download \/ Tick \/ \E e \in Entries : Publish(e)
    \/ Machines \/ Save
    \/ Prune \/ prunePartialDownloads \/ pruneImages \/ RemoveImage

(* A process that is not killed goes on, its timer fires and time passes.  *)
(* Nothing promises bytes from the network.                                *)
Fairness ==
    /\ \A d \in Downloaders : WF_vars(Progress(d)) /\ WF_vars(Stalled(d))
    /\ WF_vars(Tick)

Spec == Init /\ [][Next]_vars /\ Fairness

------------------------------------------------------------------------------
(* Properties                                                              *)

PartFile == [e : Entries, data : Data, age : 0..StaleAfter]
Fetching == [pc : {"idle", "resolve", "get", "read", "close"}, e : Entries \cup {NoEntry},
             sum : 0..MaxVersion, got : 0..MaxVersion,
             done : 0..Cardinality(Blocks), part : 0..MaxParts]

TypeOK ==
    /\ summed \subseteq Entries
    /\ published \in [Entries -> Versions]
    /\ isos \in [Entries -> Data \cup {NoFile}]
    /\ parts \in [Parts -> PartFile \cup {NoPart}]
    /\ dl \in [Downloaders -> Fetching]
    /\ vm \in [VMs -> [image : Entries \cup {NoEntry}, disk : Data \cup {NoFile},
                       seed : BOOLEAN, up : BOOLEAN, broken : BOOLEAN]]
    /\ start \in [VMs -> {"idle", "seed"}]
    /\ lock \in {NoOne, "create", "prune"}
    /\ maker \in [pc : {"save"}, n : VMs, e : Entries] \cup {NoMaker}
    /\ pruner \in [pc : {"idle", "parts", "images", "remove"}, images : BOOLEAN,
                   left : SUBSET Entries]

(* "an interrupted fetch never leaves a plausible-looking image behind":   *)
(* whatever is under a final name is one version, whole, however many      *)
(* downloads of the entry overlap, fail, are cancelled or killed and       *)
(* whenever the publisher rolls the image.                                 *)
FinalComplete == \A e \in Entries : isos[e] # NoFile => \E v \in Versions : isos[e] = Complete(v)

(* What makes the age test of prunePartialDownloads safe: prune never      *)
(* takes the .part away from under a download that is still at work, and   *)
(* no two downloads share one.                                             *)
LivePartsStay ==
    /\ \A d \in Downloaders : dl[d].pc \in {"read", "close"} => parts[dl[d].part].e = dl[d].e
    /\ \A c, d \in Downloaders :
         c # d /\ {dl[c].pc, dl[d].pc} \subseteq {"read", "close"} => dl[c].part # dl[d].part

(* The image a record names is there, for a broken record too: prune does  *)
(* not judge an image unreferenced that a create under way has picked.     *)
ImageThere == \A n \in VMs : vm[n] # NoVM => isos[vm[n].image] # NoFile

(* The cache is sound under downloads, prune and create at once: what is   *)
(* there is whole, and what is in use stays.                               *)
CacheSound == FinalComplete /\ LivePartsStay /\ ImageThere

(* A download always comes to an end, on a connection that goes silent as  *)
(* well.                                                                   *)
DownloadEnds == \A d \in Downloaders : ~At(d, "idle") ~> At(d, "idle")

(* Fetching an image again is "repair this image" at "no risk to a good    *)
(* one": the image behind the disk of a VM keeps the bytes the overlay was *)
(* made on.                                                                *)
BaseUnchanged == \A n \in VMs : vm[n].disk # NoFile => isos[vm[n].image] = vm[n].disk

(* Prepare "creates v's CoW overlay and cloud-init seed the first time a   *)
(* cloud-mode VM starts": no start leaves a VM with the one and without    *)
(* the other, which no later start makes up for.                           *)
OverlayHasSeed == \A n \in VMs : vm[n].disk # NoFile /\ start[n] = "idle" => vm[n].seed

==============================================================================
