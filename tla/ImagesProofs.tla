---------------------------- MODULE ImagesProofs ----------------------------
(***************************************************************************)
(* The theorems about Images and about Forms, the form that chooses among  *)
(* the images.                                                             *)
(*                                                                         *)
(* CacheSound, proved for any number of entries, downloads, VMs, versions  *)
(* and .part files.                                                        *)
(*                                                                         *)
(* Three arguments meet.  A download's .part is its own and never older    *)
(* than the stall timeout, which is less than partStaleAfter (PartsInv).   *)
(* Its blocks up to where the download is are of the one version the       *)
(* server answered with, so that what is renamed is whole.  And an image   *)
(* is taken away only by the holder of the flock, from a list made under   *)
(* the flock, while records come to name images only under it (PruneInv).  *)
(*                                                                         *)
(* FormFaithful and WorkFollowed, for any catalog, home directory, set of  *)
(* recipes, batch and channel size.  Three invariants carry them.  The     *)
(* form is whole: its selection is closed under what the recipes need and  *)
(* the open wizard asks for checked recipes only, about the one that       *)
(* opened it last (Whole).  A download in flight has an outcome to come    *)
(* (Followed).  And what a search lists, what the one command waiting for  *)
(* it holds, what its channel holds and what its scan has gathered are,    *)
(* one after the other, the files of the walk so far (SearchOK).           *)
(***************************************************************************)
EXTENDS Images, Forms, FiniteSetTheorems, SequenceTheorems, TLAPS

-----------------------------------------------------------------------------
(* The inductive invariant *)

Writing(d) == dl[d].pc \in {"read", "close"}

\* What a download at work knows: the image, its .part and how far it is.
DownloadInv(d) ==
    /\ ~At(d, "idle") => dl[d].e \in Entries
    /\ ~Writing(d) => dl[d].part = 0 /\ dl[d].done = 0
    /\ Writing(d) =>
         /\ dl[d].part \in Parts
         /\ parts[dl[d].part].e = dl[d].e
         /\ parts[dl[d].part].age <= Stall
         /\ dl[d].got \in Versions
         /\ \A b \in Blocks : b <= dl[d].done => parts[dl[d].part].data[b] = dl[d].got
    /\ At(d, "read") => dl[d].done < 2
    /\ At(d, "close") => dl[d].done = 2

OwnParts == \A c, d \in Downloaders : c # d /\ Writing(c) /\ Writing(d) => dl[c].part # dl[d].part

PartsInv == OwnParts /\ \A d \in Downloaders : DownloadInv(d)

\* Records and creates name images that are there; a start is of a record.
RecordsInv ==
    /\ \A n \in VMs : vm[n] # NoVM => vm[n].image \in Entries /\ isos[vm[n].image] # NoFile
    /\ \A n \in VMs : start[n] = "seed" => vm[n] # NoVM
    /\ maker.pc = "save" => isos[maker.e] # NoFile /\ lock = "create"

\* The flock is prune's while it is at work, and nothing in use is on its list.
PruneInv ==
    /\ pruner.pc # "idle" => lock = "prune"
    /\ pruner.pc = "remove" => \A n \in VMs : vm[n].image \notin pruner.left

Inv == TypeOK /\ FinalComplete /\ PartsInv /\ RecordsInv /\ PruneInv

-----------------------------------------------------------------------------
(* Files and parts *)

\* A file of one version is a file, has its data, and is known by its blocks.
LEMMA Files ==
    /\ \A v : Complete(v) # NoFile
    /\ \A v \in 0..MaxVersion : Complete(v) \in Data
    /\ \A v : \A f \in Data : f[1] = v /\ f[2] = v => f = Complete(v)
    /\ \A f \in Data : f # NoFile
  <1>1. 1 \in Blocks /\ 2 \in Blocks /\ \A b \in Blocks : b = 1 \/ b = 2
    BY DEF Blocks
  <1>2. DOMAIN NoFile = {}
    BY DEF NoFile
  <1>3. \A v : Complete(v) # NoFile
    BY <1>1, <1>2 DEF Complete
  <1>4. \A f \in Data : f # NoFile
    BY <1>1, <1>2 DEF Data
  <1>5. \A v \in 0..MaxVersion : Complete(v) \in Data
    BY DEF Complete, Data
  <1>6. \A v : \A f \in Data : f[1] = v /\ f[2] = v => f = Complete(v)
    BY <1>1 DEF Complete, Data
  <1> QED
    BY <1>3, <1>4, <1>5, <1>6

\* A small image is two blocks: fewer of them are not all of it.
LEMMA TwoBlocks == Cardinality(Blocks) = 2
  <1>1. 1 \in Int /\ 2 \in Int /\ 2 - 1 + 1 = 2 /\ ~(1 > 2)
    OBVIOUS
  <1>2. Cardinality(1..2) = 2 - 1 + 1
    BY <1>1, FS_Interval, Zenon
  <1> QED
    BY <1>1, <1>2 DEF Blocks

\* A .part with an entry is a file of its own.
LEMMA RealPart ==
    ASSUME TypeOK, NEW p \in Parts, parts[p].e \in Entries
    PROVE  /\ parts[p] # NoPart
           /\ parts[p] \in PartFile
  <1>1. parts[p] # NoPart
    BY NoneAssumption DEF NoPart
  <1> QED
    BY <1>1 DEF TypeOK

\* A download at work has a real .part.
LEMMA OwnPart ==
    ASSUME Inv, NEW d \in Downloaders, Writing(d)
    PROVE  /\ dl[d].part \in Parts /\ dl[d].e \in Entries
           /\ parts[dl[d].part] # NoPart
           /\ parts[dl[d].part] \in PartFile
           /\ parts[dl[d].part].e = dl[d].e
  <1>1. dl[d].part \in Parts /\ dl[d].e \in Entries /\ parts[dl[d].part].e = dl[d].e
    BY DEF Inv, PartsInv, DownloadInv, Writing, At
  <1> QED
    BY <1>1, RealPart DEF Inv

-----------------------------------------------------------------------------
(* What a step of a download has to keep *)

\* The rest of the cache sees of a download only a file that appears.
LEMMA OnlyFiles ==
    ASSUME Inv, Downloading, NEW e, NEW f \in Data,
           isos' = isos \/ isos' = [isos EXCEPT ![e] = f]
    PROVE  RecordsInv' /\ PruneInv'
  <1>1. \A x \in Entries : isos[x] # NoFile => isos'[x] # NoFile
    BY Files DEF Inv, TypeOK
  <1>2. maker.pc = "save" => maker.e \in Entries
    BY DEF Inv, TypeOK, NoMaker
  <1> QED
    BY <1>1, <1>2 DEF Inv, RecordsInv, PruneInv, Downloading

\* While no file under a final name changes, records keep their images.
LEMMA NoFiles ==
    ASSUME Inv, Downloading, isos' = isos
    PROVE  FinalComplete' /\ RecordsInv' /\ PruneInv'
  <1>1. Complete(0) \in Data
    BY Files, BoundsAssumption
  <1>2. RecordsInv' /\ PruneInv'
    BY <1>1, OnlyFiles
  <1> QED
    BY <1>2 DEF Inv, FinalComplete

\* One download moves and leaves the .parts of the others alone.
LEMMA OneMoves ==
    ASSUME Inv, NEW d \in Downloaders, NEW k, dl' = [dl EXCEPT ![d] = k],
           \A c \in Downloaders \ {d} : Writing(c) => parts'[dl[c].part] = parts[dl[c].part],
           k.pc \in {"read", "close"} =>
               \A c \in Downloaders \ {d} : Writing(c) => dl[c].part # k.part,
           DownloadInv(d)'
    PROVE  PartsInv'
  <1>1. dl'[d] = k /\ \A c \in Downloaders \ {d} : dl'[c] = dl[c]
    BY DEF Inv, TypeOK
  <1>2. \A c \in Downloaders : DownloadInv(c)'
    <2> SUFFICES ASSUME NEW c \in Downloaders \ {d} PROVE DownloadInv(c)'
      OBVIOUS
    <2>1. DownloadInv(c)
      BY DEF Inv, PartsInv
    <2> QED
      BY <1>1, <2>1 DEF DownloadInv, Writing, At
  <1>3. OwnParts'
    BY <1>1 DEF Inv, PartsInv, OwnParts, Writing
  <1> QED
    BY <1>2, <1>3 DEF PartsInv

\* A download that lets go of its .part, whatever becomes of that.
LEMMA OneEnds ==
    ASSUME Inv, NEW d \in Downloaders, Give(d),
           \A p \in Parts : p # dl[d].part => parts'[p] = parts[p]
    PROVE  PartsInv' /\ dl' \in [Downloaders -> Fetching]
  <1>1. dl' = [dl EXCEPT ![d] = Idle] /\ dl'[d] = Idle
    BY DEF Give, Inv, TypeOK
  <1>2. \A c \in Downloaders \ {d} : Writing(c) => dl[c].part \in Parts /\ dl[c].part # dl[d].part
    <2> SUFFICES ASSUME NEW c \in Downloaders \ {d}, Writing(c)
                 PROVE  dl[c].part \in Parts /\ dl[c].part # dl[d].part
      OBVIOUS
    <2>1. dl[c].part \in Parts /\ dl[c].part # 0
      BY BoundsAssumption DEF Inv, PartsInv, DownloadInv, Parts
    <2>2. CASE Writing(d)
      BY <2>1, <2>2 DEF Inv, PartsInv, OwnParts
    <2>3. CASE ~Writing(d)
      BY <2>1, <2>3 DEF Inv, PartsInv, DownloadInv
    <2> QED
      BY <2>2, <2>3
  <1>3. DownloadInv(d)'
    BY <1>1 DEF DownloadInv, Idle, Writing, At
  <1>4. PartsInv'
    BY <1>1, <1>2, <1>3, OneMoves DEF Idle
  <1>5. Idle \in Fetching
    BY BoundsAssumption, TwoBlocks DEF Idle, Fetching
  <1> QED
    BY <1>1, <1>4, <1>5 DEF Inv, TypeOK

-----------------------------------------------------------------------------
(* The steps of a download *)

\* Fetch and Resolve: no .part yet.
LEMMA BeginsInv ==
    ASSUME Inv, NEW d \in Downloaders,
           (\E e \in Entries : Fetch(d, e)) \/ Resolve(d)
    PROVE  Inv'
  <1>1. Downloading /\ isos' = isos /\ parts' = parts
    BY DEF Fetch, Resolve
  <1>2. FinalComplete' /\ RecordsInv' /\ PruneInv'
    BY <1>1, NoFiles
  <1>3. CASE \E e \in Entries : Fetch(d, e)
    <2>1. PICK e \in Entries : Fetch(d, e)
      BY <1>3
    <2> DEFINE k == [Idle EXCEPT !.pc = "resolve", !.e = e]
    <2>2. /\ k.pc = "resolve" /\ k.e = e /\ k.part = 0 /\ k.done = 0 /\ k.sum = 0 /\ k.got = 0
          /\ k \in Fetching
      <3>1. Idle \in Fetching /\ Idle.part = 0 /\ Idle.done = 0 /\ Idle.sum = 0 /\ Idle.got = 0
        BY BoundsAssumption, TwoBlocks DEF Idle, Fetching
      <3> QED
        BY <3>1 DEF Fetching
    <2>3. dl' = [dl EXCEPT ![d] = k]
      BY <2>1 DEF Fetch
    <2> HIDE DEF k
    <2>4. dl'[d] = k
      BY <2>3 DEF Inv, TypeOK
    <2>5. DownloadInv(d)'
      BY <2>2, <2>4 DEF DownloadInv, Writing, At
    <2>6. PartsInv'
      BY <1>1, <2>2, <2>3, <2>5, OneMoves
    <2>7. TypeOK'
      BY <1>1, <2>2, <2>3 DEF Inv, TypeOK, Downloading
    <2> QED
      BY <1>2, <2>6, <2>7 DEF Inv
  <1>4. CASE Resolve(d) /\ Give(d)
    BY <1>1, <1>2, <1>4, OneEnds DEF Inv, TypeOK, Downloading
  <1>5. CASE Resolve(d) /\ ~Give(d)
    <2> DEFINE k == [dl[d] EXCEPT !.pc = "get", !.sum = PublishedSum(dl[d].e)]
    <2>1. dl[d].e \in Entries /\ dl[d].part = 0 /\ dl[d].done = 0
      BY <1>5 DEF Resolve, At, Inv, PartsInv, DownloadInv, Writing
    <2>2. PublishedSum(dl[d].e) \in 0..MaxVersion
      BY <2>1, BoundsAssumption DEF PublishedSum, Inv, TypeOK, Versions
    <2>3. /\ k.pc = "get" /\ k.e = dl[d].e /\ k.part = 0 /\ k.done = 0
          /\ k \in Fetching
      <3>1. dl[d] \in Fetching
        BY DEF Inv, TypeOK
      <3> QED
        BY <3>1, <2>1, <2>2 DEF Fetching
    <2>4. dl' = [dl EXCEPT ![d] = k]
      BY <1>5 DEF Resolve, Inv, TypeOK
    <2> HIDE DEF k
    <2>5. dl'[d] = k
      BY <2>4 DEF Inv, TypeOK
    <2>6. DownloadInv(d)'
      BY <2>1, <2>3, <2>5 DEF DownloadInv, Writing, At
    <2>7. PartsInv'
      BY <1>1, <2>3, <2>4, <2>6, OneMoves
    <2>8. TypeOK'
      BY <1>1, <2>3, <2>4 DEF Inv, TypeOK, Downloading
    <2> QED
      BY <1>2, <2>7, <2>8 DEF Inv
  <1> QED
    BY <1>3, <1>4, <1>5

\* Get: the .part is one nobody has.
LEMMA GetInv ==
    ASSUME Inv, NEW d \in Downloaders, Get(d)
    PROVE  Inv'
  <1>1. Downloading /\ isos' = isos
    BY DEF Get
  <1>2. FinalComplete' /\ RecordsInv' /\ PruneInv'
    BY <1>1, NoFiles
  <1>3. CASE Give(d) /\ UNCHANGED parts
    BY <1>1, <1>2, <1>3, OneEnds DEF Inv, TypeOK, Downloading
  <1>4. CASE ~(Give(d) /\ UNCHANGED parts)
    <2> DEFINE k(p) == [dl[d] EXCEPT !.pc = "read", !.got = published[dl[d].e], !.part = p]
               f    == [e |-> dl[d].e, data |-> Complete(0), age |-> 0]
    <2>1. PICK p \in Parts : /\ parts[p] = NoPart
                             /\ parts' = [parts EXCEPT ![p] = f]
                             /\ dl' = [dl EXCEPT ![d] = k(p)]
      BY <1>4 DEF Get, CreateTemp, Inv, TypeOK
    <2>2. dl[d].e \in Entries /\ dl[d].done = 0
      BY DEF Get, At, Inv, PartsInv, DownloadInv, Writing
    <2>3. published[dl[d].e] \in Versions
      BY <2>2 DEF Inv, TypeOK
    <2>4. /\ k(p).pc = "read" /\ k(p).e = dl[d].e /\ k(p).part = p /\ k(p).done = 0
          /\ k(p).got = published[dl[d].e]
          /\ k(p) \in Fetching
      <3>1. dl[d] \in Fetching
        BY DEF Inv, TypeOK
      <3> QED
        <4>1. p \in 0..MaxParts /\ published[dl[d].e] \in 0..MaxVersion
          BY <2>3, BoundsAssumption DEF Parts, Versions
        <4> QED
          BY <3>1, <4>1, <2>2 DEF Fetching
    <2>5. /\ f.e = dl[d].e /\ f.age = 0 /\ f.age <= Stall
          /\ f \in PartFile
      BY <2>2, Files, BoundsAssumption DEF Stall, StaleAfter, PartFile
    <2> HIDE DEF k, f
    <2>6. dl'[d] = k(p) /\ parts'[p] = f
      BY <2>1 DEF Inv, TypeOK
    <2>7. DownloadInv(d)'
      BY <2>2, <2>3, <2>4, <2>5, <2>6 DEF DownloadInv, Writing, At, Blocks
    <2>8. \A c \in Downloaders : Writing(c) => dl[c].part # p
      BY <2>1, OwnPart
    <2>9. \A c \in Downloaders : Writing(c) => parts'[dl[c].part] = parts[dl[c].part]
      BY <2>1, <2>8, OwnPart DEF Inv, TypeOK
    <2>10. PartsInv'
      BY <2>1, <2>4, <2>7, <2>8, <2>9, OneMoves
    <2>11. TypeOK'
      BY <1>1, <2>1, <2>4, <2>5 DEF Inv, TypeOK, Downloading
    <2> QED
      BY <1>2, <2>10, <2>11 DEF Inv
  <1> QED
    BY <1>3, <1>4

\* Chunk: the next block is of the version the server answered with.
LEMMA ChunkInv ==
    ASSUME Inv, NEW d \in Downloaders, Chunk(d)
    PROVE  Inv'
  <1>1. Downloading /\ isos' = isos /\ dl[d].pc = "read" /\ Writing(d)
    BY DEF Chunk, At, Writing
  <1>2. FinalComplete' /\ RecordsInv' /\ PruneInv'
    BY <1>1, NoFiles
  <1> DEFINE p == dl[d].part
             b == dl[d].done + 1
             k == [dl[d] EXCEPT !.done = b,
                                !.pc = IF b = Cardinality(Blocks) THEN "close" ELSE "read"]
             f == [parts[p] EXCEPT !.data = [parts[p].data EXCEPT ![b] = dl[d].got], !.age = 0]
  <1>3. /\ p \in Parts /\ dl[d].e \in Entries /\ parts[p].e = dl[d].e
        /\ parts[p] \in PartFile
    BY <1>1, OwnPart
  <1>4. /\ dl[d].done \in 0..2 /\ dl[d].done < 2 /\ dl[d].got \in Versions
        /\ \A c \in Blocks : c <= dl[d].done => parts[p].data[c] = dl[d].got
    <2>1. dl[d].done \in 0..2
      BY TwoBlocks DEF Inv, TypeOK, Fetching
    <2> QED
      BY <1>1, <2>1 DEF Inv, PartsInv, DownloadInv, At
  <1>5. b \in Blocks /\ b <= 2 /\ b \in 0..2
    BY <1>4 DEF Blocks
  <1>6. /\ k.done = b /\ k.e = dl[d].e /\ k.part = p /\ k.got = dl[d].got
        /\ k.pc = (IF b = 2 THEN "close" ELSE "read")
        /\ k \in Fetching
    <2>1. dl[d] \in Fetching
      BY DEF Inv, TypeOK
    <2> HIDE DEF b, p
    <2> QED
      BY <2>1, <1>5, TwoBlocks DEF Fetching, p
  <1>7. [parts[p].data EXCEPT ![b] = dl[d].got] \in Data
    <2>1. parts[p].data \in Data /\ dl[d].got \in 0..MaxVersion
      BY <1>3, <1>4, BoundsAssumption DEF PartFile, Versions
    <2> QED
      BY <2>1 DEF Data
  <1>8. /\ f.e = dl[d].e /\ f.age = 0 /\ f.data = [parts[p].data EXCEPT ![b] = dl[d].got]
        /\ f \in PartFile
    <2>2. 0 \in 0..StaleAfter
      BY DEF Stall, StaleAfter
    <2> QED
      BY <1>3, <1>7, <2>2 DEF PartFile
  <1>9. \A c \in Blocks : c <= b => f.data[c] = dl[d].got
    <2> HIDE DEF f
    <2>1. parts[p].data \in Data
      BY <1>3 DEF PartFile
    <2> SUFFICES ASSUME NEW c \in Blocks, c <= b PROVE f.data[c] = dl[d].got
      OBVIOUS
    <2>2. CASE c = b
      BY <1>5, <1>8, <2>1, <2>2 DEF Data
    <2>3. CASE c # b
      <3>1. c <= dl[d].done
        BY <1>4, <2>3 DEF Blocks
      <3> QED
        BY <1>4, <1>8, <2>1, <2>3, <3>1 DEF Data
    <2> QED
      BY <2>2, <2>3
  <1>10. dl' = [dl EXCEPT ![d] = k] /\ parts' = [parts EXCEPT ![p] = f]
    BY DEF Chunk, Inv, TypeOK
  <1> HIDE DEF k, f
  <1>11. dl'[d] = k /\ parts'[p] = f
    BY <1>3, <1>10 DEF Inv, TypeOK
  <1>12. DownloadInv(d)'
    <2>1. f.age <= Stall
      BY <1>8 DEF Stall
    <2>2. (~At(d, "idle") => dl[d].e \in Entries)' /\ Writing(d)' /\ (At(d, "read") => dl[d].done < 2)'
          /\ (At(d, "close") => dl[d].done = 2)'
      BY <1>3, <1>5, <1>6, <1>11 DEF Writing, At
    <2>3. dl'[d].part = p /\ parts'[dl'[d].part] = f /\ dl'[d].got = dl[d].got /\ dl'[d].e = dl[d].e
          /\ dl'[d].done = b
      BY <1>6, <1>11
    <2> HIDE DEF p, b
    <2> QED
      BY <2>1, <2>2, <2>3, <1>3, <1>4, <1>8, <1>9 DEF DownloadInv
  <1>13. \A c \in Downloaders \ {d} : Writing(c) => dl[c].part # p
    BY <1>1 DEF Inv, PartsInv, OwnParts
  <1>14. \A c \in Downloaders \ {d} : Writing(c) => parts'[dl[c].part] = parts[dl[c].part]
    BY <1>10, <1>13, OwnPart DEF Inv, TypeOK
  <1>15. PartsInv'
    BY <1>6, <1>10, <1>12, <1>13, <1>14, OneMoves
  <1>16. TypeOK'
    BY <1>1, <1>3, <1>6, <1>8, <1>10 DEF Inv, TypeOK, Downloading
  <1> QED
    BY <1>2, <1>15, <1>16 DEF Inv

\* Removing the .part ends a download without a trace.
LEMMA RemovedInv ==
    ASSUME Inv, NEW d \in Downloaders, Writing(d), Give(d), parts' = Removed(dl[d].part)
    PROVE  PartsInv' /\ (Downloading /\ isos' \in [Entries -> Data \cup {NoFile}] => TypeOK')
  <1>1. \A p \in Parts : p # dl[d].part => parts'[p] = parts[p]
    BY DEF Removed, Inv, TypeOK
  <1>2. parts' \in [Parts -> PartFile \cup {NoPart}]
    BY DEF Removed, Inv, TypeOK
  <1> QED
    BY <1>1, <1>2, OneEnds DEF Inv, TypeOK, Downloading

\* ReadFails and Stalled.
LEMMA GivesUpInv ==
    ASSUME Inv, NEW d \in Downloaders, ReadFails(d) \/ Stalled(d)
    PROVE  Inv'
  <1>1. Downloading /\ isos' = isos /\ Writing(d) /\ Give(d) /\ parts' = Removed(dl[d].part)
    BY DEF ReadFails, Stalled, At, Writing
  <1>2. FinalComplete' /\ RecordsInv' /\ PruneInv'
    BY <1>1, NoFiles
  <1> QED
    BY <1>1, <1>2, RemovedInv DEF Inv, TypeOK

\* Finish: both blocks are there, so that the renamed file is whole.
LEMMA FinishInv ==
    ASSUME Inv, NEW d \in Downloaders, Finish(d)
    PROVE  Inv'
  <1>1. Downloading /\ dl[d].pc = "close" /\ Writing(d) /\ Give(d) /\ parts' = Removed(dl[d].part)
    BY DEF Finish, At, Writing
  <1> DEFINE f == parts[dl[d].part].data
  <1>2. f \in Data /\ dl[d].e \in Entries
    BY <1>1, OwnPart DEF PartFile
  <1>3. dl[d].got \in Versions /\ f[1] = dl[d].got /\ f[2] = dl[d].got
    BY <1>1 DEF Inv, PartsInv, DownloadInv, At, Blocks
  <1>4. f = Complete(dl[d].got)
    BY <1>2, <1>3, Files
  <1>5. isos' = isos \/ isos' = [isos EXCEPT ![dl[d].e] = f]
    BY DEF Finish
  <1>6. RecordsInv' /\ PruneInv'
    BY <1>1, <1>2, <1>5, OnlyFiles
  <1>7. isos' \in [Entries -> Data \cup {NoFile}]
    BY <1>2, <1>5 DEF Inv, TypeOK
  <1>8. FinalComplete'
    BY <1>2, <1>3, <1>4, <1>5 DEF Inv, TypeOK, FinalComplete
  <1> QED
    BY <1>1, <1>6, <1>7, <1>8, RemovedInv DEF Inv

\* Kill: what is left is a .part of nobody.
LEMMA KillInv ==
    ASSUME Inv, NEW d \in Downloaders, Kill(d)
    PROVE  Inv'
  <1>1. Downloading /\ isos' = isos /\ Give(d)
    BY DEF Kill
  <1>2. FinalComplete' /\ RecordsInv' /\ PruneInv'
    BY <1>1, NoFiles
  <1>3. CASE dl[d].part = 0
    BY <1>1, <1>2, <1>3, OneEnds DEF Kill, Inv, TypeOK, Downloading
  <1>4. CASE dl[d].part # 0
    <2>1. Writing(d)
      BY <1>4 DEF Inv, PartsInv, DownloadInv
    <2>2. dl[d].part \in Parts /\ parts[dl[d].part] \in PartFile
      BY <2>1, OwnPart
    <2>3. Complete(0) \in Data
      BY Files, BoundsAssumption
    <2> DEFINE f == [parts[dl[d].part] EXCEPT !.data = Complete(0)]
    <2>4. f \in PartFile
      BY <2>2, <2>3 DEF PartFile
    <2>5. parts' = [parts EXCEPT ![dl[d].part] = f]
      BY <1>4 DEF Kill
    <2> HIDE DEF f
    <2>6. parts' \in [Parts -> PartFile \cup {NoPart}]
      BY <2>2, <2>4, <2>5 DEF Inv, TypeOK
    <2>7. \A p \in Parts : p # dl[d].part => parts'[p] = parts[p]
      BY <2>5 DEF Inv, TypeOK
    <2> QED
      BY <1>1, <1>2, <2>6, <2>7, OneEnds DEF Inv, TypeOK, Downloading
  <1> QED
    BY <1>3, <1>4

-----------------------------------------------------------------------------
(* The clock and the publisher *)

\* Tick: time stops for nobody, but a download whose timer has fired acts first.
LEMMA TickInv ==
    ASSUME Inv, Tick
    PROVE  Inv'
  <1>1. \A p \in Parts : \/ parts'[p] = parts[p]
                         \/ /\ parts[p] \in PartFile /\ parts[p].age < StaleAfter
                            /\ parts'[p] = [parts[p] EXCEPT !.age = @ + 1]
    <2> TAKE p \in Parts
    <2>1. parts'[p] = IF parts[p] # NoPart /\ parts[p].age < StaleAfter
                      THEN [parts[p] EXCEPT !.age = @ + 1] ELSE parts[p]
      BY DEF Tick
    <2>2. parts[p] = NoPart \/ parts[p] \in PartFile
      BY DEF Inv, TypeOK
    <2>3. CASE parts[p] # NoPart /\ parts[p].age < StaleAfter
      BY <2>1, <2>2, <2>3
    <2>4. CASE ~(parts[p] # NoPart /\ parts[p].age < StaleAfter)
      BY <2>1, <2>4, Zenon
    <2> QED
      BY <2>3, <2>4
  <1>2. \A p \in Parts : parts[p] \in PartFile /\ parts[p].age < StaleAfter =>
            /\ [parts[p] EXCEPT !.age = @ + 1] \in PartFile
            /\ [parts[p] EXCEPT !.age = @ + 1].age = parts[p].age + 1
            /\ [parts[p] EXCEPT !.age = @ + 1].e = parts[p].e
            /\ [parts[p] EXCEPT !.age = @ + 1].data = parts[p].data
    BY DEF PartFile, StaleAfter, Stall
  <1>3. parts' = [p \in Parts |-> parts'[p]]
    BY DEF Tick
  <1>4. parts' \in [Parts -> PartFile \cup {NoPart}]
    BY <1>1, <1>2, <1>3 DEF Inv, TypeOK
  <1>5. TypeOK'
    BY <1>4 DEF Inv, TypeOK, Tick
  <1>6. ASSUME NEW d \in Downloaders PROVE DownloadInv(d)'
    <2>1. DownloadInv(d) /\ dl' = dl
      BY DEF Inv, PartsInv, Tick
    <2>2. CASE ~Writing(d)
      BY <2>1, <2>2 DEF DownloadInv, Writing, At
    <2>3. CASE Writing(d)
      <3>1. dl[d].part \in Parts /\ parts[dl[d].part] \in PartFile
        BY <2>3, OwnPart
      <3>2. parts[dl[d].part].age < Stall /\ parts[dl[d].part].age \in Nat
        BY <2>3, <3>1 DEF Tick, Writing, PartFile
      <3>3. /\ parts'[dl[d].part].e = parts[dl[d].part].e
            /\ parts'[dl[d].part].data = parts[dl[d].part].data
            /\ parts'[dl[d].part].age <= Stall
        <4>1. CASE parts'[dl[d].part] = parts[dl[d].part]
          BY <3>2, <4>1 DEF Stall
        <4>2. CASE parts'[dl[d].part] # parts[dl[d].part]
          <5> DEFINE g == [parts[dl[d].part] EXCEPT !.age = @ + 1]
          <5>1. parts'[dl[d].part] = g /\ g.age = parts[dl[d].part].age + 1
                /\ g.e = parts[dl[d].part].e /\ g.data = parts[dl[d].part].data
            BY <1>1, <1>2, <3>1, <4>2
          <5> QED
            BY <3>2, <5>1 DEF Stall
        <4> QED
          BY <4>1, <4>2
      <3> QED
        BY <2>1, <2>3, <3>3 DEF DownloadInv, Writing, At
    <2> QED
      BY <2>2, <2>3
  <1>7. OwnParts'
    BY DEF Inv, PartsInv, OwnParts, Writing, Tick
  <1> QED
    BY <1>5, <1>6, <1>7 DEF Inv, PartsInv, Tick, FinalComplete, RecordsInv, PruneInv

\* A new build under the same URL leaves every file on disk as it was.
LEMMA PublishInv ==
    ASSUME Inv, NEW e \in Entries, Publish(e)
    PROVE  Inv'
  <1>1. TypeOK'
    <2>1. published[e] + 1 \in Versions
      BY BoundsAssumption DEF Publish, Inv, TypeOK, Versions
    <2> QED
      BY <2>1 DEF Publish, Inv, TypeOK
  <1> QED
    BY <1>1 DEF Publish, Inv, FinalComplete, PartsInv, OwnParts, DownloadInv, Writing, At,
                RecordsInv, PruneInv

-----------------------------------------------------------------------------
(* Machines *)

\* What no step of a machine touches.
LEMMA OtherThanVMs ==
    ASSUME Inv, OnVMs, isos' = isos
    PROVE  FinalComplete' /\ PartsInv'
  BY DEF Inv, OnVMs, FinalComplete, PartsInv, OwnParts, DownloadInv, Writing, At

VMRecord == [image : Entries \cup {NoEntry}, disk : Data \cup {NoFile},
             seed : BOOLEAN, up : BOOLEAN, broken : BOOLEAN]

\* A record changes and keeps its image, or goes.
LEMMA SameImage ==
    ASSUME Inv, OnVMs, UNCHANGED <<isos, lock, maker>>,
           NEW n \in VMs, NEW k, vm' = [vm EXCEPT ![n] = k],
           \/ vm[n] # NoVM /\ k \in VMRecord /\ k.image = vm[n].image
           \/ k = NoVM /\ start[n] = "idle",
           start' = start \/ \E s \in {"idle", "seed"} : start' = [start EXCEPT ![n] = s],
           start'[n] = "seed" => k # NoVM
    PROVE  Inv'
  <1>1. vm'[n] = k /\ \A m \in VMs \ {n} : vm'[m] = vm[m] /\ start'[m] = start[m]
    BY DEF Inv, TypeOK
  <1>2. NoVM \in VMRecord
    BY DEF NoVM, VMRecord
  <1>3. TypeOK'
    BY <1>2 DEF Inv, TypeOK, OnVMs, VMRecord
  <1>4. RecordsInv'
    BY <1>1 DEF Inv, RecordsInv
  <1>5. PruneInv'
    <2>1. NoVM.image \notin pruner.left
      BY NoneAssumption DEF NoVM, NoEntry, Inv, TypeOK
    <2> QED
      BY <1>1, <2>1 DEF Inv, PruneInv, OnVMs
  <1> QED
    BY <1>3, <1>4, <1>5, OtherThanVMs DEF Inv

\* Create and Save.
LEMMA CreateInv ==
    ASSUME Inv, NEW n \in VMs, NEW e \in Entries, Create(n, e)
    PROVE  Inv'
  <1>1. FinalComplete' /\ PartsInv'
    BY OtherThanVMs DEF Create
  <1>2. pruner.pc = "idle" /\ pruner' = pruner
    BY DEF Create, OnVMs, Locked, NoOne, Inv, PruneInv
  <1>3. TypeOK'
    BY DEF Create, OnVMs, Inv, TypeOK
  <1>4. RecordsInv'
    BY DEF Create, OnVMs, resolveImage, Inv, RecordsInv
  <1>5. PruneInv'
    BY <1>2 DEF PruneInv
  <1> QED
    BY <1>1, <1>3, <1>4, <1>5 DEF Inv

\* Create records the image it found under the lock it still holds.
LEMMA SaveInv ==
    ASSUME Inv, Save
    PROVE  Inv'
  <1> DEFINE k == [NoVM EXCEPT !.image = maker.e]
  <1>1. FinalComplete' /\ PartsInv'
    BY OtherThanVMs DEF Save
  <1>2. /\ maker.n \in VMs /\ maker.e \in Entries /\ isos[maker.e] # NoFile
        /\ lock = "create"
    BY DEF Save, Inv, TypeOK, RecordsInv, NoMaker
  <1>3. k \in VMRecord /\ k.image = maker.e
    BY <1>2 DEF NoVM, VMRecord
  <1>4. vm' = [vm EXCEPT ![maker.n] = k] /\ start' = start /\ isos' = isos
    BY DEF Save
  <1> HIDE DEF k
  <1>5. k # NoVM
    BY <1>2, <1>3, NoneAssumption DEF NoVM, NoEntry
  <1>6. TypeOK'
    BY <1>2, <1>3, <1>4 DEF Save, OnVMs, Inv, TypeOK, VMRecord
  <1>7. RecordsInv'
    <2>1. maker'.pc # "save"
      BY DEF Save, NoMaker
    <2> QED
      BY <1>2, <1>3, <1>4, <1>5, <2>1 DEF Inv, TypeOK, RecordsInv
  <1>8. PruneInv'
    BY <1>2 DEF Save, OnVMs, Inv, PruneInv
  <1> QED
    BY <1>1, <1>6, <1>7, <1>8 DEF Inv

\* The other steps of a machine keep the image of its record.
LEMMA MachineInv ==
    ASSUME Inv, NEW n \in VMs,
           Destroy(n) \/ EditRecord(n) \/ StartPrepare(n) \/ StartSeed(n) \/ Stop(n)
    PROVE  Inv'
  <1>1. vm[n] \in VMRecord
    BY DEF Inv, TypeOK, VMRecord
  <1>2. start[n] = "seed" => vm[n] # NoVM
    BY DEF Inv, RecordsInv
  <1>3. CASE Destroy(n)
    BY <1>3, SameImage DEF Destroy
  <1>4. CASE EditRecord(n)
    <2> DEFINE k == [vm[n] EXCEPT !.broken = ~@]
    <2>1. k \in VMRecord /\ k.image = vm[n].image
      BY <1>1 DEF VMRecord
    <2>2. vm' = [vm EXCEPT ![n] = k] /\ vm[n] # NoVM /\ vm[n].image \in Entries
      BY <1>4 DEF EditRecord, Inv, RecordsInv
    <2> HIDE DEF k
    <2>3. k # NoVM
      BY <2>1, <2>2, NoneAssumption DEF NoVM, NoEntry
    <2> QED
      BY <1>4, <2>1, <2>2, <2>3, SameImage DEF EditRecord
  <1>5. CASE Stop(n)
    <2> DEFINE k == [vm[n] EXCEPT !.up = FALSE]
    <2>0. vm[n] # NoVM
      BY <1>5 DEF Stop, NoVM
    <2>1. k \in VMRecord /\ k.image = vm[n].image
      BY <1>1 DEF VMRecord
    <2>2. vm' = [vm EXCEPT ![n] = k] /\ vm[n].image \in Entries
      BY <1>5, <2>0 DEF Stop, Inv, RecordsInv
    <2> HIDE DEF k
    <2>3. k # NoVM
      BY <2>1, <2>2, NoneAssumption DEF NoVM, NoEntry
    <2> QED
      BY <1>5, <2>0, <2>1, <2>2, <2>3, SameImage DEF Stop
  <1>6. CASE StartSeed(n)
    <2> DEFINE k == [vm[n] EXCEPT !.seed = TRUE, !.up = Boots(n, TRUE)]
    <2>0. vm[n] # NoVM
      BY <1>2, <1>6 DEF StartSeed
    <2>1. k \in VMRecord /\ k.image = vm[n].image
      BY <1>1 DEF VMRecord, Boots
    <2>2. vm' = [vm EXCEPT ![n] = k] \/ vm' = [vm EXCEPT ![n] = vm[n]]
      BY <1>6 DEF StartSeed, Inv, TypeOK
    <2>3. start'[n] = "idle" /\ start' = [start EXCEPT ![n] = "idle"]
      BY <1>6 DEF StartSeed, Inv, TypeOK
    <2> HIDE DEF k
    <2>4. OnVMs /\ UNCHANGED <<isos, lock, maker>>
      BY <1>6 DEF StartSeed
    <2>5. CASE vm' = [vm EXCEPT ![n] = k]
      BY <2>0, <2>1, <2>3, <2>4, <2>5, SameImage
    <2>6. CASE vm' = [vm EXCEPT ![n] = vm[n]]
      BY <1>1, <2>0, <2>3, <2>4, <2>6, SameImage
    <2> QED
      BY <2>2, <2>5, <2>6
  <1>7. CASE StartPrepare(n)
    <2>0. vm[n] # NoVM /\ vm[n].image \in Entries /\ OnVMs /\ UNCHANGED <<isos, lock, maker>>
      BY <1>7 DEF StartPrepare, Inv, RecordsInv
    <2>1. CASE vm[n].disk # NoFile
      <3> DEFINE k == [vm[n] EXCEPT !.up = Boots(n, vm[n].seed)]
      <3>1. k \in VMRecord /\ k.image = vm[n].image
        BY <1>1 DEF VMRecord, Boots
      <3>2. vm' = [vm EXCEPT ![n] = k] /\ start' = start
        BY <1>7, <2>1 DEF StartPrepare
      <3> HIDE DEF k
      <3>3. k # NoVM
        BY <2>0, <3>1, NoneAssumption DEF NoVM, NoEntry
      <3> QED
        BY <2>0, <3>1, <3>2, <3>3, SameImage
    <2>2. CASE vm[n].disk = NoFile
      <3> DEFINE k == [vm[n] EXCEPT !.disk = isos[vm[n].image]]
      <3>1. k \in VMRecord /\ k.image = vm[n].image
        BY <1>1, <2>0 DEF VMRecord, Inv, TypeOK
      <3>2. vm' = [vm EXCEPT ![n] = k] /\ start' = [start EXCEPT ![n] = "seed"]
        BY <1>7, <2>2 DEF StartPrepare
      <3> HIDE DEF k
      <3>3. k # NoVM
        BY <2>0, <3>1, NoneAssumption DEF NoVM, NoEntry
      <3> QED
        BY <2>0, <3>1, <3>2, <3>3, SameImage
    <2> QED
      BY <2>1, <2>2
  <1> QED
    BY <1>3, <1>4, <1>5, <1>6, <1>7

-----------------------------------------------------------------------------
(* Prune *)

\* Prune takes the flock, from nobody: no create is at work.
LEMMA PruneStartsInv ==
    ASSUME Inv, Prune
    PROVE  Inv'
  <1>1. PICK images \in BOOLEAN, broken \in BOOLEAN :
            /\ pruner' = [Resting EXCEPT !.pc = "parts", !.images = images]
            /\ vm' = [n \in VMs |-> IF broken /\ vm[n].broken /\ ~vm[n].up /\ start[n] = "idle"
                                    THEN NoVM ELSE vm[n]]
    BY DEF Prune
  <1>2. pruner'.pc = "parts"
        /\ pruner' \in [pc : {"idle", "parts", "images", "remove"}, images : BOOLEAN,
                        left : SUBSET Entries]
    BY <1>1 DEF Resting
  <1>3. \A n \in VMs : vm'[n] = vm[n] \/ (vm'[n] = NoVM /\ start[n] = "idle")
    <2> SUFFICES ASSUME NEW n \in VMs
                 PROVE  vm'[n] = vm[n] \/ (vm'[n] = NoVM /\ start[n] = "idle")
      OBVIOUS
    <2>1. vm'[n] = IF broken /\ vm[n].broken /\ ~vm[n].up /\ start[n] = "idle"
                   THEN NoVM ELSE vm[n]
      BY <1>1
    <2> QED
      BY <2>1, Zenon
  <1>4. NoVM \in VMRecord
    BY DEF NoVM, VMRecord
  <1>5. TypeOK'
    BY <1>1, <1>2, <1>4 DEF Prune, Pruning, Inv, TypeOK, VMRecord
  <1>6. maker.pc # "save" /\ maker' = maker /\ start' = start /\ isos' = isos
    BY DEF Prune, Pruning, Locked, NoOne, Inv, RecordsInv
  <1>7. RecordsInv'
    BY <1>3, <1>6 DEF Inv, RecordsInv
  <1>8. PruneInv'
    BY <1>2 DEF Prune, PruneInv
  <1>9. FinalComplete' /\ PartsInv'
    BY DEF Prune, Pruning, Inv, FinalComplete, PartsInv, OwnParts, DownloadInv, Writing, At
  <1> QED
    BY <1>5, <1>7, <1>8, <1>9 DEF Inv

\* prunePartialDownloads: a .part that old is of no download at work.
LEMMA PrunePartsInv ==
    ASSUME Inv, prunePartialDownloads
    PROVE  Inv'
  <1>1. parts' = [p \in Parts |-> IF Stale(p) THEN NoPart ELSE parts[p]]
    BY DEF prunePartialDownloads
  <1>2. \A d \in Downloaders : Writing(d) => ~Stale(dl[d].part) /\ dl[d].part \in Parts
    <2> SUFFICES ASSUME NEW d \in Downloaders, Writing(d)
                 PROVE  ~Stale(dl[d].part) /\ dl[d].part \in Parts
      OBVIOUS
    <2>1. dl[d].part \in Parts /\ parts[dl[d].part].age \in Nat
      BY OwnPart DEF PartFile
    <2>2. parts[dl[d].part].age <= Stall
      BY DEF Inv, PartsInv, DownloadInv
    <2> QED
      BY <2>1, <2>2 DEF Stale, StaleAfter, Stall
  <1>3. \A d \in Downloaders : Writing(d) => parts'[dl[d].part] = parts[dl[d].part]
    BY <1>1, <1>2
  <1>4. dl' = dl
    BY DEF prunePartialDownloads, Pruning
  <1>5. \A d \in Downloaders : DownloadInv(d)'
    BY <1>3, <1>4 DEF Inv, PartsInv, DownloadInv, Writing, At
  <1>6. OwnParts'
    BY <1>4 DEF Inv, PartsInv, OwnParts, Writing
  <1>7. pruner'.pc = "images"
        /\ pruner' \in [pc : {"idle", "parts", "images", "remove"}, images : BOOLEAN,
                        left : SUBSET Entries]
    BY DEF prunePartialDownloads, Inv, TypeOK
  <1>8. TypeOK'
    BY <1>1, <1>7 DEF prunePartialDownloads, Pruning, Inv, TypeOK
  <1>9. RecordsInv' /\ PruneInv' /\ FinalComplete'
    BY <1>7 DEF prunePartialDownloads, Pruning, Inv, RecordsInv, PruneInv, FinalComplete
  <1> QED
    BY <1>5, <1>6, <1>8, <1>9 DEF Inv, PartsInv

\* pruneImages: what is listed is named by no record.
LEMMA PruneListInv ==
    ASSUME Inv, pruneImages
    PROVE  Inv'
  <1> DEFINE left == IF pruner.images THEN LocalImages \ referencedImages ELSE {}
  <1>1. left \subseteq Entries /\ \A n \in VMs : vm[n].image \notin left
    BY NoneAssumption DEF LocalImages, referencedImages, NoEntry
  <1>2. pruner' = [Resting EXCEPT !.pc = "remove", !.left = left]
    BY DEF pruneImages
  <1> HIDE DEF left
  <1>3. pruner'.pc = "remove" /\ pruner'.left = left
        /\ pruner' \in [pc : {"idle", "parts", "images", "remove"}, images : BOOLEAN,
                        left : SUBSET Entries]
    BY <1>1, <1>2 DEF Resting
  <1>4. TypeOK'
    BY <1>3 DEF pruneImages, Pruning, Inv, TypeOK
  <1>5. PruneInv'
    BY <1>1, <1>3 DEF pruneImages, Inv, PruneInv
  <1>6. FinalComplete' /\ PartsInv' /\ RecordsInv'
    BY DEF pruneImages, Pruning, Inv, FinalComplete, PartsInv, OwnParts, DownloadInv, Writing, At,
           RecordsInv
  <1> QED
    BY <1>4, <1>5, <1>6 DEF Inv

\* RemoveImage: no create is under way, and no record names the image.
LEMMA RemoveImageInv ==
    ASSUME Inv, RemoveImage
    PROVE  Inv'
  <1>1. lock = "prune" /\ maker.pc # "save" /\ maker' = maker /\ vm' = vm /\ start' = start
        /\ parts' = parts /\ dl' = dl
    BY DEF RemoveImage, Pruning, Inv, PruneInv, RecordsInv
  <1>2. PartsInv'
    BY <1>1 DEF Inv, PartsInv, OwnParts, DownloadInv, Writing, At
  <1>3. CASE pruner.left = {}
    <2>1. pruner' = Resting /\ lock' = NoOne /\ isos' = isos
      BY <1>3 DEF RemoveImage
    <2>2. pruner'.pc = "idle"
          /\ pruner' \in [pc : {"idle", "parts", "images", "remove"}, images : BOOLEAN,
                          left : SUBSET Entries]
      BY <2>1 DEF Resting
    <2>3. TypeOK'
      BY <1>1, <2>1, <2>2 DEF RemoveImage, Pruning, Inv, TypeOK
    <2>4. FinalComplete' /\ RecordsInv' /\ PruneInv'
      BY <1>1, <2>1, <2>2 DEF Inv, FinalComplete, RecordsInv, PruneInv
    <2> QED
      BY <1>2, <2>3, <2>4 DEF Inv
  <1>4. CASE pruner.left # {}
    <2>1. PICK e \in pruner.left : /\ isos' = [isos EXCEPT ![e] = NoFile]
                                   /\ pruner' = [pruner EXCEPT !.left = @ \ {e}]
                                   /\ lock' = lock
      BY <1>4 DEF RemoveImage
    <2>2. e \in Entries /\ pruner.pc = "remove"
      BY DEF RemoveImage, Inv, TypeOK
    <2>3. \A n \in VMs : vm[n].image # e
      BY <2>2 DEF Inv, PruneInv
    <2>4. pruner'.pc = "remove" /\ pruner'.left \subseteq pruner.left
          /\ pruner' \in [pc : {"idle", "parts", "images", "remove"}, images : BOOLEAN,
                          left : SUBSET Entries]
      BY <2>1, <2>2 DEF Inv, TypeOK
    <2>5. TypeOK'
      BY <1>1, <2>1, <2>4 DEF RemoveImage, Pruning, Inv, TypeOK
    <2>6. FinalComplete'
      BY <2>1 DEF Inv, TypeOK, FinalComplete
    <2>7. RecordsInv'
      BY <1>1, <2>1, <2>3 DEF Inv, TypeOK, RecordsInv
    <2>8. PruneInv'
      BY <1>1, <2>1, <2>2, <2>4 DEF Inv, PruneInv
    <2> QED
      BY <1>2, <2>5, <2>6, <2>7, <2>8 DEF Inv
  <1> QED
    BY <1>3, <1>4

-----------------------------------------------------------------------------
(* The theorems *)

\* The invariant holds when the cache is first used.
LEMMA InitInv == Init => Inv
  <1> SUFFICES ASSUME Init PROVE Inv
    OBVIOUS
  <1>1. \A d \in Downloaders : dl[d] = Idle
    BY DEF Init
  <1>2. Idle \in Fetching
    BY BoundsAssumption, TwoBlocks DEF Idle, Fetching
  <1>3. NoVM \in VMRecord
    BY DEF NoVM, VMRecord
  <1>4. Resting \in [pc : {"idle", "parts", "images", "remove"}, images : BOOLEAN,
                     left : SUBSET Entries] /\ Resting.pc = "idle"
    BY DEF Resting
  <1>5. 1 \in Versions
    BY BoundsAssumption DEF Versions
  <1>6. TypeOK
    BY <1>2, <1>3, <1>4, <1>5, CatalogsAssumption DEF Init, TypeOK, VMRecord
  <1>7. PartsInv
    BY <1>1 DEF PartsInv, OwnParts, DownloadInv, Writing, At, Idle
  <1>8. RecordsInv /\ PruneInv /\ FinalComplete
    BY <1>4 DEF Init, RecordsInv, PruneInv, FinalComplete, NoMaker
  <1> QED
    BY <1>6, <1>7, <1>8 DEF Inv

\* Every step keeps it.
LEMMA InvNext == Inv /\ [Next]_vars => Inv'
  <1> SUFFICES ASSUME Inv, [Next]_vars PROVE Inv'
    OBVIOUS
  <1>1. CASE Download
    BY <1>1, BeginsInv, GetInv, ChunkInv, GivesUpInv, FinishInv, KillInv DEF Download, Progress
  <1>2. CASE Machines
    BY <1>2, CreateInv, MachineInv DEF Machines
  <1>3. CASE Tick \/ (\E e \in Entries : Publish(e)) \/ Save
    BY <1>3, TickInv, PublishInv, SaveInv
  <1>4. CASE Prune \/ prunePartialDownloads \/ pruneImages \/ RemoveImage
    BY <1>4, PruneStartsInv, PrunePartsInv, PruneListInv, RemoveImageInv
  <1>5. CASE UNCHANGED vars
    BY <1>5 DEF vars, Inv, TypeOK, FinalComplete, PartsInv, OwnParts, DownloadInv, Writing, At,
                RecordsInv, PruneInv
  <1> QED
    BY <1>1, <1>2, <1>3, <1>4, <1>5 DEF Next

\* So it always holds.
LEMMA InvHolds == Spec => []Inv
  BY InitInv, InvNext, PTL DEF Spec

\* The types of the variables.
THEOREM TypeCorrect == Spec => []TypeOK
  <1>1. Inv => TypeOK
    BY DEF Inv
  <1> QED
    BY <1>1, InvHolds, PTL

\* CacheSound: however many downloads, creates, starts and prunes overlap, fail
\* or are killed, every image under its final name is one published version,
\* whole; prune never takes a .part from a download at work nor do two share
\* one; and the image every record names is there.
THEOREM CacheStaysSound == Spec => []CacheSound
  <1>1. Inv => LivePartsStay
    BY DEF Inv, PartsInv, OwnParts, DownloadInv, Writing, LivePartsStay
  <1>2. Inv => ImageThere
    BY DEF Inv, RecordsInv, ImageThere
  <1>3. Inv => CacheSound
    BY <1>1, <1>2 DEF Inv, CacheSound
  <1> QED
    BY <1>3, InvHolds, PTL

-----------------------------------------------------------------------------
(* The form: types and what its operators keep *)

\* A bring-your-own option names a file.
Options == {o \in Option : o.entry = None => o.path \in HomeFiles}

FormRecord ==
    [images : Seq(Options), img : Nat, byoBackend : Backends \cup {""}, byoOS : OSNames \cup {""},
     focus : {"image", "recipes", "backend", "os"},
     sel : SUBSET Recipes, explicit : SUBSET Recipes, values : SUBSET Recipes,
     wizard : Seq(HasParams), root : Recipes \cup {NoRecipe},
     fetching : BOOLEAN, dlGen : Nat, stranded : BOOLEAN]

FormOK(f) == f \in FormRecord /\ f.img \in 1 .. Len(f.images)

Selection(f) ==
    /\ f.sel = f.explicit \cup Added(f.explicit)
    /\ f.sel \subseteq recipeNames(f)
    /\ f.values \subseteq f.sel

\* The wizard asks for checked recipes only, and last, if at all, for the one
\* that opened it, which has no answer before.
Asks(f) ==
    /\ \A i \in 1 .. Len(f.wizard) : f.wizard[i] \in f.sel
    /\ f.wizard # <<>> =>
          /\ f.root \in Recipes /\ f.root \notin f.values
          /\ \A i \in 1 .. Len(f.wizard) : i < Len(f.wizard) => f.wizard[i] # f.root

Whole(f) == FormOK(f) /\ Selection(f) /\ Asks(f)

\* The download of g is that of f.
SameFetch(f, g) == g.fetching = f.fetching /\ g.dlGen = f.dlGen /\ g.stranded = f.stranded

\* From f to g no answer is lost but that of the recipe that was unchecked.
KeepsValues(f, g) ==
    \A r \in f.values : r \in g.sel /\ r \notin g.values
                        => g.focus = "recipes" /\ f.wizard = <<>> /\ r \notin g.explicit

\* What the image and its overrides are.
SameChoice(f, g) ==
    g.images = f.images /\ g.img = f.img /\ g.byoOS = f.byoOS /\ g.byoBackend = f.byoBackend

LEMMA FormConstants ==
    /\ Catalog \in Seq(Kind) /\ Catalog # <<>> /\ CatalogEntries = 1 .. Len(Catalog)
    /\ Infer \in Seq(Kind) /\ HomeFiles = 1 .. Len(Infer) /\ Len(Infer) \in Nat
    /\ Len(Catalog) \in Nat \ {0} /\ None \notin CatalogEntries /\ None \notin HomeFiles
  BY KindsAssumption DEF CatalogEntries, HomeFiles, None

LEMMA ResolvedIs ==
    ASSUME NEW f, FormOK(f)
    PROVE  /\ Selected(f) \in Options /\ KindOf(Selected(f)) \in Kind
           /\ Resolved(f).os \in OSNames \cup {""}
           /\ recipeNames(f) \subseteq Recipes
  <1>1. Selected(f) \in Options
    <2>1. f.images \in Seq(Options) /\ f.img \in 1 .. Len(f.images)
      BY DEF FormOK, FormRecord
    <2> QED
      BY <2>1 DEF Selected
  <1>2. KindOf(Selected(f)) \in Kind
    <2>1. PICK o \in Options : o = Selected(f)
      BY <1>1
    <2>2. CASE o.entry = None
      <3>1. o.path \in 1 .. Len(Infer)
        BY <2>2, FormConstants DEF Options
      <3>2. Infer[o.path] \in Kind
        BY <3>1, FormConstants
      <3> QED
        BY <2>1, <2>2, <3>2 DEF KindOf, IsBYO
    <2>3. CASE o.entry # None
      <3>1. o.entry \in 1 .. Len(Catalog)
        BY <2>3, FormConstants DEF Options, Option
      <3>2. Catalog[o.entry] \in Kind
        BY <3>1, FormConstants
      <3> QED
        BY <2>1, <2>3, <3>2 DEF KindOf, IsBYO
    <2> QED
      BY <2>2, <2>3
  <1>3. Resolved(f).os \in OSNames \cup {""}
    <2>1. KindOf(Selected(f)).os \in OSNames \cup {""}
      BY <1>2 DEF Kind
    <2>2. f.byoOS \in OSNames \cup {""}
      BY DEF FormOK, FormRecord
    <2> QED
      BY <2>1, <2>2 DEF Resolved
  <1>4. recipeNames(f) \subseteq Recipes
    BY <1>3, RecipesAssumption DEF recipeNames
  <1> QED
    BY <1>1, <1>2, <1>3, <1>4

LEMMA ImageDecides ==
    ASSUME NEW f, NEW g, SameChoice(f, g)
    PROVE  Resolved(g) = Resolved(f) /\ recipeNames(g) = recipeNames(f)
  BY DEF SameChoice, Resolved, recipeNames, Selected

LEMMA AddedIs ==
    /\ \A S \in SUBSET Recipes : Added(S) \in SUBSET Recipes
    /\ Added({}) = {}
    /\ \A S \in SUBSET Recipes : \A x : x \in S \cup Added(S) <=> x \in S \/ \E d \in S : x \in Depends[d]
  <1>1. \A S \in SUBSET Recipes : Added(S) \in SUBSET Recipes
    <2>1. \A d \in Recipes : Depends[d] \subseteq Recipes
      BY RecipesAssumption
    <2> QED
      BY <2>1 DEF Added
  <1>2. Added({}) = {}
    BY DEF Added
  <1>3. \A S \in SUBSET Recipes : \A x : x \in S \cup Added(S) <=> x \in S \/ \E d \in S : x \in Depends[d]
    BY DEF Added
  <1> QED
    BY <1>1, <1>2, <1>3

\* What core builds is what the form shows, for every form.
LEMMA BuildsIsResolved == ASSUME NEW f PROVE Builds(f) = Resolved(f)
  BY DEF Builds, Resolved, Apply, spec

LEMMA Refreshed ==
    ASSUME NEW f, FormOK(f)
    PROVE  /\ Whole(refreshRecipes(f)) /\ SameFetch(f, refreshRecipes(f))
           /\ refreshRecipes(f).sel = {} /\ refreshRecipes(f).wizard = <<>>
  <1>1. PICK g : g = refreshRecipes(f)
    OBVIOUS
  <1>2. g = [f EXCEPT !.sel = {}, !.explicit = {}, !.values = {}, !.wizard = <<>>]
    BY <1>1 DEF refreshRecipes
  <1>3. <<>> \in Seq(HasParams) /\ Len(<<>>) = 0
    OBVIOUS
  <1>4. g \in FormRecord
    BY <1>2, <1>3 DEF FormOK, FormRecord
  <1>5. /\ g.sel = {} /\ g.explicit = {} /\ g.values = {} /\ g.wizard = <<>>
        /\ g.img = f.img /\ g.images = f.images
        /\ SameFetch(f, g)
    BY <1>2 DEF FormOK, FormRecord, SameFetch
  <1>6. FormOK(g)
    BY <1>4, <1>5 DEF FormOK
  <1>7. Selection(g) /\ Asks(g)
    BY <1>3, <1>5, AddedIs DEF Selection, Asks
  <1> QED
    BY <1>1, <1>5, <1>6, <1>7 DEF Whole

\* A recipe is unchecked: what the others need stays.
LEMMA Recomputed ==
    ASSUME NEW f, FormOK(f), Selection(f), NEW h, FormOK(h), NEW r, SameChoice(f, h),
           h.explicit = f.explicit \ {r}, h.values = f.values \ {r}, h.wizard = <<>>
    PROVE  /\ Whole(Recompute(h)) /\ SameFetch(h, Recompute(h))
           /\ Recompute(h).explicit = h.explicit /\ Recompute(h).wizard = <<>>
           /\ Recompute(h).focus = h.focus
           /\ \A x \in f.values : x \in Recompute(h).sel /\ x # r => x \in Recompute(h).values
  <1>1. PICK E \in SUBSET Recipes : E = h.explicit
    BY DEF FormOK, FormRecord
  <1>2. f.explicit \in SUBSET Recipes /\ recipeNames(h) = recipeNames(f)
    BY ImageDecides DEF FormOK, FormRecord
  <1>3. E \subseteq recipeNames(h) /\ recipeNames(h) \cap h.explicit = E
    BY <1>1, <1>2 DEF Selection
  <1>4. \A x \in Added(E) : x \in f.sel
    <2>1. \A x \in Added(E) : \E d \in f.explicit : x \in Depends[d]
      BY <1>1, <1>2 DEF Added
    <2> QED
      BY <1>2, <2>1, AddedIs DEF Selection
  <1>5. Resolves(Resolved(h).os, E)
    BY <1>2, <1>4 DEF Resolves, recipeNames, Selection
  <1>6. PICK S \in SUBSET Recipes : S = E \cup Added(E)
    BY AddedIs
  <1>7. PICK g : g = Recompute(h)
    OBVIOUS
  <1>8. g = [h EXCEPT !.sel = S, !.values = @ \cap S]
    BY <1>3, <1>5, <1>6, <1>7 DEF Recompute
  <1>9. g \in FormRecord
    BY <1>8 DEF FormOK, FormRecord
  <1>10. /\ g.sel = S /\ g.values = h.values \cap S /\ g.explicit = E /\ g.wizard = <<>>
         /\ g.focus = h.focus /\ SameFetch(h, g) /\ SameChoice(h, g)
    BY <1>1, <1>8 DEF FormOK, FormRecord, SameFetch, SameChoice
  <1>11. FormOK(g)
    BY <1>9, <1>10 DEF FormOK, SameChoice
  <1>12. S \subseteq recipeNames(g)
    <2>1. recipeNames(g) = recipeNames(h)
      BY <1>10, ImageDecides
    <2> QED
      BY <1>2, <1>3, <1>4, <1>6, <2>1 DEF Selection
  <1>13. Selection(g)
    BY <1>6, <1>10, <1>12 DEF Selection
  <1>14. Asks(g)
    <2>1. Len(<<>>) = 0
      OBVIOUS
    <2> QED
      BY <1>10, <2>1 DEF Asks
  <1> QED
    BY <1>1, <1>7, <1>10, <1>11, <1>13, <1>14 DEF Whole

\* The queue of the wizard: checked recipes with parameters, the one it is about
\* at its end.
LEMMA WizardIs ==
    ASSUME NEW r \in Recipes, NEW D \in SUBSET Recipes, r \notin D
    PROVE  /\ Wizard(r, D) \in Seq(HasParams)
           /\ \A i \in 1 .. Len(Wizard(r, D)) : Wizard(r, D)[i] \in D \cup {r}
           /\ \A i \in 1 .. Len(Wizard(r, D)) : i < Len(Wizard(r, D)) => Wizard(r, D)[i] # r
  <1>1. PICK P \in SUBSET HasParams : P = D \cap HasParams
    OBVIOUS
  <1>2. IsFiniteSet(P)
    <2>1. IsFiniteSet(Recipes) /\ P \in SUBSET Recipes
      BY RecipesAssumption
    <2> QED
      BY <2>1, FS_Subset
  <1>3. PICK m \in Nat : m = Cardinality(P)
    BY <1>2, FS_CardinalityType
  <1>4. \E f \in [1 .. m -> P] : IsInjective(f)
    <2>1. ExistsBijection(1 .. m, P)
      BY <1>2, <1>3, FS_CardinalityType
    <2> QED
      BY <2>1 DEF ExistsBijection, Bijection, Injection, IsInjective
  <1>5. PICK q : q = SetToSeq(P)
    OBVIOUS
  <1>6. q \in [1 .. m -> P]
    BY <1>3, <1>4, <1>5 DEF SetToSeq
  <1>7. q \in Seq(HasParams) /\ Len(q) = m /\ \A i \in 1 .. m : q[i] \in P
    BY <1>6
  <1>8. PICK e \in Seq(HasParams) : e = IF r \in HasParams THEN <<r>> ELSE <<>>
    <2>1. <<>> \in Seq(HasParams)
      OBVIOUS
    <2>2. r \in HasParams => <<r>> \in Seq(HasParams)
      OBVIOUS
    <2> QED
      BY <2>1, <2>2
  <1>9. Len(e) \in {0, 1} /\ \A i \in 1 .. Len(e) : e[i] = r
    <2>1. Len(<<>>) = 0 /\ Len(<<r>>) = 1 /\ <<r>>[1] = r
      OBVIOUS
    <2> QED
      BY <1>8, <2>1
  <1>10. PICK w : w = q \o e
    OBVIOUS
  <1>11. /\ w \in Seq(HasParams) /\ Len(w) = m + Len(e)
         /\ \A i \in 1 .. m : w[i] = q[i]
         /\ \A i \in 1 .. m + Len(e) : i > m => w[i] = e[i - m]
    <2>1. PICK k \in {0, 1} : k = Len(e)
      BY <1>9
    <2>2. w \in Seq(HasParams) /\ Len(w) = m + k
      BY <1>7, <1>10, <2>1
    <2>3. \A i \in 1 .. m + k : w[i] = IF i <= m THEN q[i] ELSE e[i - m]
      BY <1>7, <1>10, <2>1
    <2> QED
      BY <2>1, <2>2, <2>3
  <1>12. w = Wizard(r, D)
    BY <1>1, <1>5, <1>8, <1>10 DEF Wizard
  <1>13. \A i \in 1 .. m : w[i] \in D /\ w[i] # r
    BY <1>1, <1>7, <1>11
  <1>14. \A i \in 1 .. m + Len(e) : i > m => i = m + Len(e) /\ w[i] = r
    <2> SUFFICES ASSUME NEW i \in 1 .. m + Len(e), i > m PROVE i = m + Len(e) /\ w[i] = r
      OBVIOUS
    <2>1. Len(e) = 1 /\ i - m = 1
      BY <1>9
    <2>2. e[i - m] = r
      BY <1>9, <2>1
    <2> QED
      BY <1>11, <2>1, <2>2
  <1>15. \A i \in 1 .. m + Len(e) : i \in 1 .. m \/ i > m
    OBVIOUS
  <1> QED
    BY <1>9, <1>11, <1>12, <1>13, <1>14, <1>15

\* A recipe is checked with what it needs.
LEMMA Checked ==
    ASSUME NEW f, FormOK(f), Selection(f), f.wizard = <<>>, NEW r \in recipeNames(f), r \notin f.sel,
           NEW read \in BOOLEAN, Resolves(Resolved(f).os, (f.sel \cap recipeNames(f)) \cup {r})
    PROVE  /\ Whole(Check(f, r, read)) /\ SameFetch(f, Check(f, r, read))
           /\ Check(f, r, read).values = f.values
  <1>1. r \in Recipes /\ f.sel \in SUBSET Recipes /\ f.explicit \in SUBSET Recipes
    BY ResolvedIs DEF FormOK, FormRecord
  <1>2. PICK P \in SUBSET Recipes : P = f.sel \cup {r}
    BY <1>1
  <1>3. (f.sel \cap recipeNames(f)) \cup {r} = P
    BY <1>2 DEF Selection
  <1>4. PICK A \in SUBSET Recipes : A = Added(P)
    BY AddedIs
  <1>5. PICK w : w = IF read THEN Wizard(r, A) ELSE <<>>
    OBVIOUS
  <1>6. r \notin A
    BY <1>2, <1>4 DEF Added
  <1>0. <<>> \in Seq(HasParams)
    OBVIOUS
  <1>7. w \in Seq(HasParams)
    BY <1>0, <1>1, <1>5, <1>6, WizardIs
  <1>8. \A i \in 1 .. Len(w) : w[i] \in A \cup {r}
    BY <1>1, <1>5, <1>6, WizardIs
  <1>9. \A i \in 1 .. Len(w) : i < Len(w) => w[i] # r
    BY <1>1, <1>5, <1>6, WizardIs
  <1>10. PICK g : g = Check(f, r, read)
    OBVIOUS
  <1>11. PICK S \in SUBSET Recipes : S = P \cup A
    BY <1>2, <1>4
  <1>12. PICK E \in SUBSET Recipes : E = f.explicit \cup {r}
    BY <1>1
  <1>13. PICK q \in Recipes \cup {NoRecipe} : q = IF w = <<>> THEN f.root ELSE r
    BY <1>1 DEF FormOK, FormRecord
  <1>14. g = [f EXCEPT !.sel = S, !.explicit = E, !.wizard = w, !.root = q]
    BY <1>2, <1>3, <1>4, <1>5, <1>10, <1>11, <1>12, <1>13 DEF Check
  <1>15. g \in FormRecord
    BY <1>7, <1>14 DEF FormOK, FormRecord
  <1>16. /\ g.sel = S /\ g.explicit = E /\ g.wizard = w /\ g.root = q /\ g.values = f.values
         /\ SameFetch(f, g) /\ SameChoice(f, g)
    BY <1>14 DEF FormOK, FormRecord, SameFetch, SameChoice
  <1>17. FormOK(g)
    BY <1>15, <1>16 DEF FormOK, SameChoice
  <1>18. S = E \cup Added(E)
    <2>1. \A x : x \in S <=> x \in f.sel \/ x = r \/ (\E d \in f.sel : x \in Depends[d]) \/ x \in Depends[r]
      BY <1>2, <1>4, <1>11, AddedIs
    <2>2. \A x : x \in f.sel <=> x \in f.explicit \/ \E d \in f.explicit : x \in Depends[d]
      BY <1>1, AddedIs DEF Selection
    <2>3. \A x : x \in E \cup Added(E) <=> x \in f.explicit \/ x = r \/ (\E d \in f.explicit : x \in Depends[d]) \/ x \in Depends[r]
      BY <1>12, AddedIs
    <2>4. \A d \in Recipes : \A e \in Depends[d] : Depends[e] \subseteq Depends[d]
      BY RecipesAssumption
    <2>5. \A x : (\E d \in f.sel : x \in Depends[d]) => \E d \in f.explicit : x \in Depends[d]
      BY <1>1, <2>2, <2>4
    <2>6. \A x : x \in S <=> x \in E \cup Added(E)
      BY <2>1, <2>2, <2>3, <2>5
    <2> QED
      BY <2>6
  <1>19. S \subseteq recipeNames(g)
    <2>1. recipeNames(g) = recipeNames(f)
      BY <1>16, ImageDecides
    <2>2. A \subseteq recipeNames(f)
      BY <1>3, <1>4 DEF Resolves, recipeNames
    <2> QED
      BY <1>2, <1>11, <2>1, <2>2 DEF Selection
  <1>20. Selection(g)
    BY <1>2, <1>11, <1>16, <1>18, <1>19 DEF Selection
  <1>21. Asks(g)
    <2>1. \A i \in 1 .. Len(w) : w[i] \in S
      BY <1>2, <1>8, <1>11
    <2>2. w # <<>> => q = r /\ r \notin f.values
      BY <1>13 DEF Selection
    <2> QED
      BY <1>1, <1>9, <1>16, <2>1, <2>2 DEF Asks
  <1> QED
    BY <1>10, <1>16, <1>17, <1>20, <1>21 DEF Whole

\* Nothing the user chose changes.
Untouched(f, g) ==
    /\ SameChoice(f, g)
    /\ g.sel = f.sel /\ g.explicit = f.explicit /\ g.values = f.values
    /\ g.wizard = f.wizard /\ g.root = f.root

LEMMA UntouchedStays ==
    ASSUME NEW f, NEW g, Untouched(f, g), g \in FormRecord, Whole(f)
    PROVE  Whole(g) /\ KeepsValues(f, g)
  <1>1. FormOK(g)
    BY DEF Whole, FormOK, Untouched, SameChoice
  <1>2. recipeNames(g) = recipeNames(f)
    BY ImageDecides DEF Untouched
  <1>3. Selection(g)
    BY <1>2 DEF Whole, Selection, Untouched
  <1>4. Asks(g)
    BY DEF Whole, Asks, Untouched
  <1> QED
    BY <1>1, <1>3, <1>4 DEF Whole, KeepsValues, Untouched

LEMMA EntriesAreOptions == buildImages \in Seq(Options) /\ Len(buildImages) = Len(Catalog)
  <1>1. PICK n \in Nat \ {0} : n = Len(Catalog)
    BY FormConstants
  <1>2. CatalogEntries = 1 .. n
    BY <1>1, FormConstants
  <1>3. \A e \in CatalogEntries : OfEntry(e) \in Options
    BY FormConstants DEF OfEntry, Options, Option
  <1>4. buildImages \in [1 .. n -> Options]
    BY <1>2, <1>3 DEF buildImages
  <1> QED
    BY <1>1, <1>4

LEMMA NewIsWhole == Whole(newForm) /\ newForm.fetching = FALSE /\ newForm.values = {}
  <1>1. PICK B \in Seq(Options) : B = buildImages /\ Len(B) = Len(Catalog)
    BY EntriesAreOptions
  <1>2. <<>> \in Seq(HasParams) /\ Len(<<>>) = 0
    OBVIOUS
  <1>3. newForm \in FormRecord
    BY <1>1, <1>2 DEF newForm, FormRecord
  <1>4. newForm.images = B /\ newForm.img = 1 /\ newForm.sel = {} /\ newForm.explicit = {}
        /\ newForm.values = {} /\ newForm.wizard = <<>> /\ newForm.fetching = FALSE
    BY <1>1 DEF newForm
  <1>5. FormOK(newForm)
    BY <1>1, <1>3, <1>4, FormConstants DEF FormOK
  <1>6. Selection(newForm) /\ Asks(newForm)
    BY <1>2, <1>4, AddedIs DEF Selection, Asks
  <1> QED
    BY <1>4, <1>5, <1>6 DEF Whole

\* Another image, or another override: what was selected goes.
LEMMA Reselected ==
    ASSUME NEW f, FormOK(f), NEW g \in FormRecord, g.img \in 1 .. Len(g.images)
    PROVE  /\ Whole(refreshRecipes(g)) /\ SameFetch(g, refreshRecipes(g))
           /\ KeepsValues(f, refreshRecipes(g))
  <1>1. FormOK(g)
    BY DEF FormOK
  <1> QED
    BY <1>1, Refreshed DEF KeepsValues

-----------------------------------------------------------------------------
(* What the picker, the fetches and the scans are *)

FetchRecord ==
    [entry : CatalogEntries \cup {None}, gen : Nat, cancelled : BOOLEAN,
     out : {"running", "ok", "err", "gone"}]

FetchesOK ==
    /\ fetches \in Seq(FetchRecord)
    /\ \A i \in 1 .. Len(fetches) : fetches[i].out # "gone" => fetches[i].entry \in CatalogEntries

ModalRecord ==
    [open : BOOLEAN, byo : BOOLEAN, images : Seq(Options), found : Seq(HomeFiles), ch : Nat,
     scanGen : Nat, scanDone : BOOLEAN, serial : Nat, mixed : BOOLEAN]

PickerOK ==
    /\ modal \in ModalRecord
    /\ modal.byo => modal.open
    /\ modal.byo <=> modal.ch # None
    /\ modal.ch \in 0 .. Len(scans)

RestOK ==
    /\ local \subseteq CatalogEntries /\ screen \in {"list", "form"}
    /\ ticks \in Nat /\ creating \in Nat /\ keys \in 0 .. MaxKeys

-----------------------------------------------------------------------------
(* The form stays whole and keeps its answers *)

LEMMA CancelKeeps ==
    ASSUME Whole(form), form.wizard # <<>>, form' = Cancel(form)
    PROVE  Whole(form') /\ KeepsValues(form, form')
  <1>1. PICK E \in SUBSET Recipes : E = form.explicit \ {form.root}
    BY DEF Whole, FormOK, FormRecord
  <1>2. PICK V \in SUBSET Recipes : V = form.values \ {form.root}
    BY DEF Whole, FormOK, FormRecord
  <1>3. PICK h : h = [form EXCEPT !.wizard = <<>>, !.root = NoRecipe, !.explicit = E, !.values = V]
    OBVIOUS
  <1>4. form' = Recompute(h)
    BY <1>1, <1>2, <1>3 DEF Cancel
  <1>5. <<>> \in Seq(HasParams)
    OBVIOUS
  <1>6. h \in FormRecord
    BY <1>3, <1>5 DEF Whole, FormOK, FormRecord
  <1>7. h.explicit = E /\ h.values = V /\ h.wizard = <<>> /\ SameChoice(form, h)
    BY <1>3 DEF Whole, FormOK, FormRecord, SameChoice
  <1>8. FormOK(h)
    BY <1>6, <1>7 DEF Whole, FormOK, SameChoice
  <1>9. /\ Whole(form')
        /\ \A x \in form.values : x \in (form').sel /\ x # form.root => x \in (form').values
    BY <1>1, <1>2, <1>4, <1>7, <1>8, Recomputed DEF Whole
  <1>10. form.root \notin form.values
    BY DEF Whole, Asks
  <1> QED
    BY <1>9, <1>10 DEF KeepsValues

LEMMA UncheckKeeps ==
    ASSUME Whole(form), form.wizard = <<>>, NEW r \in recipeNames(form),
           NEW f, f = [form EXCEPT !.focus = "recipes"], form' = Uncheck(f, r)
    PROVE  Whole(form') /\ KeepsValues(form, form')
  <1>1. PICK E \in SUBSET Recipes : E = form.explicit \ {r}
    BY DEF Whole, FormOK, FormRecord
  <1>2. PICK V \in SUBSET Recipes : V = form.values \ {r}
    BY DEF Whole, FormOK, FormRecord
  <1>3. PICK h : h = [form EXCEPT !.focus = "recipes", !.explicit = E, !.values = V]
    OBVIOUS
  <1>4. form' = Recompute(h)
    <2>1. f.explicit = form.explicit /\ f.values = form.values
      BY DEF Whole, FormOK, FormRecord
    <2>2. [f EXCEPT !.explicit = @ \ {r}, !.values = @ \ {r}] = h
      BY <1>1, <1>2, <1>3, <2>1 DEF Whole, FormOK, FormRecord
    <2> QED
      BY <2>2 DEF Uncheck
  <1>5. h \in FormRecord
    BY <1>3 DEF Whole, FormOK, FormRecord
  <1>6. h.explicit = E /\ h.values = V /\ h.wizard = <<>> /\ SameChoice(form, h) /\ h.focus = "recipes"
    BY <1>3 DEF Whole, FormOK, FormRecord, SameChoice
  <1>7. FormOK(h)
    BY <1>5, <1>6 DEF Whole, FormOK, SameChoice
  <1>8. /\ Whole(form') /\ (form').focus = "recipes" /\ (form').explicit = E
        /\ \A x \in form.values : x \in (form').sel /\ x # r => x \in (form').values
    <2>1. FormOK(form) /\ Selection(form)
      BY DEF Whole
    <2>2. h.explicit = form.explicit \ {r} /\ h.values = form.values \ {r} /\ h.wizard = <<>>
      BY <1>1, <1>2, <1>6
    <2>3. /\ Whole(Recompute(h)) /\ Recompute(h).explicit = h.explicit /\ Recompute(h).focus = h.focus
          /\ \A x \in form.values : x \in Recompute(h).sel /\ x # r => x \in Recompute(h).values
      BY <1>6, <1>7, <2>1, <2>2, Recomputed
    <2> QED
      BY <1>4, <1>6, <2>3
  <1> QED
    BY <1>1, <1>8 DEF KeepsValues

LEMMA RecipeKeeps ==
    ASSUME Whole(form), RecipeSpace
    PROVE  Whole(form') /\ KeepsValues(form, form')
  <1>1. form.wizard = <<>>
    BY DEF RecipeSpace, RowKey
  <1>0. PICK f : f = [form EXCEPT !.focus = "recipes"]
    OBVIOUS
  <1>2. PICK r \in recipeNames(form), read \in BOOLEAN :
           form' = IF r \in f.sel THEN Uncheck(f, r)
                   ELSE IF Resolves(Resolved(f).os, (f.sel \cap recipeNames(f)) \cup {r})
                   THEN Check(f, r, read)
                   ELSE f
    BY <1>0 DEF RecipeSpace
  <1>3. f \in FormRecord /\ Untouched(form, f)
    BY <1>0 DEF Whole, FormOK, FormRecord, Untouched, SameChoice
  <1>4. Whole(f) /\ KeepsValues(form, f)
    BY <1>3, UntouchedStays
  <1>5. CASE r \in f.sel
    BY <1>0, <1>1, <1>2, <1>5, UncheckKeeps
  <1>6. CASE r \notin f.sel /\ ~Resolves(Resolved(f).os, (f.sel \cap recipeNames(f)) \cup {r})
    BY <1>2, <1>4, <1>6
  <1>7. CASE r \notin f.sel /\ Resolves(Resolved(f).os, (f.sel \cap recipeNames(f)) \cup {r})
    <2>1. form' = Check(f, r, read)
      BY <1>2, <1>7
    <2>2. recipeNames(f) = recipeNames(form) /\ f.wizard = <<>> /\ f.values = form.values
      BY <1>1, <1>3, ImageDecides DEF Untouched
    <2>3. Whole(Check(f, r, read)) /\ Check(f, r, read).values = f.values
      BY <1>2, <1>4, <1>7, <2>2, Checked DEF Whole
    <2> QED
      BY <2>1, <2>2, <2>3 DEF KeepsValues
  <1> QED
    BY <1>5, <1>6, <1>7

LEMMA AnswerKeeps ==
    ASSUME Whole(form), WizardDone
    PROVE  Whole(form') /\ KeepsValues(form, form')
  <1>1. PICK w \in Seq(HasParams) : w = form.wizard /\ w # <<>>
    BY DEF Whole, FormOK, FormRecord, WizardDone
  <1>2. PICK k \in Nat \ {0} : k = Len(w)
    BY <1>1
  <1>3. Head(w) = w[1] /\ Head(w) \in HasParams /\ 1 \in 1 .. k
    BY <1>1, <1>2
  <1>4. PICK t \in Seq(HasParams) : t = Tail(w)
    <2>1. Tail(w) \in Seq(HasParams)
      BY <1>1, HeadTailProperties
    <2> QED
      BY <2>1
  <1>5. Len(t) = k - 1 /\ \A i \in 1 .. k - 1 : t[i] = w[i + 1]
    BY <1>1, <1>2, <1>4
  <1>6. PICK V \in SUBSET Recipes : V = form.values \cup {Head(w)}
    <2>1. Head(w) \in Recipes
      BY <1>3, RecipesAssumption
    <2>2. form.values \in SUBSET Recipes
      BY DEF Whole, FormOK, FormRecord
    <2>3. form.values \cup {Head(w)} \in SUBSET Recipes
      BY <2>1, <2>2
    <2> QED
      BY <2>3
  <1>7. PICK q \in Recipes \cup {NoRecipe} : q = IF k = 1 THEN NoRecipe ELSE form.root
    BY DEF Whole, FormOK, FormRecord
  <1>8. form' = [form EXCEPT !.values = V, !.wizard = t, !.root = q]
    BY <1>1, <1>2, <1>4, <1>6, <1>7 DEF WizardDone
  <1>9. form' \in FormRecord
    BY <1>8 DEF Whole, FormOK, FormRecord
  <1>10. /\ (form').values = V /\ (form').wizard = t /\ (form').root = q
         /\ (form').sel = form.sel /\ (form').explicit = form.explicit /\ SameChoice(form, form')
    BY <1>8 DEF Whole, FormOK, FormRecord, SameChoice
  <1>11. FormOK(form')
    BY <1>9, <1>10 DEF Whole, FormOK, SameChoice
  <1>12. \A i \in 1 .. k : w[i] \in form.sel /\ (i < k => w[i] # form.root)
    BY <1>1, <1>2 DEF Whole, Asks
  <1>13. Selection(form')
    <2>1. V \subseteq form.sel
      BY <1>3, <1>6, <1>12 DEF Whole, Selection
    <2>2. recipeNames(form') = recipeNames(form)
      BY <1>10, ImageDecides
    <2> QED
      BY <1>10, <2>1, <2>2 DEF Whole, Selection
  <1>14. Asks(form')
    <2>1. \A i \in 1 .. k - 1 : t[i] \in form.sel /\ (i < k - 1 => t[i] # form.root)
      <3> SUFFICES ASSUME NEW i \in 1 .. k - 1 PROVE t[i] \in form.sel /\ (i < k - 1 => t[i] # form.root)
        OBVIOUS
      <3>1. i + 1 \in 1 .. k
        OBVIOUS
      <3> QED
        BY <1>5, <1>12, <3>1
    <2>2. CASE t = <<>>
      <3>1. Len(<<>>) = 0
        OBVIOUS
      <3> QED
        BY <1>10, <2>2, <3>1 DEF Asks
    <2>3. CASE t # <<>>
      <3>1. Len(t) # 0
        BY <1>4, <2>3
      <3>2. 1 < k /\ k # 1
        BY <1>5, <3>1
      <3>3. q = form.root /\ w[1] # form.root
        BY <1>3, <1>7, <1>12, <3>2
      <3>4. form.root \in Recipes /\ form.root \notin form.values
        BY <1>1 DEF Whole, Asks
      <3>5. form.root \notin V
        BY <1>3, <1>6, <3>3, <3>4
      <3> QED
        BY <1>5, <1>10, <2>1, <3>3, <3>4, <3>5 DEF Asks
    <2> QED
      BY <2>2, <2>3
  <1>15. KeepsValues(form, form')
    BY <1>6, <1>10 DEF KeepsValues
  <1> QED
    BY <1>11, <1>13, <1>14, <1>15 DEF Whole

LEMMA ChooseKeeps ==
    ASSUME Whole(form), NEW images \in Seq(Options), NEW i \in 1 .. Len(images), Choose(images, i)
    PROVE  Whole(form') /\ KeepsValues(form, form') /\ SameFetch(form, form')
  <1>1. PICK f : f = [form EXCEPT !.images = images]
    OBVIOUS
  <1>2. f \in FormRecord /\ f.images = images /\ SameFetch(form, f)
    BY <1>1 DEF Whole, FormOK, FormRecord, SameFetch
  <1>3. PICK g : g = [f EXCEPT !.img = i, !.byoBackend = "", !.byoOS = ""]
    OBVIOUS
  <1>4. i \in Nat
    OBVIOUS
  <1>5. g \in FormRecord
    BY <1>2, <1>3, <1>4 DEF FormRecord
  <1>6. g.img = i /\ g.images = images /\ SameFetch(form, g)
    BY <1>2, <1>3 DEF FormRecord, SameFetch
  <1>7. form' = refreshRecipes(g)
    BY <1>1, <1>3 DEF Choose, selectImage
  <1>8. FormOK(form) /\ g.img \in 1 .. Len(g.images)
    BY <1>6 DEF Whole
  <1>9. Whole(refreshRecipes(g)) /\ SameFetch(g, refreshRecipes(g)) /\ KeepsValues(form, refreshRecipes(g))
    BY <1>5, <1>8, Reselected
  <1> QED
    BY <1>6, <1>7, <1>9 DEF SameFetch

LEMMA OverrideKeeps ==
    ASSUME Whole(form), BackendKey \/ OSKey
    PROVE  Whole(form') /\ KeepsValues(form, form') /\ SameFetch(form, form')
  <1>1. PICK g \in FormRecord :
           form' = refreshRecipes(g) /\ g.img = form.img /\ g.images = form.images /\ SameFetch(form, g)
    <2>1. CASE BackendKey
      <3>1. PICK b \in Backends : form' = refreshRecipes([form EXCEPT !.focus = "backend", !.byoBackend = b])
        BY <2>1 DEF BackendKey
      <3>2. PICK g : g = [form EXCEPT !.focus = "backend", !.byoBackend = b]
        OBVIOUS
      <3>3. g \in FormRecord
        BY <3>2 DEF Whole, FormOK, FormRecord
      <3>4. g.img = form.img /\ g.images = form.images /\ SameFetch(form, g)
        BY <3>2 DEF Whole, FormOK, FormRecord, SameFetch
      <3> QED
        BY <3>1, <3>2, <3>3, <3>4
    <2>2. CASE OSKey
      <3>1. PICK o \in OSNames \cup {""} : form' = refreshRecipes([form EXCEPT !.focus = "os", !.byoOS = o])
        BY <2>2 DEF OSKey
      <3>2. PICK g : g = [form EXCEPT !.focus = "os", !.byoOS = o]
        OBVIOUS
      <3>3. g \in FormRecord
        BY <3>2 DEF Whole, FormOK, FormRecord
      <3>4. g.img = form.img /\ g.images = form.images /\ SameFetch(form, g)
        BY <3>2 DEF Whole, FormOK, FormRecord, SameFetch
      <3> QED
        BY <3>1, <3>2, <3>3, <3>4
    <2> QED
      BY <2>1, <2>2
  <1>2. FormOK(form) /\ g.img \in 1 .. Len(g.images)
    BY <1>1 DEF Whole, FormOK
  <1>3. Whole(refreshRecipes(g)) /\ SameFetch(g, refreshRecipes(g)) /\ KeepsValues(form, refreshRecipes(g))
    BY <1>2, Reselected
  <1> QED
    BY <1>1, <1>3 DEF SameFetch

\* The outcome of a fetch: taken, mistaken for a late one, or lost on a wizard.
LEMMA OutcomeKeeps ==
    ASSUME Whole(form), FetchesOK, NEW i \in 1 .. Len(fetches), FetchOutcome(i)
    PROVE  /\ Whole(form') /\ KeepsValues(form, form')
           /\ (form').fetching => form.fetching
           /\ (form').dlGen = form.dlGen
           /\ form.stranded => (form').stranded
           /\ fetches[i].gen = form.dlGen /\ (form').fetching => (form').stranded
  <1> USE DEF FetchOutcome
  <1>1. PICK c \in FetchRecord : c = fetches[i] /\ c.out \in {"ok", "err"} /\ c.entry \in CatalogEntries
    BY DEF FetchesOK
  <1>2. CASE form.wizard # <<>>
    <2>1. PICK s \in BOOLEAN : s <=> form.stranded \/ (form.fetching /\ c.gen = form.dlGen)
      OBVIOUS
    <2>2. form.stranded \/ (form.fetching /\ c.gen = form.dlGen) \in BOOLEAN
      BY DEF Whole, FormOK, FormRecord
    <2>3. form' = [form EXCEPT !.stranded = s]
      BY <1>1, <1>2, <2>1, <2>2
    <2>4. form' \in FormRecord
      BY <2>3 DEF Whole, FormOK, FormRecord
    <2>5. Untouched(form, form') /\ (form').stranded = s /\ (form').fetching = form.fetching /\ (form').dlGen = form.dlGen
      BY <2>3 DEF Whole, FormOK, FormRecord, Untouched, SameChoice
    <2> QED
      BY <1>1, <2>1, <2>4, <2>5, UntouchedStays
  <1>3. CASE form.wizard = <<>> /\ c.gen # form.dlGen
    <2>1. form' = form
      BY <1>1, <1>3
    <2> QED
      BY <1>1, <1>3, <2>1 DEF KeepsValues
  <1>4. CASE form.wizard = <<>> /\ c.gen = form.dlGen /\ c.out = "err"
    <2>1. form' = [form EXCEPT !.fetching = FALSE]
      BY <1>1, <1>4
    <2>2. form' \in FormRecord
      BY <2>1 DEF Whole, FormOK, FormRecord
    <2>3. Untouched(form, form') /\ (form').stranded = form.stranded /\ (form').fetching = FALSE /\ (form').dlGen = form.dlGen
      BY <2>1 DEF Whole, FormOK, FormRecord, Untouched, SameChoice
    <2> QED
      BY <2>2, <2>3, UntouchedStays
  <1>5. CASE form.wizard = <<>> /\ c.gen = form.dlGen /\ c.out # "err"
    <2>1. PICK B \in Seq(Options) : B = buildImages /\ Len(B) = Len(Catalog)
      BY EntriesAreOptions
    <2>2. PICK g : g = [form EXCEPT !.fetching = FALSE, !.images = B, !.img = c.entry]
      OBVIOUS
    <2>3. form' = refreshRecipes(g)
      BY <1>1, <1>5, <2>1, <2>2
    <2>4. c.entry \in Nat /\ c.entry \in 1 .. Len(B)
      BY <1>1, <2>1, FormConstants
    <2>5. g \in FormRecord
      BY <2>2, <2>4 DEF Whole, FormOK, FormRecord
    <2>6. g.img = c.entry /\ g.images = B /\ g.fetching = FALSE /\ g.dlGen = form.dlGen /\ g.stranded = form.stranded
      BY <2>2 DEF Whole, FormOK, FormRecord
    <2>7. FormOK(form) /\ g.img \in 1 .. Len(g.images)
      BY <2>4, <2>6 DEF Whole
    <2>8. Whole(refreshRecipes(g)) /\ SameFetch(g, refreshRecipes(g)) /\ KeepsValues(form, refreshRecipes(g))
      BY <2>5, <2>7, Reselected
    <2> QED
      BY <2>3, <2>6, <2>8 DEF SameFetch
  <1> QED
    BY <1>2, <1>3, <1>4, <1>5

\* A step that changes the fetching fields or the focus of the form only.
LEMMA MarksKeep ==
    ASSUME Whole(form), NEW f \in BOOLEAN, NEW d \in Nat, NEW s \in BOOLEAN,
           NEW o \in {"image", "recipes", "backend", "os"},
           form' = [form EXCEPT !.focus = o, !.fetching = f, !.dlGen = d, !.stranded = s]
    PROVE  /\ Whole(form') /\ KeepsValues(form, form')
           /\ (form').fetching = f /\ (form').dlGen = d /\ (form').stranded = s
  <1>1. form' \in FormRecord
    BY DEF Whole, FormOK, FormRecord
  <1>2. Untouched(form, form') /\ (form').fetching = f /\ (form').dlGen = d /\ (form').stranded = s
    BY DEF Whole, FormOK, FormRecord, Untouched, SameChoice
  <1> QED
    BY <1>1, <1>2, UntouchedStays

\* The other steps that change the form.
LEMMA MarksMove ==
    ASSUME Whole(form), ListNew \/ FormEsc \/ ImageSpace \/ ImageOpen \/ DLTick
    PROVE  Whole(form') /\ KeepsValues(form, form')
  <1>1. PICK f \in BOOLEAN, d \in Nat, s \in BOOLEAN, o \in {"image", "recipes", "backend", "os"} :
           f = form.fetching /\ d = form.dlGen /\ s = form.stranded /\ o = form.focus
    BY DEF Whole, FormOK, FormRecord
  <1>2. form = [form EXCEPT !.focus = o, !.fetching = f, !.dlGen = d, !.stranded = s]
    BY <1>1 DEF Whole, FormOK, FormRecord
  <1>3. CASE form' = form
    BY <1>3 DEF KeepsValues
  <1>4. CASE ListNew
    <2>1. form' = newForm \/ form' = form
      BY <1>4 DEF ListNew
    <2>2. CASE form' = newForm
      <3>1. (form').sel = {}
        BY <2>2 DEF newForm
      <3> QED
        BY <2>2, <3>1, NewIsWhole DEF KeepsValues
    <2> QED
      BY <1>3, <2>1, <2>2
  <1>5. CASE FormEsc
    <2>1. form' = [form EXCEPT !.dlGen = @ + 1, !.fetching = FALSE] \/ form' = form
      BY <1>5 DEF FormEsc
    <2>2. CASE form' = [form EXCEPT !.dlGen = @ + 1, !.fetching = FALSE]
      <3>1. form' = [form EXCEPT !.focus = o, !.fetching = FALSE, !.dlGen = d + 1, !.stranded = s]
        BY <1>1, <2>2 DEF Whole, FormOK, FormRecord
      <3>2. FALSE \in BOOLEAN /\ d + 1 \in Nat
        OBVIOUS
      <3> QED
        BY <3>1, <3>2, MarksKeep
    <2> QED
      BY <1>3, <2>1, <2>2
  <1>6. CASE ImageSpace
    <2>1. form' = [form EXCEPT !.focus = "image", !.fetching = TRUE, !.dlGen = d + 1, !.stranded = FALSE]
      BY <1>1, <1>6 DEF ImageSpace
    <2>2. d + 1 \in Nat
      OBVIOUS
    <2> QED
      BY <2>1, <2>2, MarksKeep
  <1>7. CASE ImageOpen
    <2>1. form' = [form EXCEPT !.focus = "image", !.fetching = f, !.dlGen = d, !.stranded = s]
      BY <1>1, <1>7 DEF ImageOpen, Whole, FormOK, FormRecord
    <2> QED
      BY <2>1, MarksKeep
  <1>8. CASE DLTick
    <2>1. PICK t \in BOOLEAN : t = (form.stranded \/ form.fetching)
      OBVIOUS
    <2>2. form' = [form EXCEPT !.stranded = t]
      BY <1>8, <2>1 DEF DLTick
    <2>3. form' = [form EXCEPT !.focus = o, !.fetching = f, !.dlGen = d, !.stranded = t]
      BY <1>1, <2>2 DEF Whole, FormOK, FormRecord
    <2> QED
      BY <2>3, MarksKeep
  <1> QED
    BY <1>4, <1>5, <1>6, <1>7, <1>8

LEMMA FormMoves ==
    ASSUME Whole(form), PickerOK, FetchesOK, RestOK, [FormNext]_formVars
    PROVE  Whole(form') /\ KeepsValues(form, form')
  <1>1. CASE form' = form
    BY <1>1 DEF KeepsValues
  <1>2. CASE ListNew \/ FormEsc \/ ImageSpace \/ ImageOpen \/ DLTick
    BY <1>2, MarksMove
  <1>3. CASE BackendKey \/ OSKey
    BY <1>3, OverrideKeeps
  <1>4. CASE RecipeSpace
    BY <1>4, RecipeKeeps
  <1>5. CASE WizardDone
    BY <1>5, AnswerKeeps
  <1>6. CASE WizardEsc
    BY <1>6, CancelKeeps DEF WizardEsc
  <1>7. CASE FetchNext
    <2>1. DOMAIN fetches = 1 .. Len(fetches)
      BY DEF FetchesOK
    <2>2. PICK i \in 1 .. Len(fetches) : FetchEnds(i) \/ FetchOutcome(i)
      BY <1>7, <2>1 DEF FetchNext
    <2>3. CASE FetchEnds(i)
      BY <1>1, <2>3 DEF FetchEnds
    <2>4. CASE FetchOutcome(i)
      BY <2>4, OutcomeKeeps
    <2> QED
      BY <2>2, <2>3, <2>4
  <1>8. CASE ModalEnter
    <2>1. modal.images \in Seq(Options)
      BY DEF PickerOK, ModalRecord
    <2>2. DOMAIN modal.images = 1 .. Len(modal.images)
      BY <2>1
    <2>3. PICK i \in 1 .. Len(modal.images) : Choose(modal.images, i)
      BY <1>8, <2>2 DEF ModalEnter
    <2> QED
      BY <2>1, <2>3, ChooseKeeps
  <1>9. CASE ByoEnter
    <2>1. modal.images \in Seq(Options)
      BY DEF PickerOK, ModalRecord
    <2>2. PICK p \in HomeFiles : LET images == Append(modal.images, OfPath(p)) IN Choose(images, Len(images))
      BY <1>9 DEF ByoEnter
    <2>3. OfPath(p) \in Options
      BY FormConstants DEF OfPath, Options, Option
    <2>4. PICK images \in Seq(Options) : images = Append(modal.images, OfPath(p))
      <3>1. Append(modal.images, OfPath(p)) \in Seq(Options)
        BY <2>1, <2>3, AppendProperties
      <3> QED
        BY <3>1
    <2>5. Len(images) = Len(modal.images) + 1
      BY <2>1, <2>3, <2>4
    <2>6. Len(modal.images) \in Nat
      BY <2>1
    <2>7. Len(images) \in 1 .. Len(images)
      BY <2>5, <2>6
    <2>8. Choose(images, Len(images))
      BY <2>2, <2>4
    <2> QED
      BY <2>7, <2>8, ChooseKeeps
  <1>10. CASE FormEnter \/ BackToList \/ ModalEsc \/ openByo \/ ByoEsc
    BY <1>1, <1>10 DEF FormEnter, BackToList, ModalEsc, openByo, ByoEsc
  <1>11. CASE ScanNext \/ PumpNext
    BY <1>1, <1>11 DEF ScanNext, PumpNext, Walk, Send, Abandon, Close, ScanOnly, Receive, ImagesFound
  <1>12. CASE UNCHANGED formVars
    BY <1>1, <1>12 DEF formVars
  <1> QED
    BY <1>2, <1>3, <1>4, <1>5, <1>6, <1>7, <1>8, <1>9, <1>10, <1>11, <1>12 DEF FormNext

\* The steps that start no fetch, end none and take no message of one.
Aside ==
    /\ UNCHANGED <<fetches, ticks>> /\ SameFetch(form, form')

LEMMA Asides ==
    ASSUME Whole(form), PickerOK,
           \/ ImageOpen \/ BackendKey \/ OSKey \/ RecipeSpace \/ FormEnter \/ BackToList
           \/ WizardEsc \/ WizardDone \/ ModalEsc \/ ModalEnter \/ openByo \/ ByoEsc \/ ByoEnter
           \/ ScanNext \/ PumpNext \/ UNCHANGED formVars
    PROVE  Aside
  <1>1. CASE UNCHANGED form /\ UNCHANGED <<fetches, ticks>>
    BY <1>1 DEF Aside, SameFetch
  <1>2. CASE ImageOpen
    <2>1. form' = [form EXCEPT !.focus = "image"] /\ UNCHANGED <<fetches, ticks>>
      BY <1>2 DEF ImageOpen
    <2> QED
      BY <2>1 DEF Aside, SameFetch, Whole, FormOK, FormRecord
  <1>3. CASE BackendKey \/ OSKey
    BY <1>3, OverrideKeeps DEF Aside, BackendKey, OSKey
  <1>4. CASE RecipeSpace
    <2>0. PICK f : f = [form EXCEPT !.focus = "recipes"]
      OBVIOUS
    <2>1. PICK r \in recipeNames(form), read \in BOOLEAN :
             form' = IF r \in f.sel THEN Uncheck(f, r)
                     ELSE IF Resolves(Resolved(f).os, (f.sel \cap recipeNames(f)) \cup {r})
                     THEN Check(f, r, read)
                     ELSE f
      BY <1>4, <2>0 DEF RecipeSpace
    <2>2. f \in FormRecord /\ SameFetch(form, f)
      BY <2>0 DEF Whole, FormOK, FormRecord, SameFetch
    <2>3. SameFetch(f, Uncheck(f, r))
      BY <2>2 DEF Uncheck, Recompute, FormRecord, SameFetch
    <2>4. SameFetch(f, Check(f, r, read))
      BY <2>2 DEF Check, FormRecord, SameFetch
    <2>5. SameFetch(form, form')
      <3>1. form' = Uncheck(f, r) \/ form' = Check(f, r, read) \/ form' = f
        BY <2>1
      <3> QED
        BY <2>2, <2>3, <2>4, <3>1 DEF SameFetch
    <2> QED
      BY <1>4, <2>5 DEF Aside, RecipeSpace
  <1>5. CASE WizardEsc
    <2>1. form' = Cancel(form) /\ UNCHANGED <<fetches, ticks>>
      BY <1>5 DEF WizardEsc
    <2>2. SameFetch(form, Cancel(form))
      BY DEF Cancel, Recompute, Whole, FormOK, FormRecord, SameFetch
    <2> QED
      BY <2>1, <2>2 DEF Aside
  <1>6. CASE WizardDone
    BY <1>6 DEF Aside, WizardDone, Whole, FormOK, FormRecord, SameFetch
  <1>7. CASE ModalEnter
    <2>1. \E images : \E i : Choose(images, i)
      BY <1>7 DEF ModalEnter
    <2>2. SameFetch(form, form')
      BY <2>1 DEF Choose, selectImage, refreshRecipes, Whole, FormOK, FormRecord, SameFetch
    <2> QED
      BY <1>7, <2>2 DEF Aside, ModalEnter, ModalKey
  <1>8. CASE ByoEnter
    <2>1. \E images : \E i : Choose(images, i)
      BY <1>8 DEF ByoEnter
    <2>2. SameFetch(form, form')
      BY <2>1 DEF Choose, selectImage, refreshRecipes, Whole, FormOK, FormRecord, SameFetch
    <2> QED
      BY <1>8, <2>2 DEF Aside, ByoEnter, ModalKey
  <1>9. CASE FormEnter \/ BackToList \/ ModalEsc \/ openByo \/ ByoEsc
    BY <1>1, <1>9 DEF FormEnter, BackToList, ModalEsc, openByo, ByoEsc, ModalKey
  <1>10. CASE ScanNext
    BY <1>1, <1>10 DEF ScanNext, Walk, Send, Abandon, Close, ScanOnly
  <1>11. CASE PumpNext
    BY <1>1, <1>11 DEF PumpNext, Receive, ImagesFound
  <1>12. CASE UNCHANGED formVars
    BY <1>1, <1>12 DEF formVars
  <1> QED
    BY <1>2, <1>3, <1>4, <1>5, <1>6, <1>7, <1>8, <1>9, <1>10, <1>11, <1>12

\* The outcome that will end the download is on its way.
OnItsWay(f, q) == \E i \in 1 .. Len(q) : q[i].gen = f.dlGen /\ q[i].out # "gone"

Followed(f, q, t) == f.fetching /\ ~f.stranded => t > 0 /\ OnItsWay(f, q)

LEMMA FollowedIs ==
    ASSUME FetchesOK
    PROVE  FetchFollowed <=> Followed(form, fetches, ticks)
  <1>1. DOMAIN fetches = 1 .. Len(fetches)
    BY DEF FetchesOK
  <1> QED
    BY <1>1 DEF FetchFollowed, Followed, OnItsWay

LEMMA FetchesMove ==
    ASSUME Whole(form), PickerOK, FetchesOK, RestOK, [FormNext]_formVars, Followed(form, fetches, ticks)
    PROVE  /\ (FetchesOK)' /\ ticks' \in Nat
           /\ Followed(form', fetches', ticks')
  <1>1. CASE Aside
    BY <1>1 DEF Aside, FetchesOK, SameFetch, Followed, OnItsWay, RestOK
  <1>2. CASE ListNew
    <2>1. form' = newForm \/ form' = form
      BY <1>2 DEF ListNew
    <2>2. UNCHANGED <<fetches, ticks>>
      BY <1>2 DEF ListNew
    <2>3. newForm.fetching = FALSE
      BY NewIsWhole
    <2> QED
      BY <2>1, <2>2, <2>3 DEF FetchesOK, Followed, RestOK
  <1>3. CASE FormEsc
    <2>1. ticks' = ticks
      BY <1>3 DEF FormEsc
    <2>2. CASE ~form.fetching
      BY <1>3, <2>1, <2>2 DEF FormEsc, FetchesOK, Followed, RestOK
    <2>3. CASE form.fetching
      <3>1. (form').fetching = FALSE
        BY <1>3, <2>3 DEF FormEsc, Whole, FormOK, FormRecord
      <3>2. PICK n \in Nat : n = Len(fetches) /\ DOMAIN fetches = 1 .. n
        BY DEF FetchesOK
      <3>3. fetches' = [fetches EXCEPT ![n].cancelled = TRUE]
        BY <1>3, <2>3, <3>2 DEF FormEsc
      <3>4. PICK q : q = fetches /\ q \in Seq(FetchRecord) /\ Len(q) = n
        BY <3>2 DEF FetchesOK
      <3>5. CASE n = 0
        <4>1. fetches' = fetches
          BY <3>2, <3>3, <3>4, <3>5
        <4> QED
          BY <2>1, <3>1, <4>1 DEF FetchesOK, Followed, RestOK
      <3>6. CASE n # 0
        <4>1. n \in 1 .. n /\ q[n] \in FetchRecord
          BY <3>2, <3>4, <3>6
        <4>2. PICK c \in FetchRecord : c = [q[n] EXCEPT !.cancelled = TRUE]
          BY <4>1 DEF FetchRecord
        <4>3. fetches' = [q EXCEPT ![n] = c]
          BY <3>3, <3>4, <4>2
        <4>4. fetches' \in Seq(FetchRecord) /\ Len(fetches') = n
          BY <3>4, <4>1, <4>3
        <4>5. \A i \in 1 .. n : (fetches')[i].out = q[i].out /\ (fetches')[i].entry = q[i].entry
          BY <3>4, <4>1, <4>2, <4>3 DEF FetchRecord
        <4> QED
          BY <2>1, <3>1, <3>4, <4>4, <4>5 DEF FetchesOK, Followed, RestOK
      <3> QED
        BY <3>5, <3>6
    <2> QED
      BY <2>2, <2>3
  <1>4. CASE ImageSpace
    <2>1. PICK d \in Nat : d = form.dlGen
      BY DEF Whole, FormOK, FormRecord
    <2>2. PICK o \in Options : o = Selected(form) /\ o.entry # None
      BY <1>4, ResolvedIs DEF ImageSpace, Whole, IsBYO
    <2>3. o.entry \in CatalogEntries
      BY <2>2 DEF Options, Option
    <2>4. PICK c \in FetchRecord : c = [entry |-> o.entry, gen |-> d + 1, cancelled |-> FALSE, out |-> "running"]
      <3>1. PICK e \in CatalogEntries : e = o.entry
        BY <2>3
      <3>2. d + 1 \in Nat
        OBVIOUS
      <3>3. [entry |-> e, gen |-> d + 1, cancelled |-> FALSE, out |-> "running"] \in FetchRecord
        BY <3>2 DEF FetchRecord
      <3> QED
        BY <3>1, <3>3
    <2>5. fetches' = Append(fetches, c) /\ ticks' = ticks + 1 /\ (form').dlGen = d + 1
      BY <1>4, <2>1, <2>2, <2>4 DEF ImageSpace, Whole, FormOK, FormRecord
    <2>6. PICK n \in Nat : n = Len(fetches)
      BY DEF FetchesOK
    <2>7. fetches' \in Seq(FetchRecord) /\ Len(fetches') = n + 1 /\ (fetches')[n + 1] = c
          /\ \A i \in 1 .. n : (fetches')[i] = fetches[i]
      BY <2>4, <2>5, <2>6, AppendProperties DEF FetchesOK
    <2>8. \A i \in 1 .. n + 1 : i \in 1 .. n \/ i = n + 1
      OBVIOUS
    <2>9. (FetchesOK)'
      BY <2>3, <2>4, <2>6, <2>7, <2>8 DEF FetchesOK
    <2>10. OnItsWay(form', fetches')
      <3>1. n + 1 \in 1 .. n + 1 /\ c.gen = d + 1 /\ c.out # "gone"
        BY <2>4
      <3> QED
        BY <2>5, <2>7, <3>1 DEF OnItsWay
    <2>11. ticks' \in Nat /\ ticks' > 0
      BY <2>5 DEF RestOK
    <2> QED
      BY <2>9, <2>10, <2>11 DEF Followed
  <1>5. CASE DLTick
    <2>1. fetches' = fetches /\ ticks' \in Nat
      BY <1>5 DEF DLTick, RestOK
    <2>2. (form').fetching => (form').stranded
      BY <1>5 DEF DLTick, Whole, FormOK, FormRecord
    <2> QED
      BY <2>1, <2>2 DEF FetchesOK, Followed
  <1>6. CASE FetchNext
    <2>1. DOMAIN fetches = 1 .. Len(fetches) /\ Len(fetches) \in Nat
      BY DEF FetchesOK
    <2>2. PICK i \in 1 .. Len(fetches) : FetchEnds(i) \/ FetchOutcome(i)
      BY <1>6, <2>1 DEF FetchNext
    <2>3. PICK b \in FetchRecord : b = fetches[i]
      BY <2>2 DEF FetchesOK
    <2>4. PICK c \in FetchRecord :
             /\ fetches' = [fetches EXCEPT ![i] = c]
             /\ c.out # "gone" => c.entry = b.entry /\ b.out # "gone"
             /\ c.out = "gone" \/ c.gen = b.gen
             /\ FetchEnds(i) => c.out # "gone"
             /\ FetchEnds(i) \/ FetchOutcome(i)
      <3>1. CASE FetchEnds(i)
        <4>1. PICK r \in {"ok", "err"} : fetches' = [fetches EXCEPT ![i].out = r]
          BY <3>1 DEF FetchEnds
        <4>2. PICK c \in FetchRecord : c = [b EXCEPT !.out = r]
          BY DEF FetchRecord
        <4>3. fetches' = [fetches EXCEPT ![i] = c] /\ b.out = "running"
          BY <2>3, <3>1, <4>1, <4>2 DEF FetchEnds
        <4>4. c.out = r /\ c.entry = b.entry /\ c.gen = b.gen
          BY <4>2 DEF FetchRecord
        <4>5. c.out # "gone" /\ b.out # "gone"
          BY <4>3, <4>4
        <4> QED
          BY <3>1, <4>3, <4>4, <4>5
      <3>2. CASE FetchOutcome(i)
        <4>1. fetches' = [fetches EXCEPT ![i] = Gone] /\ b.out \in {"ok", "err"}
          BY <2>3, <3>2 DEF FetchOutcome
        <4>2. Gone \in FetchRecord /\ Gone.out = "gone"
          BY DEF Gone, FetchRecord, None
        <4>3. ~FetchEnds(i)
          BY <2>3, <4>1 DEF FetchEnds
        <4> QED
          BY <3>2, <4>1, <4>2, <4>3
      <3> QED
        BY <2>2, <3>1, <3>2
    <2>5. fetches' \in Seq(FetchRecord) /\ Len(fetches') = Len(fetches)
      BY <2>2, <2>4 DEF FetchesOK
    <2>6. \A j \in 1 .. Len(fetches) : (fetches')[j] = IF j = i THEN c ELSE fetches[j]
      BY <2>2, <2>4 DEF FetchesOK
    <2>7. (FetchesOK)'
      BY <2>3, <2>4, <2>5, <2>6 DEF FetchesOK
    <2>8. ticks' = ticks
      BY <2>4 DEF FetchEnds, FetchOutcome
    <2>9. CASE FetchEnds(i)
      <3>1. form' = form
        BY <2>9 DEF FetchEnds
      <3>2. OnItsWay(form, fetches) => OnItsWay(form, fetches')
        BY <2>2, <2>3, <2>4, <2>5, <2>6, <2>9 DEF OnItsWay
      <3> QED
        BY <2>7, <2>8, <3>1, <3>2 DEF Followed, RestOK
    <2>10. CASE FetchOutcome(i)
      <3>1. /\ (form').fetching => form.fetching
            /\ (form').dlGen = form.dlGen
            /\ form.stranded => (form').stranded
            /\ fetches[i].gen = form.dlGen /\ (form').fetching => (form').stranded
        BY <2>2, <2>10, OutcomeKeeps
      <3>2. ASSUME (form').fetching, ~(form').stranded
            PROVE  ticks > 0 /\ OnItsWay(form', fetches')
        <4>1. ticks > 0 /\ OnItsWay(form, fetches) /\ b.gen # form.dlGen
          BY <2>3, <3>1, <3>2 DEF Followed
        <4>2. PICK j \in 1 .. Len(fetches) : fetches[j].gen = form.dlGen /\ fetches[j].out # "gone"
          BY <4>1 DEF OnItsWay
        <4>3. j # i
          BY <2>3, <4>1, <4>2
        <4>4. (fetches')[j] = fetches[j]
          BY <2>6, <4>3
        <4> QED
          BY <2>5, <3>1, <4>1, <4>2, <4>4 DEF OnItsWay
      <3> QED
        BY <2>7, <2>8, <3>2 DEF Followed, RestOK
    <2> QED
      BY <2>4, <2>9, <2>10
  <1> QED
    BY <1>1, <1>2, <1>3, <1>4, <1>5, <1>6, Asides DEF FormNext

-----------------------------------------------------------------------------
(* The search: what is listed and what is on its way to the list *)

LEMMA OneLess ==
    ASSUME NEW B, IsABag(B), NEW c \in DOMAIN B, NEW C, C = B (-) One(c)
    PROVE  /\ IsABag(C) /\ DOMAIN C \subseteq DOMAIN B
           /\ \A d \in DOMAIN B : d # c => d \in DOMAIN C /\ C[d] = B[d]
           /\ B[c] = 1 => c \notin DOMAIN C
  BY DEF IsABag, One, SetToBag, (-)

LEMMA OneMore ==
    ASSUME NEW B, IsABag(B), NEW c, NEW C, C = B (+) One(c)
    PROVE  /\ IsABag(C) /\ DOMAIN C = DOMAIN B \cup {c}
           /\ \A x \in DOMAIN B : x # c => C[x] = B[x]
           /\ c \notin DOMAIN B => C[c] = 1
  BY DEF IsABag, One, SetToBag, (+)

ScanRecord ==
    [pos : 0 .. Len(Infer), batch : Seq(HomeFiles), ch : Seq(Seq(HomeFiles)),
     cancelled : BOOLEAN, closed : BOOLEAN]

\* A closed channel is that of a walk that has come to its end.
Sound(x) ==
    /\ Len(x.ch) <= ChanCap /\ Len(x.batch) <= ScanBatch
    /\ x.closed => x.pos = Len(Infer) /\ x.batch = <<>>

ScansOK(ss) == ss \in Seq(ScanRecord) /\ \A s \in 1 .. Len(ss) : Sound(ss[s])

PumpRecord ==
    [ch : Nat, gen : Nat, serial : Nat, got : {"waiting", "batch", "done"}, batch : Seq(HomeFiles)]

\* The command knows its scan, and its generation and picker tell the current
\* search from any other.
Knows(c, mo, n) ==
    /\ c \in PumpRecord /\ c.ch \in 1 .. n
    /\ c.got # "batch" => c.batch = <<>>
    /\ c.serial <= mo.serial
    /\ mo.open /\ c.serial = mo.serial => c.gen <= mo.scanGen
    /\ mo.byo => (c.ch = mo.ch <=> c.serial = mo.serial /\ c.gen = mo.scanGen)

PumpsOK(B, mo, n) == IsABag(B) /\ \A c \in DOMAIN B : Knows(c, mo, n)

\* b holds the files that follow the first a.
Run(b, a) == \A i \in 1 .. Len(b) : b[i] = a + i

\* The batches of ch, one after the other, lead from a to z.
Follows(ch, a, z) ==
    \E e \in [0 .. Len(ch) -> Nat] :
        /\ e[0] = a /\ e[Len(ch)] = z
        /\ \A k \in 1 .. Len(ch) : Run(ch[k], e[k - 1]) /\ e[k] = e[k - 1] + Len(ch[k])

\* From a on, what the scan has found and not yet handed over.
Content(x, a) ==
    /\ Follows(x.ch, a, x.pos - Len(x.batch))
    /\ Run(x.batch, x.pos - Len(x.batch))

InHand(c, x, a) ==
    /\ Run(c.batch, a) /\ Content(x, a + Len(c.batch))
    /\ c.got = "done" => x.closed /\ x.ch = <<>>

OnlyOne(c, B, s) ==
    /\ c \in DOMAIN B /\ B[c] = 1 /\ c.ch = s
    /\ \A d \in DOMAIN B : d.ch = s => d = c

\* What an open search lists is the beginning of the walk, and the rest is in
\* the hand of the one command that waits for it, in the channel or still ahead.
Listed(mo, x, B) ==
    /\ Run(mo.found, 0)
    /\ mo.scanDone => /\ x.closed /\ Len(mo.found) = x.pos
                      /\ \A c \in DOMAIN B : c.ch # mo.ch
    /\ ~mo.scanDone => \E c \in DOMAIN B : OnlyOne(c, B, mo.ch) /\ InHand(c, x, Len(mo.found))

Picker(mo, n) ==
    /\ mo \in ModalRecord
    /\ mo.byo => mo.open
    /\ mo.byo <=> mo.ch # None
    /\ mo.ch \in 0 .. n

SearchOK(mo, ss, B) ==
    /\ Picker(mo, Len(ss)) /\ ScansOK(ss) /\ PumpsOK(B, mo, Len(ss))
    /\ mo.byo => ~ss[mo.ch].cancelled /\ (~mo.mixed => Listed(mo, ss[mo.ch], B))

LEMMA FollowsNone ==
    ASSUME NEW ch \in Seq(Seq(HomeFiles)), Len(ch) = 0, NEW a \in Nat, NEW z
    PROVE  Follows(ch, a, z) <=> z = a
  <1>1. ASSUME z = a PROVE Follows(ch, a, z)
    <2>1. PICK e : e = [k \in 0 .. Len(ch) |-> a]
      OBVIOUS
    <2>2. e \in [0 .. Len(ch) -> Nat] /\ e[0] = a /\ e[Len(ch)] = z
      BY <1>1, <2>1
    <2>3. \A k \in 1 .. Len(ch) : FALSE
      OBVIOUS
    <2> QED
      BY <2>2, <2>3 DEF Follows
  <1> QED
    BY <1>1 DEF Follows

LEMMA FollowsAppend ==
    ASSUME NEW ch \in Seq(Seq(HomeFiles)), NEW w \in Seq(HomeFiles), NEW a, NEW z,
           Follows(ch, a, z), Run(w, z)
    PROVE  Follows(Append(ch, w), a, z + Len(w))
  <1>1. PICK n \in Nat : n = Len(ch)
    OBVIOUS
  <1>2. PICK m \in Nat : m = Len(w)
    OBVIOUS
  <1>3. PICK e \in [0 .. n -> Nat] :
           /\ e[0] = a /\ e[n] = z
           /\ \A k \in 1 .. n : Run(ch[k], e[k - 1]) /\ e[k] = e[k - 1] + Len(ch[k])
    BY <1>1 DEF Follows
  <1>4. PICK c \in Seq(Seq(HomeFiles)) : c = Append(ch, w)
    BY AppendProperties
  <1>5. Len(c) = n + 1 /\ c[n + 1] = w /\ \A k \in 1 .. n : c[k] = ch[k]
    BY <1>1, <1>4, AppendProperties
  <1>6. z \in Nat
    BY <1>3
  <1>7. PICK g \in [0 .. n + 1 -> Nat] : g = [k \in 0 .. n + 1 |-> IF k = n + 1 THEN z + m ELSE e[k]]
    <2>1. \A k \in 0 .. n + 1 : (IF k = n + 1 THEN z + m ELSE e[k]) \in Nat
      <3>1. \A k \in 0 .. n + 1 : k = n + 1 \/ k \in 0 .. n
        OBVIOUS
      <3> QED
        BY <1>3, <1>6, <3>1
    <2> QED
      BY <2>1
  <1>8. g[n + 1] = z + m /\ \A k \in 0 .. n : g[k] = e[k]
    BY <1>7
  <1>9. g[0] = a /\ g[n] = z
    BY <1>3, <1>8
  <1>10. \A k \in 1 .. n + 1 : Run(c[k], g[k - 1]) /\ g[k] = g[k - 1] + Len(c[k])
    <2> SUFFICES ASSUME NEW k \in 1 .. n + 1 PROVE Run(c[k], g[k - 1]) /\ g[k] = g[k - 1] + Len(c[k])
      OBVIOUS
    <2>1. CASE k = n + 1
      BY <1>2, <1>5, <1>8, <1>9, <2>1
    <2>2. CASE k # n + 1
      <3>1. k \in 1 .. n /\ k \in 0 .. n /\ k - 1 \in 0 .. n
        BY <2>2
      <3> QED
        BY <1>3, <1>5, <1>8, <3>1
    <2> QED
      BY <2>1, <2>2
  <1> QED
    BY <1>2, <1>4, <1>5, <1>8, <1>9, <1>10 DEF Follows

LEMMA FollowsTail ==
    ASSUME NEW ch \in Seq(Seq(HomeFiles)), ch # <<>>, NEW a, NEW z, Follows(ch, a, z)
    PROVE  Run(Head(ch), a) /\ Follows(Tail(ch), a + Len(Head(ch)), z)
  <1>1. PICK n \in Nat : n = Len(ch)
    OBVIOUS
  <1>2. n > 0 /\ Head(ch) = ch[1]
    BY <1>1
  <1>3. PICK e \in [0 .. n -> Nat] :
           /\ e[0] = a /\ e[n] = z
           /\ \A k \in 1 .. n : Run(ch[k], e[k - 1]) /\ e[k] = e[k - 1] + Len(ch[k])
    BY <1>1 DEF Follows
  <1>4. PICK t \in Seq(Seq(HomeFiles)) : t = Tail(ch)
    BY HeadTailProperties
  <1>5. Len(t) = n - 1 /\ \A k \in 1 .. n - 1 : t[k] = ch[k + 1]
    BY <1>1, <1>2, <1>4
  <1>6. PICK g \in [0 .. n - 1 -> Nat] : g = [k \in 0 .. n - 1 |-> e[k + 1]]
    <2>1. \A k \in 0 .. n - 1 : k + 1 \in 0 .. n
      OBVIOUS
    <2>2. \A k \in 0 .. n - 1 : e[k + 1] \in Nat
      BY <1>3, <2>1
    <2> QED
      BY <2>2
  <1>7. Run(ch[1], a) /\ e[1] = a + Len(ch[1])
    <2>1. 1 \in 1 .. n /\ 1 - 1 = 0
      BY <1>2
    <2> QED
      BY <1>3, <2>1
  <1>8. g[0] = e[1] /\ g[n - 1] = z
    <2>1. 0 \in 0 .. n - 1 /\ n - 1 \in 0 .. n - 1 /\ 0 + 1 = 1 /\ (n - 1) + 1 = n
      BY <1>2
    <2> QED
      BY <1>3, <1>6, <2>1
  <1>9. \A k \in 1 .. n - 1 : Run(t[k], g[k - 1]) /\ g[k] = g[k - 1] + Len(t[k])
    <2> SUFFICES ASSUME NEW k \in 1 .. n - 1 PROVE Run(t[k], g[k - 1]) /\ g[k] = g[k - 1] + Len(t[k])
      OBVIOUS
    <2>1. k + 1 \in 1 .. n /\ (k + 1) - 1 = k /\ k - 1 \in 0 .. n - 1 /\ k \in 0 .. n - 1 /\ (k - 1) + 1 = k
      OBVIOUS
    <2>2. Run(ch[k + 1], e[k]) /\ e[k + 1] = e[k] + Len(ch[k + 1])
      BY <1>3, <2>1
    <2>3. g[k - 1] = e[k] /\ g[k] = e[k + 1]
      BY <1>6, <2>1
    <2> QED
      BY <1>5, <2>2, <2>3
  <1> QED
    BY <1>2, <1>4, <1>5, <1>7, <1>8, <1>9 DEF Follows

\* One step of a walk.
Steps(x, y) ==
    /\ y \in ScanRecord /\ Sound(y) /\ y.cancelled = x.cancelled /\ ~x.closed
    /\ ~x.cancelled => \A a \in Nat : Content(x, a) => Content(y, a)

LEMMA WalkSteps ==
    ASSUME ScansOK(scans), NEW s \in 1 .. Len(scans), Walk(s) \/ Send(s) \/ Abandon(s) \/ Close(s)
    PROVE  \E y : scans' = [scans EXCEPT ![s] = y] /\ Steps(scans[s], y)
  <1>1. PICK x \in ScanRecord : x = scans[s] /\ Sound(x)
    BY DEF ScansOK
  <1>2. PICK p \in 0 .. Len(Infer) : p = x.pos
    BY DEF ScanRecord
  <1>3. PICK b \in Seq(HomeFiles) : b = x.batch
    BY DEF ScanRecord
  <1>4. PICK ch \in Seq(Seq(HomeFiles)) : ch = x.ch
    BY DEF ScanRecord
  <1>5. PICK m \in Nat : m = Len(b)
    OBVIOUS
  <1>6. PICK N \in Nat : N = Len(Infer)
    BY FormConstants
  <1>7. p \in 0 .. N /\ HomeFiles = 1 .. N /\ Len(<<>>) = 0 /\ <<>> \in Seq(HomeFiles)
    BY <1>2, <1>6, FormConstants
  <1>8. ScanBatch \in Nat \ {0} /\ ChanCap \in Nat \ {0}
    BY FormBounds
  <1>9. CASE Walk(s)
    <2>1. ~x.closed /\ m # ScanBatch /\ p # N
      BY <1>1, <1>2, <1>3, <1>5, <1>6, <1>9 DEF Walk, Full, Ended
    <2>2. p + 1 \in HomeFiles /\ p + 1 \in 0 .. Len(Infer)
      BY <1>6, <1>7, <2>1
    <2>3. PICK w \in Seq(HomeFiles) : w = Append(b, p + 1)
      <3>1. Append(b, p + 1) \in Seq(HomeFiles)
        BY <2>2, AppendProperties
      <3> QED
        BY <3>1
    <2>4. Len(w) = m + 1 /\ w[m + 1] = p + 1 /\ \A i \in 1 .. m : w[i] = b[i]
      BY <1>5, <2>2, <2>3, AppendProperties
    <2>5. PICK y : y = [x EXCEPT !.pos = p + 1, !.batch = w]
      OBVIOUS
    <2>6. scans' = [scans EXCEPT ![s] = y]
      BY <1>1, <1>2, <1>3, <1>9, <2>3, <2>5 DEF Walk
    <2>7. y \in ScanRecord
      BY <2>2, <2>5 DEF ScanRecord
    <2>8. y.pos = p + 1 /\ y.batch = w /\ y.ch = ch /\ y.cancelled = x.cancelled /\ y.closed = x.closed
      BY <1>4, <2>5 DEF ScanRecord
    <2>9. Sound(y)
      <3>1. m + 1 <= ScanBatch
        BY <1>1, <1>3, <1>5, <1>8, <2>1 DEF Sound
      <3> QED
        BY <1>1, <1>4, <2>1, <2>4, <2>8, <3>1 DEF Sound
    <2>10. \A a \in Nat : Content(x, a) => Content(y, a)
      <3> SUFFICES ASSUME NEW a \in Nat, Content(x, a) PROVE Content(y, a)
        OBVIOUS
      <3>1. Follows(ch, a, p - m) /\ \A i \in 1 .. m : b[i] = p - m + i
        BY <1>2, <1>3, <1>4, <1>5 DEF Content, Run
      <3>2. p + 1 - (m + 1) = p - m /\ p - m + (m + 1) = p + 1
        BY <1>7
      <3>3. \A i \in 1 .. m + 1 : w[i] = p - m + i
        <4>1. \A i \in 1 .. m + 1 : i \in 1 .. m \/ i = m + 1
          OBVIOUS
        <4> QED
          BY <2>4, <3>1, <3>2, <4>1
      <3>6. y.pos - Len(y.batch) = p - m
        <4>1. Len(y.batch) = m + 1 /\ y.pos = p + 1
          BY <2>4, <2>8
        <4> QED
          BY <3>2, <4>1
      <3>4. Follows(y.ch, a, y.pos - Len(y.batch))
        BY <2>8, <3>1, <3>6
      <3>5. Run(y.batch, y.pos - Len(y.batch))
        <4>1. \A i \in 1 .. Len(y.batch) : (y.batch)[i] = p - m + i
          BY <2>4, <2>8, <3>3
        <4> QED
          BY <3>6, <4>1 DEF Run
      <3> QED
        BY <3>4, <3>5 DEF Content
    <2> QED
      BY <1>1, <2>1, <2>6, <2>7, <2>8, <2>9, <2>10 DEF Steps
  <1>10. CASE Send(s)
    <2>1. ~x.closed /\ b # <<>> /\ Len(ch) < ChanCap
      BY <1>1, <1>3, <1>4, <1>10 DEF Send
    <2>2. PICK c \in Seq(Seq(HomeFiles)) : c = Append(ch, b)
      <3>1. Append(ch, b) \in Seq(Seq(HomeFiles))
        BY AppendProperties
      <3> QED
        BY <3>1
    <2>3. Len(c) = Len(ch) + 1 /\ Len(ch) \in Nat
      BY <2>2, AppendProperties
    <2>4. PICK y : y = [x EXCEPT !.ch = c, !.batch = <<>>]
      OBVIOUS
    <2>5. scans' = [scans EXCEPT ![s] = y]
      BY <1>1, <1>3, <1>4, <1>10, <2>2, <2>4 DEF Send
    <2>6. y \in ScanRecord
      BY <1>7, <2>4 DEF ScanRecord
    <2>7. y.pos = p /\ y.batch = <<>> /\ y.ch = c /\ y.cancelled = x.cancelled /\ y.closed = x.closed
      BY <1>2, <2>4 DEF ScanRecord
    <2>8. Sound(y)
      <3>1. Len(c) <= ChanCap /\ 0 <= ScanBatch
        BY <1>8, <2>1, <2>3
      <3> QED
        BY <1>7, <2>1, <2>7, <3>1 DEF Sound
    <2>9. \A a \in Nat : Content(x, a) => Content(y, a)
      <3> SUFFICES ASSUME NEW a \in Nat, Content(x, a) PROVE Content(y, a)
        OBVIOUS
      <3>1. Follows(ch, a, p - m) /\ Run(b, p - m)
        BY <1>2, <1>3, <1>4, <1>5 DEF Content
      <3>2. Follows(c, a, p - m + m)
        BY <1>5, <2>2, <3>1, FollowsAppend
      <3>3. p - m + m = p /\ p - 0 = p
        BY <1>7
      <3> QED
        BY <1>7, <2>7, <3>2, <3>3 DEF Content, Run
    <2> QED
      BY <1>1, <2>1, <2>5, <2>6, <2>7, <2>8, <2>9 DEF Steps
  <1>11. CASE Close(s)
    <2>1. ~x.closed /\ p = N /\ b = <<>>
      BY <1>1, <1>2, <1>3, <1>6, <1>11 DEF Close, Ended
    <2>2. PICK y : y = [x EXCEPT !.closed = TRUE]
      OBVIOUS
    <2>3. scans' = [scans EXCEPT ![s] = y]
      BY <1>1, <1>11, <2>2 DEF Close
    <2>4. y \in ScanRecord
      BY <2>2 DEF ScanRecord
    <2>5. y.pos = p /\ y.batch = b /\ y.ch = ch /\ y.cancelled = x.cancelled
      BY <1>2, <1>3, <1>4, <2>2 DEF ScanRecord
    <2>6. Sound(y)
      BY <1>1, <1>3, <1>4, <1>6, <2>1, <2>5 DEF Sound
    <2>7. \A a \in Nat : Content(x, a) => Content(y, a)
      BY <1>2, <1>3, <1>4, <2>5 DEF Content
    <2> QED
      BY <1>1, <2>1, <2>3, <2>4, <2>5, <2>6, <2>7 DEF Steps
  <1>12. CASE Abandon(s)
    <2>1. ~x.closed /\ x.cancelled
      BY <1>1, <1>12 DEF Abandon
    <2>2. CASE p = N
      <3>1. PICK y : y = [x EXCEPT !.batch = <<>>, !.closed = TRUE]
        OBVIOUS
      <3>2. scans' = [scans EXCEPT ![s] = y]
        BY <1>1, <1>2, <1>6, <1>12, <2>2, <3>1 DEF Abandon, Ended
      <3>3. y \in ScanRecord
        BY <1>7, <3>1 DEF ScanRecord
      <3>4. y.pos = p /\ y.batch = <<>> /\ y.ch = ch /\ y.cancelled = x.cancelled
        BY <1>2, <1>4, <3>1 DEF ScanRecord
      <3>5. Sound(y)
        BY <1>1, <1>4, <1>6, <1>7, <1>8, <2>2, <3>4 DEF Sound
      <3> QED
        BY <1>1, <2>1, <3>2, <3>3, <3>4, <3>5 DEF Steps
    <2>3. CASE p # N
      <3>1. PICK y : y = [x EXCEPT !.pos = N]
        OBVIOUS
      <3>2. scans' = [scans EXCEPT ![s] = y]
        BY <1>1, <1>2, <1>6, <1>12, <2>3, <3>1 DEF Abandon, Ended
      <3>3. N \in 0 .. Len(Infer)
        BY <1>6
      <3>4. y \in ScanRecord
        BY <3>1, <3>3 DEF ScanRecord
      <3>5. y.batch = b /\ y.ch = ch /\ y.cancelled = x.cancelled /\ y.closed = x.closed
        BY <1>3, <1>4, <3>1 DEF ScanRecord
      <3>6. Sound(y)
        BY <1>1, <1>3, <1>4, <2>1, <3>5 DEF Sound
      <3> QED
        BY <1>1, <2>1, <3>2, <3>4, <3>5, <3>6 DEF Steps
    <2> QED
      BY <2>2, <2>3
  <1> QED
    BY <1>9, <1>10, <1>11, <1>12

LEMMA ScanMoves ==
    ASSUME NEW mo, NEW ss, NEW B, SearchOK(mo, ss, B), NEW s \in 1 .. Len(ss), NEW y, Steps(ss[s], y),
           NEW tt, tt = [ss EXCEPT ![s] = y]
    PROVE  SearchOK(mo, tt, B)
  <1>1. PICK n \in Nat : n = Len(ss)
    BY DEF SearchOK, ScansOK
  <1>2. ss \in Seq(ScanRecord) /\ y \in ScanRecord /\ s \in 1 .. n
    BY <1>1 DEF SearchOK, ScansOK, Steps
  <1>3. tt \in Seq(ScanRecord) /\ Len(tt) = n
    BY <1>1, <1>2
  <1>4. \A t \in 1 .. n : tt[t] = IF t = s THEN y ELSE ss[t]
    BY <1>1, <1>2
  <1>5. ScansOK(tt)
    BY <1>1, <1>3, <1>4 DEF SearchOK, ScansOK, Steps
  <1>6. ASSUME mo.byo
        PROVE  ~tt[mo.ch].cancelled /\ (~mo.mixed => Listed(mo, tt[mo.ch], B))
    <2>1. mo.ch \in 1 .. n /\ mo \in ModalRecord
      <3>1. mo.ch \in 0 .. n /\ mo.ch # None
        BY <1>1, <1>6 DEF SearchOK, Picker
      <3> QED
        BY <3>1 DEF SearchOK, Picker, None
    <2>2. ~ss[mo.ch].cancelled /\ (~mo.mixed => Listed(mo, ss[mo.ch], B))
      BY <1>6 DEF SearchOK
    <2>3. CASE mo.ch # s
      BY <1>4, <2>1, <2>2, <2>3
    <2>4. CASE mo.ch = s
      <3>1. tt[mo.ch] = y /\ ~ss[s].closed /\ y.cancelled = ss[s].cancelled
        BY <1>4, <2>1, <2>4 DEF Steps
      <3>2. ASSUME ~mo.mixed PROVE Listed(mo, y, B)
        <4>1. Listed(mo, ss[s], B) /\ ~mo.scanDone
          BY <2>2, <2>4, <3>1, <3>2 DEF Listed
        <4>2. PICK c \in DOMAIN B : OnlyOne(c, B, mo.ch) /\ InHand(c, ss[s], Len(mo.found))
          BY <4>1 DEF Listed
        <4>3. c \in PumpRecord
          BY DEF SearchOK, PumpsOK, Knows
        <4>4. Len(mo.found) \in Nat /\ Len(c.batch) \in Nat
          BY <2>1, <4>3 DEF ModalRecord, PumpRecord
        <4>5. Len(mo.found) + Len(c.batch) \in Nat
          <5>1. PICK j \in Nat : j = Len(mo.found)
            BY <4>4
          <5>2. PICK k \in Nat : k = Len(c.batch)
            BY <4>4
          <5>3. j + k \in Nat
            OBVIOUS
          <5> QED
            BY <5>1, <5>2, <5>3
        <4>6. Content(y, Len(mo.found) + Len(c.batch))
          BY <2>2, <2>4, <4>2, <4>5 DEF InHand, Steps
        <4>7. InHand(c, y, Len(mo.found))
          BY <3>1, <4>2, <4>6 DEF InHand
        <4> QED
          BY <4>1, <4>2, <4>7 DEF Listed
      <3> QED
        BY <2>2, <2>4, <3>1, <3>2
    <2> QED
      BY <2>3, <2>4
  <1> QED
    BY <1>1, <1>3, <1>5, <1>6 DEF SearchOK

LEMMA SwapIs ==
    ASSUME NEW B, IsABag(B), NEW c \in DOMAIN B, NEW d, NEW D, D = (B (-) One(c)) (+) One(d)
    PROVE  /\ IsABag(D) /\ d \in DOMAIN D /\ \A e \in DOMAIN D : e = d \/ e \in DOMAIN B
           /\ \A e \in DOMAIN B : e # c /\ e # d => e \in DOMAIN D /\ D[e] = B[e]
           /\ B[c] = 1 => /\ \A e \in DOMAIN D : e = c => e = d
                          /\ d = c \/ d \notin DOMAIN B => D[d] = 1
  <1>1. PICK M : M = B (-) One(c)
    OBVIOUS
  <1>2. /\ IsABag(M) /\ DOMAIN M \subseteq DOMAIN B
        /\ \A e \in DOMAIN B : e # c => e \in DOMAIN M /\ M[e] = B[e]
        /\ B[c] = 1 => c \notin DOMAIN M
    BY <1>1, OneLess
  <1>3. D = M (+) One(d)
    BY <1>1
  <1>4. IsABag(M)
    BY <1>2
  <1>5. IsABag(D) /\ DOMAIN D = DOMAIN M \cup {d}
    BY <1>3, <1>4, OneMore
  <1>6. \A e \in DOMAIN M : e # d => D[e] = M[e]
    BY <1>3, <1>4 DEF IsABag, One, SetToBag, (+)
  <1>7. d \notin DOMAIN M => D[d] = 1
    BY <1>3, <1>4 DEF IsABag, One, SetToBag, (+)
  <1> QED
    BY <1>2, <1>5, <1>6, <1>7

LEMMA Swapped ==
    ASSUME NEW B, IsABag(B), NEW c \in DOMAIN B, NEW d, d.ch = c.ch,
           NEW D, D = (B (-) One(c)) (+) One(d)
    PROVE  /\ IsABag(D) /\ \A e \in DOMAIN D : e = d \/ e \in DOMAIN B
           /\ \A e : \A s : s # c.ch /\ OnlyOne(e, B, s) => OnlyOne(e, D, s)
           /\ OnlyOne(c, B, c.ch) => OnlyOne(d, D, c.ch)
  <1>1. /\ IsABag(D) /\ d \in DOMAIN D /\ \A e \in DOMAIN D : e = d \/ e \in DOMAIN B
        /\ \A e \in DOMAIN B : e # c /\ e # d => e \in DOMAIN D /\ D[e] = B[e]
        /\ B[c] = 1 => /\ \A e \in DOMAIN D : e = c => e = d
                       /\ d = c \/ d \notin DOMAIN B => D[d] = 1
    BY SwapIs
  <1>2. ASSUME NEW e, NEW s, s # c.ch, OnlyOne(e, B, s) PROVE OnlyOne(e, D, s)
    <2>1. e \in DOMAIN B /\ B[e] = 1 /\ e.ch = s /\ \A x \in DOMAIN B : x.ch = s => x = e
      BY <1>2 DEF OnlyOne
    <2>2. e # c /\ e # d
      BY <1>2, <2>1
    <2>3. e \in DOMAIN D /\ D[e] = 1
      BY <1>1, <2>1, <2>2
    <2>4. \A x \in DOMAIN D : x.ch = s => x = e
      BY <1>1, <1>2, <2>1
    <2> QED
      BY <2>1, <2>3, <2>4 DEF OnlyOne
  <1>3. ASSUME OnlyOne(c, B, c.ch) PROVE OnlyOne(d, D, c.ch)
    <2>1. B[c] = 1 /\ \A x \in DOMAIN B : x.ch = c.ch => x = c
      BY <1>3 DEF OnlyOne
    <2>2. d = c \/ d \notin DOMAIN B
      BY <2>1
    <2>3. \A x \in DOMAIN D : x.ch = c.ch => x = d
      BY <1>1, <2>1
    <2> QED
      BY <1>1, <2>1, <2>2, <2>3 DEF OnlyOne
  <1> QED
    BY <1>1, <1>2, <1>3

LEMMA ReceiveMoves ==
    ASSUME SearchOK(modal, scans, pumps), NEW c \in DOMAIN pumps, Receive(c)
    PROVE  SearchOK(modal, scans', pumps')
  <1>1. PICK n \in Nat : n = Len(scans)
    BY DEF SearchOK, ScansOK
  <1>2. IsABag(pumps) /\ scans \in Seq(ScanRecord) /\ modal \in ModalRecord
    BY DEF SearchOK, ScansOK, PumpsOK, Picker
  <1>3. Knows(c, modal, n) /\ c \in PumpRecord /\ c.ch \in 1 .. n /\ c.got = "waiting" /\ c.batch = <<>>
    BY <1>1 DEF SearchOK, PumpsOK, Knows, Receive
  <1>4. PICK x \in ScanRecord : x = scans[c.ch] /\ Sound(x)
    BY <1>1, <1>2, <1>3 DEF SearchOK, ScansOK
  <1>5. PICK ch \in Seq(Seq(HomeFiles)) : ch = x.ch
    BY <1>4 DEF ScanRecord
  <1>6. PICK d \in PumpRecord, y \in ScanRecord :
           /\ pumps' = (pumps (-) One(c)) (+) One(d)
           /\ scans' = [scans EXCEPT ![c.ch] = y]
           /\ d.ch = c.ch /\ d.gen = c.gen /\ d.serial = c.serial
           /\ d.got # "batch" => d.batch = <<>>
           /\ Sound(y) /\ y.cancelled = x.cancelled /\ y.closed = x.closed /\ y.pos = x.pos
           /\ \A a \in Nat : InHand(c, x, a) => InHand(d, y, a)
    <2>1. CASE ch = <<>>
      <3>1. x.closed /\ scans' = scans
        BY <1>4, <1>5, <2>1 DEF Receive
      <3>2. PICK d : d = [c EXCEPT !.got = "done"]
        OBVIOUS
      <3>3. pumps' = (pumps (-) One(c)) (+) One(d)
        BY <1>4, <1>5, <2>1, <3>2 DEF Receive
      <3>4. d \in PumpRecord /\ d.ch = c.ch /\ d.gen = c.gen /\ d.serial = c.serial /\ d.batch = c.batch
        BY <1>3, <3>2 DEF PumpRecord
      <3>5. scans' = [scans EXCEPT ![c.ch] = x]
        BY <1>1, <1>2, <1>3, <1>4, <3>1
      <3>6. \A a \in Nat : InHand(c, x, a) => InHand(d, x, a)
        BY <1>5, <2>1, <3>1, <3>4 DEF InHand
      <3> QED
        BY <1>3, <1>4, <3>3, <3>4, <3>5, <3>6
    <2>2. CASE ch # <<>>
      <3>1. PICK b \in Seq(HomeFiles) : b = Head(ch)
        BY <2>2, HeadTailProperties
      <3>2. PICK t \in Seq(Seq(HomeFiles)) : t = Tail(ch)
        <4>1. Tail(ch) \in Seq(Seq(HomeFiles))
          BY <2>2, HeadTailProperties
        <4> QED
          BY <4>1
      <3>3. PICK d : d = [c EXCEPT !.got = "batch", !.batch = b]
        OBVIOUS
      <3>4. PICK y : y = [x EXCEPT !.ch = t]
        OBVIOUS
      <3>5. pumps' = (pumps (-) One(c)) (+) One(d)
        BY <1>4, <1>5, <2>2, <3>1, <3>3 DEF Receive
      <3>6. scans' = [scans EXCEPT ![c.ch] = y]
        BY <1>4, <1>5, <2>2, <3>2, <3>4 DEF Receive
      <3>7. d \in PumpRecord /\ d.ch = c.ch /\ d.gen = c.gen /\ d.serial = c.serial /\ d.batch = b /\ d.got = "batch"
        BY <1>3, <3>3 DEF PumpRecord
      <3>8. /\ y \in ScanRecord /\ y.ch = t /\ y.batch = x.batch /\ y.pos = x.pos
            /\ y.cancelled = x.cancelled /\ y.closed = x.closed
        BY <3>4 DEF ScanRecord
      <3>9. Len(t) = Len(ch) - 1 /\ Len(t) \in Nat /\ Len(ch) \in Nat
        BY <2>2, <3>2
      <3>10. Sound(y)
        <4>1. Len(t) <= ChanCap
          BY <1>4, <1>5, <3>9, FormBounds DEF Sound
        <4> QED
          BY <1>4, <3>8, <4>1 DEF Sound
      <3>11. ASSUME NEW a \in Nat, InHand(c, x, a) PROVE InHand(d, y, a)
        <4>1. Len(c.batch) = 0
          BY <1>3
        <4>2. a + 0 = a
          OBVIOUS
        <4>3. Follows(ch, a, x.pos - Len(x.batch)) /\ Run(x.batch, x.pos - Len(x.batch))
          BY <1>5, <3>11, <4>1, <4>2 DEF InHand, Content
        <4>4. Run(b, a) /\ Follows(t, a + Len(b), x.pos - Len(x.batch))
          BY <2>2, <3>1, <3>2, <4>3, FollowsTail
        <4> QED
          BY <3>7, <3>8, <4>3, <4>4 DEF InHand, Content
      <3> QED
        BY <3>5, <3>6, <3>7, <3>8, <3>10, <3>11
    <2> QED
      BY <2>1, <2>2
  <1>7. scans' \in Seq(ScanRecord) /\ Len(scans') = n
    BY <1>1, <1>2, <1>3, <1>6
  <1>8. \A t \in 1 .. n : (scans')[t] = IF t = c.ch THEN y ELSE scans[t]
    BY <1>1, <1>2, <1>3, <1>6
  <1>9. ScansOK(scans')
    BY <1>1, <1>6, <1>7, <1>8 DEF SearchOK, ScansOK
  <1>10. PICK D : D = pumps'
    OBVIOUS
  <1>11. /\ IsABag(D) /\ \A e \in DOMAIN D : e = d \/ e \in DOMAIN pumps
         /\ \A e : \A s : s # c.ch /\ OnlyOne(e, pumps, s) => OnlyOne(e, D, s)
         /\ OnlyOne(c, pumps, c.ch) => OnlyOne(d, D, c.ch)
    BY <1>2, <1>6, <1>10, Swapped
  <1>12. Knows(d, modal, n)
    BY <1>3, <1>6 DEF Knows
  <1>13. PumpsOK(D, modal, n)
    BY <1>1, <1>11, <1>12 DEF SearchOK, PumpsOK
  <1>14. ASSUME modal.byo
         PROVE  /\ ~(scans')[modal.ch].cancelled
                /\ ~modal.mixed => Listed(modal, (scans')[modal.ch], D)
    <2>1. modal.ch \in 1 .. n
      <3>1. modal.ch \in 0 .. n /\ modal.ch # None
        BY <1>1, <1>14 DEF SearchOK, Picker
      <3> QED
        BY <3>1 DEF None
    <2>2. ~scans[modal.ch].cancelled /\ (~modal.mixed => Listed(modal, scans[modal.ch], pumps))
      BY <1>14 DEF SearchOK
    <2>3. CASE modal.ch # c.ch
      <3>1. (scans')[modal.ch] = scans[modal.ch]
        BY <1>8, <2>1, <2>3
      <3>2. PICK z : z = scans[modal.ch]
        OBVIOUS
      <3>3. ASSUME ~modal.mixed PROVE Listed(modal, z, D)
        <4>1. Listed(modal, z, pumps)
          BY <2>2, <3>2, <3>3
        <4>2. CASE modal.scanDone
          <5>1. \A e \in DOMAIN D : e.ch # modal.ch
            BY <1>6, <1>11, <2>3, <4>1, <4>2 DEF Listed
          <5> QED
            BY <4>1, <4>2, <5>1 DEF Listed
        <4>3. CASE ~modal.scanDone
          <5>1. PICK e \in DOMAIN pumps : OnlyOne(e, pumps, modal.ch) /\ InHand(e, z, Len(modal.found))
            BY <4>1, <4>3 DEF Listed
          <5>2. OnlyOne(e, D, modal.ch)
            BY <1>11, <2>3, <5>1
          <5>3. e \in DOMAIN D
            BY <5>2 DEF OnlyOne
          <5> QED
            BY <4>1, <4>3, <5>1, <5>2, <5>3 DEF Listed
        <4> QED
          BY <4>2, <4>3
      <3> QED
        BY <2>2, <3>1, <3>2, <3>3
    <2>4. CASE modal.ch = c.ch
      <3>1. (scans')[modal.ch] = y /\ ~y.cancelled
        BY <1>4, <1>6, <1>8, <2>1, <2>2, <2>4
      <3>2. ASSUME ~modal.mixed PROVE Listed(modal, y, D)
        <4>1. Listed(modal, x, pumps) /\ ~modal.scanDone
          BY <1>4, <2>2, <2>4, <3>2 DEF Listed
        <4>2. PICK e \in DOMAIN pumps : OnlyOne(e, pumps, modal.ch) /\ InHand(e, x, Len(modal.found))
          BY <4>1 DEF Listed
        <4>3. e = c
          BY <2>4, <4>2 DEF OnlyOne
        <4>4. OnlyOne(d, D, modal.ch) /\ d \in DOMAIN D
          BY <1>11, <2>4, <4>2, <4>3 DEF OnlyOne
        <4>5. Len(modal.found) \in Nat
          BY <1>2 DEF ModalRecord
        <4>6. InHand(d, y, Len(modal.found))
          BY <1>6, <4>2, <4>3, <4>5
        <4> QED
          BY <4>1, <4>4, <4>6 DEF Listed
      <3> QED
        BY <3>1, <3>2
    <2> QED
      BY <2>3, <2>4
  <1> QED
    BY <1>1, <1>7, <1>9, <1>10, <1>13, <1>14 DEF SearchOK

\* A search is left, or a picker closed or opened: no search is open then.
LEMMA LeavingMoves ==
    ASSUME NEW mo, NEW ss, NEW B, SearchOK(mo, ss, B), NEW ne \in ModalRecord, ~ne.byo, ne.ch = None,
           NEW tt, ScansOK(tt), Len(tt) = Len(ss),
           ne.serial >= mo.serial,
           ne.open /\ ne.serial = mo.serial => mo.open /\ ne.scanGen = mo.scanGen
    PROVE  SearchOK(ne, tt, B)
  <1>1. PICK n \in Nat : n = Len(ss)
    BY DEF SearchOK, ScansOK
  <1>2. mo \in ModalRecord /\ ne.serial \in Nat /\ mo.serial \in Nat
    BY DEF SearchOK, Picker, ModalRecord
  <1>3. \A c \in DOMAIN B : Knows(c, ne, n)
    <2> SUFFICES ASSUME NEW c \in DOMAIN B PROVE Knows(c, ne, n)
      OBVIOUS
    <2>1. Knows(c, mo, n)
      BY <1>1 DEF SearchOK, PumpsOK
    <2>2. c.serial \in Nat /\ c.serial <= mo.serial
      BY <2>1 DEF Knows, PumpRecord
    <2>3. c.serial <= ne.serial
      BY <1>2, <2>2
    <2>4. ASSUME ne.open, c.serial = ne.serial PROVE c.gen <= ne.scanGen
      <3>1. ne.serial = mo.serial
        BY <1>2, <2>2, <2>4
      <3> QED
        BY <2>1, <2>4, <3>1 DEF Knows
    <2> QED
      BY <2>1, <2>3, <2>4 DEF Knows
  <1>4. PumpsOK(B, ne, n)
    BY <1>3 DEF SearchOK, PumpsOK
  <1>5. Picker(ne, n)
    BY DEF Picker, None
  <1> QED
    BY <1>1, <1>4, <1>5 DEF SearchOK

LEMMA StopKeeps ==
    ASSUME SearchOK(modal, scans, pumps)
    PROVE  ScansOK(StopScan(scans)) /\ Len(StopScan(scans)) = Len(scans)
  <1>1. PICK n \in Nat : n = Len(scans)
    BY DEF SearchOK, ScansOK
  <1>2. scans \in Seq(ScanRecord)
    BY DEF SearchOK, ScansOK
  <1>3. CASE modal.ch = None
    BY <1>3 DEF StopScan, SearchOK
  <1>4. CASE modal.ch # None
    <2>1. PICK s \in 1 .. n : s = modal.ch
      <3>1. modal.ch \in 0 .. n
        BY <1>1 DEF SearchOK, Picker
      <3> QED
        BY <1>4, <3>1 DEF None
    <2>2. PICK x \in ScanRecord : x = scans[s] /\ Sound(x)
      BY <1>1, <1>2 DEF SearchOK, ScansOK
    <2>3. PICK y \in ScanRecord : y = [x EXCEPT !.cancelled = TRUE]
      BY DEF ScanRecord
    <2>4. Sound(y)
      BY <2>2, <2>3 DEF Sound, ScanRecord
    <2>5. StopScan(scans) = [scans EXCEPT ![s] = y]
      BY <1>4, <2>1, <2>2, <2>3 DEF StopScan
    <2>6. PICK tt : tt = [scans EXCEPT ![s] = y]
      OBVIOUS
    <2>7. tt \in Seq(ScanRecord) /\ Len(tt) = n
      BY <1>1, <1>2, <2>6
    <2>8. \A t \in 1 .. n : tt[t] = IF t = s THEN y ELSE scans[t]
      BY <1>1, <1>2, <2>6
    <2>9. ScansOK(tt)
      BY <1>1, <2>4, <2>7, <2>8 DEF SearchOK, ScansOK
    <2> QED
      BY <1>1, <2>5, <2>6, <2>7, <2>9
  <1> QED
    BY <1>3, <1>4

LEMMA ClosedIs ==
    ASSUME NEW n \in Nat
    PROVE  /\ Closed(n) \in ModalRecord /\ ~Closed(n).byo /\ Closed(n).ch = None
           /\ Closed(n).serial = n /\ ~Closed(n).open
  <1>1. <<>> \in Seq(Options) /\ <<>> \in Seq(HomeFiles)
    OBVIOUS
  <1> QED
    BY <1>1 DEF Closed, ModalRecord, None

LEMMA PickerMoves ==
    ASSUME SearchOK(modal, scans, pumps), Whole(form),
           ImageOpen \/ ModalEsc \/ ModalEnter \/ ByoEsc \/ ByoEnter
    PROVE  SearchOK(modal', scans', pumps')
  <1>1. modal \in ModalRecord /\ modal.serial \in Nat /\ ScansOK(scans)
    BY DEF SearchOK, Picker, ModalRecord
  <1>2. PICK k \in Nat : k = modal.serial
    BY <1>1
  <1>3. CASE ImageOpen
    <2>1. PICK w \in Seq(Options) : w = form.images
      BY DEF Whole, FormOK, FormRecord
    <2>2. k + 1 \in Nat
      OBVIOUS
    <2>3. PICK z \in ModalRecord : z = Closed(k + 1) /\ ~z.byo /\ z.ch = None /\ z.serial = k + 1
      BY <2>2, ClosedIs
    <2>4. PICK ne : ne = [z EXCEPT !.open = TRUE, !.images = w]
      OBVIOUS
    <2>5. modal' = ne /\ scans' = scans /\ pumps' = pumps
      BY <1>2, <1>3, <2>1, <2>3, <2>4 DEF ImageOpen, newImageModal
    <2>6. ne \in ModalRecord /\ ~ne.byo /\ ne.ch = None /\ ne.serial = k + 1
      BY <2>3, <2>4 DEF ModalRecord
    <2>7. ne.serial >= modal.serial /\ ne.serial # modal.serial
      BY <1>2, <2>6
    <2> QED
      BY <1>1, <2>5, <2>6, <2>7, LeavingMoves
  <1>4. CASE ModalEsc \/ ModalEnter \/ ByoEnter
    <2>1. modal' = Closed(k) /\ pumps' = pumps
      BY <1>2, <1>4 DEF ModalEsc, ModalEnter, ByoEnter, Choose
    <2>2. PICK ne \in ModalRecord : ne = Closed(k) /\ ~ne.byo /\ ne.ch = None /\ ne.serial = k /\ ~ne.open
      BY ClosedIs
    <2>3. PICK tt : tt = scans'
      OBVIOUS
    <2>4. tt = scans \/ tt = StopScan(scans)
      BY <1>4, <2>3 DEF ModalEsc, ModalEnter, ByoEnter
    <2>5. ScansOK(tt) /\ Len(tt) = Len(scans)
      BY <1>1, <2>4, StopKeeps
    <2>6. ne.serial >= modal.serial
      BY <1>2, <2>2
    <2> QED
      BY <2>1, <2>2, <2>3, <2>5, <2>6, LeavingMoves
  <1>5. CASE ByoEsc
    <2>1. PICK ne : ne = [modal EXCEPT !.byo = FALSE, !.ch = None]
      OBVIOUS
    <2>2. ne \in ModalRecord /\ ~ne.byo /\ ne.ch = None /\ ne.serial = k /\ ne.open = modal.open /\ ne.scanGen = modal.scanGen
      BY <1>1, <1>2, <2>1 DEF ModalRecord, None
    <2>3. PICK tt : tt = scans'
      OBVIOUS
    <2>4. tt = StopScan(scans) /\ modal' = ne /\ pumps' = pumps
      BY <1>5, <2>1, <2>3 DEF ByoEsc
    <2>5. ScansOK(tt) /\ Len(tt) = Len(scans)
      BY <2>4, StopKeeps
    <2>6. ne.serial >= modal.serial
      BY <1>2, <2>2
    <2> QED
      BY <2>2, <2>3, <2>4, <2>5, <2>6, LeavingMoves
  <1> QED
    BY <1>3, <1>4, <1>5

\* A search is opened: its channel is a new one, and nobody else waits on it.
LEMMA OpenMoves ==
    ASSUME SearchOK(modal, scans, pumps), openByo
    PROVE  SearchOK(modal', scans', pumps')
  <1>1. PICK n \in Nat : n = Len(scans)
    BY DEF SearchOK, ScansOK
  <1>2. scans \in Seq(ScanRecord) /\ modal \in ModalRecord /\ IsABag(pumps)
    BY DEF SearchOK, ScansOK, Picker, PumpsOK
  <1>3. PICK g \in Nat : g = modal.scanGen
    BY <1>2 DEF ModalRecord
  <1>4. PICK k \in Nat : k = modal.serial
    BY <1>2 DEF ModalRecord
  <1>5. modal.open /\ ~modal.byo /\ modal.ch = None /\ StopScan(scans) = scans
    BY DEF openByo, ModalKey, SearchOK, Picker, StopScan
  <1>6. n + 1 \in Nat /\ g + 1 \in Nat /\ <<>> \in Seq(HomeFiles) /\ <<>> \in Seq(Seq(HomeFiles)) /\ Len(<<>>) = 0
    OBVIOUS
  <1>7. PICK x : x = NewScan
    OBVIOUS
  <1>8. x.pos = 0 /\ x.batch = <<>> /\ x.ch = <<>> /\ ~x.cancelled /\ ~x.closed
    BY <1>7 DEF NewScan
  <1>9. x \in ScanRecord
    <2>1. 0 \in 0 .. Len(Infer)
      BY FormConstants
    <2> QED
      BY <1>6, <1>7, <2>1 DEF NewScan, ScanRecord
  <1>10. Sound(x)
    <2>1. 0 <= ChanCap /\ 0 <= ScanBatch
      BY FormBounds
    <2> QED
      BY <1>6, <1>8, <2>1 DEF Sound
  <1>11. PICK tt \in Seq(ScanRecord) : tt = Append(scans, x) /\ tt = scans'
    <2>1. Append(scans, x) \in Seq(ScanRecord)
      BY <1>2, <1>9, AppendProperties
    <2>2. scans' = Append(scans, x)
      BY <1>5, <1>7 DEF openByo
    <2> QED
      BY <2>1, <2>2
  <1>12. Len(tt) = n + 1 /\ tt[n + 1] = x /\ \A t \in 1 .. n : tt[t] = scans[t]
    <2>1. PICK q \in Seq(ScanRecord) : q = scans /\ Len(q) = n
      BY <1>1, <1>2
    <2>2. tt = Append(q, x)
      BY <1>11, <2>1
    <2>3. Len(tt) = n + 1 /\ tt[n + 1] = x /\ \A t \in 1 .. n : tt[t] = q[t]
      BY <1>9, <2>1, <2>2, AppendProperties
    <2> QED
      BY <2>1, <2>3
  <1>13. ScansOK(tt)
    <2>1. \A t \in 1 .. n + 1 : t \in 1 .. n \/ t = n + 1
      OBVIOUS
    <2> QED
      BY <1>1, <1>10, <1>12, <2>1 DEF SearchOK, ScansOK
  <1>14. PICK ne : ne = [modal EXCEPT !.byo = TRUE, !.found = <<>>, !.scanDone = FALSE, !.mixed = FALSE,
                                      !.scanGen = g + 1, !.ch = n + 1]
    OBVIOUS
  <1>15. modal' = ne
    BY <1>1, <1>3, <1>14 DEF openByo
  <1>16. /\ ne \in ModalRecord /\ ne.byo /\ ne.open /\ ne.ch = n + 1 /\ ne.scanGen = g + 1 /\ ne.serial = k
         /\ ne.found = <<>> /\ ~ne.scanDone
    BY <1>2, <1>4, <1>5, <1>6, <1>14 DEF ModalRecord
  <1>17. PICK c : c = [ch |-> n + 1, gen |-> g + 1, serial |-> k, got |-> "waiting", batch |-> <<>>]
    OBVIOUS
  <1>18. c \in PumpRecord
    BY <1>6, <1>17 DEF PumpRecord
  <1>19. c.ch = n + 1 /\ c.gen = g + 1 /\ c.serial = k /\ c.got = "waiting" /\ c.batch = <<>>
    BY <1>17
  <1>20. PICK D : D = pumps'
    OBVIOUS
  <1>21. D = pumps (+) One(c)
    BY <1>1, <1>3, <1>4, <1>17, <1>20 DEF openByo, Wait
  <1>22. /\ IsABag(D) /\ DOMAIN D = DOMAIN pumps \cup {c}
         /\ c \notin DOMAIN pumps => D[c] = 1
    BY <1>2, <1>21, OneMore
  <1>23. \A d \in DOMAIN pumps : d.ch \in 1 .. n /\ Knows(d, ne, n + 1)
    <2> SUFFICES ASSUME NEW d \in DOMAIN pumps PROVE d.ch \in 1 .. n /\ Knows(d, ne, n + 1)
      OBVIOUS
    <2>1. Knows(d, modal, n)
      BY <1>1 DEF SearchOK, PumpsOK
    <2>2. d \in PumpRecord /\ d.ch \in 1 .. n /\ d.serial <= k /\ (d.got # "batch" => d.batch = <<>>)
      BY <1>4, <2>1 DEF Knows
    <2>3. d.serial = k => d.gen <= g
      BY <1>3, <1>4, <1>5, <2>1 DEF Knows
    <2>4. d.gen \in Nat
      BY <2>2 DEF PumpRecord
    <2>5. d.ch \in 1 .. n + 1 /\ d.ch # n + 1
      BY <2>2
    <2>6. d.serial = k => d.gen <= g + 1 /\ d.gen # g + 1
      BY <2>3, <2>4
    <2> QED
      BY <1>16, <2>2, <2>5, <2>6 DEF Knows
  <1>24. Knows(c, ne, n + 1)
    <2>1. n + 1 \in 1 .. n + 1 /\ k <= k /\ g + 1 <= g + 1
      OBVIOUS
    <2> QED
      BY <1>16, <1>18, <1>19, <2>1 DEF Knows
  <1>25. PumpsOK(D, ne, n + 1)
    BY <1>22, <1>23, <1>24 DEF PumpsOK
  <1>26. OnlyOne(c, D, n + 1)
    <2>1. \A d \in DOMAIN pumps : d.ch # n + 1
      BY <1>23
    <2>2. c \notin DOMAIN pumps
      BY <1>19, <2>1
    <2> QED
      BY <1>19, <1>22, <2>1, <2>2 DEF OnlyOne
  <1>27. Run(<<>>, 0)
    BY <1>6 DEF Run
  <1>28. Content(x, 0)
    <2>1. 0 - 0 = 0
      OBVIOUS
    <2>2. Follows(<<>>, 0, 0)
      BY <1>6, FollowsNone
    <2> QED
      BY <1>6, <1>8, <1>27, <2>1, <2>2 DEF Content
  <1>29. InHand(c, x, 0)
    <2>1. 0 + 0 = 0
      OBVIOUS
    <2> QED
      BY <1>6, <1>19, <1>27, <1>28, <2>1 DEF InHand
  <1>30. Listed(ne, x, D)
    <2>1. c \in DOMAIN D
      BY <1>22
    <2> QED
      BY <1>6, <1>16, <1>26, <1>27, <1>29, <2>1 DEF Listed
  <1>31. Picker(ne, n + 1)
    <2>1. n + 1 # 0 /\ n + 1 \in 0 .. n + 1
      OBVIOUS
    <2> QED
      BY <1>16, <2>1 DEF Picker, None
  <1>32. SearchOK(ne, tt, D)
    BY <1>8, <1>12, <1>13, <1>16, <1>25, <1>30, <1>31 DEF SearchOK
  <1> QED
    BY <1>11, <1>15, <1>20, <1>32

LEMMA RunOn ==
    ASSUME NEW u \in Seq(HomeFiles), NEW v \in Seq(HomeFiles), Run(u, 0), Run(v, Len(u))
    PROVE  Run(u \o v, 0) /\ Len(u \o v) = Len(u) + Len(v) /\ u \o v \in Seq(HomeFiles)
  <1>1. PICK k \in Nat : k = Len(u)
    OBVIOUS
  <1>2. PICK m \in Nat : m = Len(v)
    OBVIOUS
  <1>3. PICK w \in Seq(HomeFiles) : w = u \o v
    <2>1. u \o v \in Seq(HomeFiles)
      BY ConcatProperties
    <2> QED
      BY <2>1
  <1>4. Len(w) = k + m /\ \A i \in 1 .. k + m : w[i] = IF i <= k THEN u[i] ELSE v[i - k]
    BY <1>1, <1>2, <1>3
  <1>5. \A i \in 1 .. k : u[i] = i
    BY <1>1 DEF Run
  <1>6. \A i \in 1 .. m : v[i] = k + i
    BY <1>1, <1>2 DEF Run
  <1>7. \A i \in 1 .. k + m : w[i] = 0 + i
    <2> SUFFICES ASSUME NEW i \in 1 .. k + m PROVE w[i] = 0 + i
      OBVIOUS
    <2>1. CASE i <= k
      BY <1>4, <1>5, <2>1
    <2>2. CASE i > k
      <3>1. i - k \in 1 .. m /\ k + (i - k) = i
        BY <2>2
      <3> QED
        BY <1>4, <1>6, <2>2, <3>1
    <2> QED
      BY <2>1, <2>2
  <1> QED
    BY <1>1, <1>2, <1>3, <1>4, <1>7 DEF Run

\* A message of another search is dropped.
LEMMA DroppedMoves ==
    ASSUME NEW mo, NEW ss, NEW B, SearchOK(mo, ss, B), NEW c \in DOMAIN B, mo.byo => c.ch # mo.ch,
           NEW D, D = B (-) One(c)
    PROVE  SearchOK(mo, ss, D)
  <1>1. IsABag(B)
    BY DEF SearchOK, PumpsOK
  <1>2. /\ IsABag(D) /\ DOMAIN D \subseteq DOMAIN B
        /\ \A d \in DOMAIN B : d # c => d \in DOMAIN D /\ D[d] = B[d]
    BY <1>1, OneLess
  <1>3. PumpsOK(D, mo, Len(ss))
    BY <1>2 DEF SearchOK, PumpsOK
  <1>4. ASSUME mo.byo, NEW x, Listed(mo, x, B) PROVE Listed(mo, x, D)
    <2>1. CASE mo.scanDone
      BY <1>2, <1>4, <2>1 DEF Listed
    <2>2. CASE ~mo.scanDone
      <3>1. PICK e \in DOMAIN B : OnlyOne(e, B, mo.ch) /\ InHand(e, x, Len(mo.found))
        BY <1>4, <2>2 DEF Listed
      <3>2. e # c /\ B[e] = 1 /\ e.ch = mo.ch /\ \A d \in DOMAIN B : d.ch = mo.ch => d = e
        BY <1>4, <3>1 DEF OnlyOne
      <3>3. e \in DOMAIN D /\ OnlyOne(e, D, mo.ch)
        BY <1>2, <3>1, <3>2 DEF OnlyOne
      <3> QED
        BY <1>4, <2>2, <3>1, <3>3 DEF Listed
    <2> QED
      BY <2>1, <2>2
  <1> QED
    BY <1>3, <1>4 DEF SearchOK

LEMMA FoundMoves ==
    ASSUME SearchOK(modal, scans, pumps), NEW c \in DOMAIN pumps, ImagesFound(c)
    PROVE  SearchOK(modal', scans', pumps')
  <1>1. PICK n \in Nat : n = Len(scans)
    BY DEF SearchOK, ScansOK
  <1>2. /\ modal \in ModalRecord /\ ScansOK(scans) /\ IsABag(pumps) /\ scans \in Seq(ScanRecord)
        /\ PumpsOK(pumps, modal, n) /\ Picker(modal, n)
    BY <1>1 DEF SearchOK, Picker, ScansOK, PumpsOK
  <1>3. /\ Knows(c, modal, n) /\ c \in PumpRecord /\ c.got # "waiting"
        /\ scans' = scans
    BY <1>2 DEF PumpsOK, Knows, ImagesFound
  <1>4. CASE ~(modal.byo /\ c.gen = modal.scanGen)
    <2>1. pumps' = pumps (-) One(c) /\ modal' = modal
      BY <1>4 DEF ImagesFound
    <2>2. modal.byo => c.ch # modal.ch
      BY <1>3, <1>4 DEF Knows
    <2>3. PICK D : D = pumps (-) One(c)
      OBVIOUS
    <2>4. SearchOK(modal, scans, D)
      BY <2>2, <2>3, DroppedMoves
    <2> QED
      BY <1>3, <2>1, <2>3, <2>4
  <1>5. CASE modal.byo /\ c.gen = modal.scanGen
    <2>1. PICK m \in BOOLEAN : m <=> modal.mixed \/ c.serial # modal.serial
      OBVIOUS
    <2>2. modal.open /\ modal.ch \in 1 .. n /\ modal.ch \in Nat
      <3>1. modal.open /\ modal.ch \in 0 .. n /\ modal.ch # 0
        BY <1>2, <1>5 DEF Picker, None
      <3> QED
        BY <3>1
    <2>3. PICK x \in ScanRecord : x = scans[modal.ch] /\ Sound(x) /\ ~x.cancelled
      BY <1>1, <1>2, <1>5, <2>2 DEF ScansOK, SearchOK
    <2>4. ASSUME ~m
          PROVE  /\ Run(modal.found, 0) /\ ~modal.scanDone /\ c.ch = modal.ch
                 /\ OnlyOne(c, pumps, modal.ch) /\ InHand(c, x, Len(modal.found))
      <3>1. c.ch = modal.ch
        BY <1>3, <1>5, <2>1, <2>4 DEF Knows
      <3>2. Listed(modal, x, pumps)
        BY <1>5, <2>1, <2>3, <2>4 DEF SearchOK
      <3>3. ~modal.scanDone
        BY <3>1, <3>2 DEF Listed
      <3>4. PICK e \in DOMAIN pumps : OnlyOne(e, pumps, modal.ch) /\ InHand(e, x, Len(modal.found))
        BY <3>2, <3>3 DEF Listed
      <3>5. e = c
        BY <3>1, <3>4 DEF OnlyOne
      <3> QED
        BY <3>1, <3>2, <3>3, <3>4, <3>5 DEF Listed
    <2>5. (modal.mixed \/ c.serial # modal.serial) \in BOOLEAN
      OBVIOUS
    <2>6. m = (modal.mixed \/ c.serial # modal.serial)
      BY <2>1, <1>2 DEF ModalRecord
    <2>7. CASE c.got = "done"
      <3>1. PICK ne : ne = [modal EXCEPT !.mixed = m, !.scanDone = TRUE]
        OBVIOUS
      <3>2. PICK D : D = pumps (-) One(c)
        OBVIOUS
      <3>3. modal' = ne /\ pumps' = D
        BY <1>2, <1>5, <2>6, <2>7, <3>1, <3>2 DEF ImagesFound, ModalRecord
      <3>4. /\ ne \in ModalRecord /\ ne.byo /\ ne.open /\ ne.ch = modal.ch /\ ne.serial = modal.serial
            /\ ne.scanGen = modal.scanGen /\ ne.found = modal.found /\ ne.scanDone /\ ne.mixed = m
        BY <1>2, <1>5, <2>2, <3>1 DEF ModalRecord
      <3>5. /\ IsABag(D) /\ DOMAIN D \subseteq DOMAIN pumps
            /\ pumps[c] = 1 => c \notin DOMAIN D
        BY <1>2, <3>2, OneLess
      <3>6. \A d \in DOMAIN D : Knows(d, ne, n)
        BY <1>2, <1>5, <2>2, <3>4, <3>5 DEF PumpsOK, Knows
      <3>7. ASSUME ~m PROVE Listed(ne, x, D)
        <4>1. /\ Run(modal.found, 0) /\ c.ch = modal.ch
              /\ OnlyOne(c, pumps, modal.ch) /\ InHand(c, x, Len(modal.found))
          BY <2>4, <3>7
        <4>2. \A d \in DOMAIN D : d.ch # modal.ch
          BY <3>5, <4>1 DEF OnlyOne
        <4>3. PICK k \in Nat : k = Len(modal.found)
          BY <1>2 DEF ModalRecord
        <4>4. x.closed /\ x.ch = <<>> /\ c.batch = <<>> /\ x.batch = <<>>
          BY <1>3, <2>3, <2>7, <4>1 DEF InHand, Knows, Sound
        <4>5. Len(<<>>) = 0 /\ k + 0 = k
          OBVIOUS
        <4>6. Follows(<<>>, k, x.pos - 0)
          BY <4>1, <4>3, <4>4, <4>5 DEF InHand, Content
        <4>7. x.pos - 0 = k
          <5>1. <<>> \in Seq(Seq(HomeFiles))
            OBVIOUS
          <5>2. PICK z : z = x.pos - 0
            OBVIOUS
          <5>3. Follows(<<>>, k, z)
            BY <4>6, <5>2
          <5>4. z = k
            BY <4>5, <5>1, <5>3, FollowsNone
          <5> QED
            BY <5>2, <5>4
        <4>8. x.pos = k
          <5>1. PICK p \in 0 .. Len(Infer) : p = x.pos
            BY DEF ScanRecord
          <5>2. p \in Int
            BY FormConstants
          <5> QED
            BY <4>7, <5>1, <5>2
        <4> QED
          BY <3>4, <4>1, <4>2, <4>3, <4>4, <4>8 DEF Listed
      <3>8. Picker(ne, n) /\ PumpsOK(D, ne, n)
        BY <1>2, <2>2, <3>4, <3>5, <3>6 DEF Picker, PumpsOK, None
      <3>9. SearchOK(ne, scans, D)
        BY <1>1, <1>2, <2>3, <3>4, <3>7, <3>8 DEF SearchOK
      <3> QED
        BY <1>3, <3>3, <3>9
    <2>8. CASE c.got # "done"
      <3>1. PICK u \in Seq(HomeFiles) : u = modal.found
        BY <1>2 DEF ModalRecord
      <3>2. PICK v \in Seq(HomeFiles) : v = c.batch
        BY <1>3 DEF PumpRecord
      <3>3. PICK w \in Seq(HomeFiles) : w = u \o v
        <4>1. u \o v \in Seq(HomeFiles)
          BY ConcatProperties
        <4> QED
          BY <4>1
      <3>4. PICK ne : ne = [modal EXCEPT !.mixed = m, !.found = w]
        OBVIOUS
      <3>5. PICK d : d = [ch |-> modal.ch, gen |-> modal.scanGen, serial |-> modal.serial,
                          got |-> "waiting", batch |-> <<>>]
        OBVIOUS
      <3>6. PICK D : D = (pumps (-) One(c)) (+) One(d)
        OBVIOUS
      <3>7. modal' = ne /\ pumps' = D
        <4>1. /\ modal' = [[modal EXCEPT !.mixed = @ \/ c.serial # modal.serial] EXCEPT !.found = @ \o c.batch]
              /\ pumps' = (pumps (-) One(c)) (+) One(Wait(modal.ch, modal.scanGen))
          BY <1>5, <2>8 DEF ImagesFound
        <4>2. modal' = ne
          BY <1>2, <2>6, <3>1, <3>2, <3>3, <3>4, <4>1 DEF ModalRecord
        <4> QED
          BY <3>5, <3>6, <4>1, <4>2 DEF Wait
      <3>8. /\ ne \in ModalRecord /\ ne.byo /\ ne.open /\ ne.ch = modal.ch /\ ne.serial = modal.serial
            /\ ne.scanGen = modal.scanGen /\ ne.found = w /\ ne.scanDone = modal.scanDone /\ ne.mixed = m
        BY <1>2, <1>5, <2>2, <3>4 DEF ModalRecord
      <3>9. <<>> \in Seq(HomeFiles) /\ Len(<<>>) = 0
        OBVIOUS
      <3>10. d \in PumpRecord
        BY <1>2, <2>2, <3>5, <3>9 DEF PumpRecord, ModalRecord
      <3>11. d.ch = modal.ch /\ d.gen = modal.scanGen /\ d.serial = modal.serial /\ d.got = "waiting" /\ d.batch = <<>>
        BY <3>5
      <3>12. modal.serial <= modal.serial /\ modal.scanGen <= modal.scanGen
        BY <1>2 DEF ModalRecord
      <3>13. Knows(d, ne, n)
        BY <2>2, <3>8, <3>10, <3>11, <3>12 DEF Knows
      <3>14. IsABag(D) /\ \A e \in DOMAIN D : e = d \/ e \in DOMAIN pumps
        BY <1>2, <3>6, SwapIs
      <3>15. \A e \in DOMAIN pumps : Knows(e, ne, n)
        BY <1>2, <1>5, <2>2, <3>8 DEF PumpsOK, Knows
      <3>16. ASSUME ~m PROVE Listed(ne, x, D)
        <4>1. /\ Run(modal.found, 0) /\ ~modal.scanDone /\ c.ch = modal.ch
              /\ OnlyOne(c, pumps, modal.ch) /\ InHand(c, x, Len(modal.found))
          BY <2>4, <3>16
        <4>2. OnlyOne(d, D, modal.ch)
          BY <1>2, <3>6, <3>11, <4>1, Swapped
        <4>3. PICK k \in Nat : k = Len(u)
          OBVIOUS
        <4>4. PICK j \in Nat : j = Len(v)
          OBVIOUS
        <4>5. Run(w, 0) /\ Len(w) = k + j
          BY <3>1, <3>2, <3>3, <4>1, <4>3, <4>4, RunOn DEF InHand
        <4>6. Content(x, k + j)
          BY <3>1, <3>2, <4>1, <4>3, <4>4 DEF InHand
        <4>7. k + j + 0 = k + j
          OBVIOUS
        <4>8. InHand(d, x, k + j)
          <5>1. Run(<<>>, k + j)
            BY <3>9 DEF Run
          <5>2. d.got # "done"
            BY <3>11
          <5> QED
            BY <3>9, <3>11, <4>6, <4>7, <5>1, <5>2 DEF InHand
        <4>9. d \in DOMAIN D
          BY <4>2 DEF OnlyOne
        <4> QED
          BY <3>8, <4>1, <4>2, <4>5, <4>8, <4>9 DEF Listed
      <3>17. Picker(ne, n) /\ PumpsOK(D, ne, n)
        BY <1>2, <2>2, <3>8, <3>13, <3>14, <3>15 DEF Picker, PumpsOK, None
      <3>18. SearchOK(ne, scans, D)
        BY <1>1, <1>2, <2>3, <3>8, <3>16, <3>17 DEF SearchOK
      <3> QED
        BY <1>3, <3>7, <3>18
    <2> QED
      BY <2>7, <2>8
  <1> QED
    BY <1>4, <1>5

LEMMA PickerIs == SearchOK(modal, scans, pumps) => PickerOK
  BY DEF SearchOK, Picker, PickerOK

\* What a step leaves alone of the picker, its scans and the commands.
LEMMA SearchMoves ==
    ASSUME Whole(form), SearchOK(modal, scans, pumps), [FormNext]_formVars
    PROVE  SearchOK(modal', scans', pumps')
  <1>1. CASE UNCHANGED <<modal, scans, pumps>>
    BY <1>1
  <1>2. CASE ImageOpen \/ ModalEsc \/ ModalEnter \/ ByoEsc \/ ByoEnter
    BY <1>2, PickerMoves
  <1>3. CASE openByo
    BY <1>3, OpenMoves
  <1>4. CASE ScanNext
    <2>1. modal' = modal /\ pumps' = pumps
      BY <1>4 DEF ScanNext, Walk, Send, Abandon, Close, ScanOnly
    <2>2. DOMAIN scans = 1 .. Len(scans) /\ ScansOK(scans)
      BY DEF SearchOK, ScansOK
    <2>3. PICK s \in 1 .. Len(scans) : Walk(s) \/ Send(s) \/ Abandon(s) \/ Close(s)
      BY <1>4, <2>2 DEF ScanNext
    <2>4. PICK y : scans' = [scans EXCEPT ![s] = y] /\ Steps(scans[s], y)
      BY <2>2, <2>3, WalkSteps
    <2>5. PICK tt : tt = [scans EXCEPT ![s] = y]
      OBVIOUS
    <2>6. SearchOK(modal, tt, pumps)
      BY <2>4, <2>5, ScanMoves
    <2> QED
      BY <2>1, <2>4, <2>5, <2>6
  <1>5. CASE PumpNext
    <2>1. PICK c \in DOMAIN pumps : Receive(c) \/ ImagesFound(c)
      BY <1>5 DEF PumpNext, BagToSet
    <2>2. CASE Receive(c)
      <3>1. modal' = modal
        BY <2>2 DEF Receive
      <3>2. SearchOK(modal, scans', pumps')
        BY <2>2, ReceiveMoves
      <3> QED
        BY <3>1, <3>2
    <2>3. CASE ImagesFound(c)
      BY <2>3, FoundMoves
    <2> QED
      BY <2>1, <2>2, <2>3
  <1>6. CASE FetchNext
    BY <1>1, <1>6 DEF FetchNext, FetchEnds, FetchOutcome
  <1>7. CASE \/ ListNew \/ FormEsc \/ ImageSpace \/ BackendKey \/ OSKey \/ RecipeSpace
             \/ FormEnter \/ BackToList \/ WizardEsc \/ WizardDone \/ DLTick
    BY <1>1, <1>7 DEF ListNew, FormEsc, ImageSpace, BackendKey, OSKey, RecipeSpace, FormEnter, BackToList,
       WizardEsc, WizardDone, DLTick
  <1>8. CASE UNCHANGED formVars
    BY <1>1, <1>8 DEF formVars
  <1> QED
    BY <1>2, <1>3, <1>4, <1>5, <1>6, <1>7, <1>8 DEF FormNext

LEMMA RestMoves ==
    ASSUME Whole(form), FetchesOK, RestOK, [FormNext]_formVars
    PROVE  /\ local' \subseteq CatalogEntries /\ screen' \in {"list", "form"}
           /\ creating' \in Nat /\ keys' \in 0 .. MaxKeys
  <1>1. local' \subseteq CatalogEntries
    <2>1. CASE local' = local
      BY <2>1 DEF RestOK
    <2>2. CASE FetchNext
      <3>1. DOMAIN fetches = 1 .. Len(fetches)
        BY DEF FetchesOK
      <3>2. PICK i \in 1 .. Len(fetches) : FetchEnds(i) \/ FetchOutcome(i)
        BY <2>2, <3>1 DEF FetchNext
      <3>3. CASE FetchOutcome(i)
        BY <2>1, <3>3 DEF FetchOutcome
      <3>4. CASE FetchEnds(i)
        <4>1. fetches[i].entry \in CatalogEntries
          BY <3>2, <3>4 DEF FetchEnds, FetchesOK
        <4>2. local' = local \/ local' = local \cup {fetches[i].entry}
          BY <3>4 DEF FetchEnds
        <4> QED
          BY <4>1, <4>2 DEF RestOK
      <3> QED
        BY <3>2, <3>3, <3>4
    <2>3. CASE \/ ListNew \/ FormEsc \/ ImageSpace \/ ImageOpen \/ BackendKey \/ OSKey \/ RecipeSpace
               \/ FormEnter \/ BackToList \/ WizardEsc \/ WizardDone \/ DLTick
      BY <2>1, <2>3 DEF ListNew, FormEsc, ImageSpace, ImageOpen, BackendKey, OSKey, RecipeSpace, FormEnter,
         BackToList, WizardEsc, WizardDone, DLTick
    <2>4. CASE ModalEsc \/ ModalEnter \/ openByo \/ ByoEsc \/ ByoEnter
      BY <2>1, <2>4 DEF ModalEsc, ModalEnter, openByo, ByoEsc, ByoEnter, ModalKey
    <2>5. CASE ScanNext \/ PumpNext
      BY <2>1, <2>5 DEF ScanNext, Walk, Send, Abandon, Close, ScanOnly, PumpNext, Receive, ImagesFound
    <2>6. CASE UNCHANGED formVars
      BY <2>1, <2>6 DEF formVars
    <2> QED
      BY <2>2, <2>3, <2>4, <2>5, <2>6 DEF FormNext
  <1>2. screen' \in {"list", "form"} /\ creating' \in Nat /\ keys' \in 0 .. MaxKeys
    <2> DEFINE Goal == screen' \in {"list", "form"} /\ creating' \in Nat /\ keys' \in 0 .. MaxKeys
    <2>1. ASSUME UNCHANGED <<screen, creating>>, Key \/ keys' = keys PROVE Goal
      <3>1. keys' \in 0 .. MaxKeys
        BY <2>1, FormBounds DEF RestOK, Key
      <3> QED
        BY <2>1, <3>1 DEF RestOK
    <2>2. ASSUME FetchNext PROVE Goal
      BY <2>1, <2>2 DEF FetchNext, FetchEnds, FetchOutcome
    <2>3. ASSUME \/ ImageSpace \/ ImageOpen \/ BackendKey \/ OSKey \/ RecipeSpace
                 \/ WizardEsc \/ WizardDone \/ DLTick
          PROVE Goal
      BY <2>1, <2>3 DEF ImageSpace, ImageOpen, BackendKey, OSKey, RecipeSpace, WizardEsc, WizardDone, DLTick,
         RowKey, FormKey
    <2>4. ASSUME ModalEsc \/ ModalEnter \/ openByo \/ ByoEsc \/ ByoEnter PROVE Goal
      BY <2>1, <2>4 DEF ModalEsc, ModalEnter, openByo, ByoEsc, ByoEnter, ModalKey
    <2>5. ASSUME ScanNext \/ PumpNext PROVE Goal
      BY <2>1, <2>5 DEF ScanNext, Walk, Send, Abandon, Close, ScanOnly, PumpNext, Receive, ImagesFound
    <2>6. ASSUME UNCHANGED formVars PROVE Goal
      BY <2>1, <2>6 DEF formVars
    <2>7. ASSUME ListNew \/ FormEsc PROVE Goal
      BY <2>7, FormBounds DEF ListNew, FormEsc, FormKey, Key, RestOK
    <2>8. ASSUME FormEnter \/ BackToList PROVE Goal
      <3>1. creating' \in Nat
        BY <2>8 DEF FormEnter, BackToList, RestOK
      <3> QED
        BY <2>8, <3>1, FormBounds DEF FormEnter, BackToList, FormKey, Key, RestOK
    <2> QED
      BY <2>2, <2>3, <2>4, <2>5, <2>6, <2>7, <2>8 DEF FormNext
  <1> QED
    BY <1>1, <1>2

FormInv ==
    /\ Whole(form) /\ SearchOK(modal, scans, pumps)
    /\ FetchesOK /\ Followed(form, fetches, ticks) /\ RestOK

LEMMA FormInvInit == FormInit => FormInv
  <1> SUFFICES ASSUME FormInit PROVE FormInv
    OBVIOUS
  <1>1. Whole(form) /\ form.fetching = FALSE
    BY NewIsWhole DEF FormInit
  <1>2. PICK ne \in ModalRecord : ne = modal /\ ~ne.byo /\ ne.ch = None
    BY ClosedIs DEF FormInit
  <1>3. /\ <<>> \in Seq(FetchRecord) /\ <<>> \in Seq(ScanRecord) /\ Len(<<>>) = 0
    OBVIOUS
  <1>4. FetchesOK /\ Followed(form, fetches, ticks)
    BY <1>1, <1>3 DEF FormInit, FetchesOK, Followed
  <1>5. IsABag(pumps) /\ DOMAIN pumps = {}
    BY DEF FormInit, EmptyBag, SetToBag, IsABag
  <1>6. SearchOK(modal, scans, pumps)
    BY <1>2, <1>3, <1>5 DEF FormInit, SearchOK, Picker, ScansOK, PumpsOK, None
  <1>7. RestOK
    BY FormBounds, KindsAssumption DEF FormInit, RestOK
  <1> QED
    BY <1>1, <1>4, <1>6, <1>7 DEF FormInv

LEMMA FormInvStep == ASSUME FormInv, [FormNext]_formVars PROVE FormInv' /\ KeepsValues(form, form')
  <1>1. Whole(form) /\ SearchOK(modal, scans, pumps) /\ FetchesOK /\ Followed(form, fetches, ticks) /\ RestOK /\ PickerOK
    BY PickerIs DEF FormInv
  <1>2. Whole(form') /\ KeepsValues(form, form')
    BY <1>1, FormMoves
  <1>3. SearchOK(modal', scans', pumps')
    BY <1>1, SearchMoves
  <1>4. (FetchesOK)' /\ ticks' \in Nat /\ Followed(form', fetches', ticks')
    BY <1>1, FetchesMove
  <1>5. (RestOK)'
    BY <1>1, <1>4, RestMoves DEF RestOK
  <1> QED
    BY <1>2, <1>3, <1>4, <1>5 DEF FormInv

LEMMA FormInvMeans ==
    ASSUME FormInv
    PROVE  FormTypeOK /\ BuildsShown /\ SelectionClosed /\ WorkFollowed
  <1>1. Whole(form) /\ SearchOK(modal, scans, pumps) /\ FetchesOK /\ Followed(form, fetches, ticks) /\ RestOK
    BY DEF FormInv
  <1>2. FetchFollowed
    BY <1>1, FollowedIs
  <1>3. BuildsShown
    BY BuildsIsResolved DEF BuildsShown
  <1>4. SelectionClosed
    BY <1>1, BuildsIsResolved DEF SelectionClosed, Whole, Selection, recipeNames
  <1>5. ScanFaithful
    <2> SUFFICES ASSUME modal.byo, ~modal.mixed
                 PROVE  IsInjective(modal.found) /\ (modal.scanDone => Range(modal.found) = HomeFiles)
      BY DEF ScanFaithful
    <2>1. PICK n \in Nat : n = Len(scans)
      BY <1>1 DEF SearchOK, ScansOK
    <2>2. modal.ch \in 1 .. n
      <3>1. modal.ch \in 0 .. n /\ modal.ch # 0
        BY <1>1, <2>1 DEF SearchOK, Picker, None
      <3> QED
        BY <3>1
    <2>3. PICK x \in ScanRecord : x = scans[modal.ch] /\ Sound(x) /\ Listed(modal, x, pumps)
      BY <1>1, <2>1, <2>2 DEF SearchOK, ScansOK
    <2>4. PICK u \in Seq(HomeFiles) : u = modal.found
      BY <1>1 DEF SearchOK, Picker, ModalRecord
    <2>5. PICK k \in Nat : k = Len(u) /\ DOMAIN u = 1 .. k
      OBVIOUS
    <2>6. \A i \in 1 .. k : u[i] = i
      BY <2>3, <2>4, <2>5 DEF Listed, Run
    <2>7. IsInjective(u)
      BY <2>5, <2>6 DEF IsInjective
    <2>8. ASSUME modal.scanDone PROVE Range(u) = HomeFiles
      <3>1. k = Len(Infer)
        BY <2>3, <2>4, <2>5, <2>8 DEF Listed, Sound
      <3> QED
        BY <2>5, <2>6, <3>1, FormConstants DEF Range
    <2> QED
      BY <2>4, <2>7, <2>8
  <1>6. FormTypeOK
    <2>1. /\ form.images \in Seq(Option) /\ form.img \in DOMAIN form.images
          /\ form.byoBackend \in Backends \cup {""} /\ form.byoOS \in OSNames \cup {""}
          /\ form.focus \in {"image", "recipes", "backend", "os"}
      <3>1. form.images \in Seq(Options) /\ form.img \in 1 .. Len(form.images)
        BY <1>1 DEF Whole, FormOK, FormRecord
      <3>2. PICK q \in Seq(Options) : q = form.images
        BY <3>1
      <3>3. Options \subseteq Option
        BY DEF Options
      <3>4. q \in Seq(Option)
        BY <3>3
      <3>5. form.img \in DOMAIN q
        BY <3>1, <3>2
      <3> QED
        BY <1>1, <3>2, <3>4, <3>5 DEF Whole, FormOK, FormRecord
    <2>2. /\ form.sel \subseteq Recipes /\ form.explicit \subseteq Recipes /\ form.values \subseteq Recipes
          /\ form.wizard \in Seq(HasParams) /\ form.root \in Recipes \cup {NoRecipe}
          /\ form.wizard # <<>> => form.root # NoRecipe
          /\ form.fetching \in BOOLEAN /\ form.dlGen \in Nat /\ form.stranded \in BOOLEAN
      BY <1>1, RecipesAssumption DEF Whole, FormOK, FormRecord, Asks
    <2>3. /\ modal.open \in BOOLEAN /\ modal.byo \in BOOLEAN /\ (modal.byo => modal.open)
          /\ modal.byo <=> modal.ch # None
          /\ modal.ch \in 0..Len(scans)
          /\ modal.found \in Seq(HomeFiles) /\ modal.scanDone \in BOOLEAN
      BY <1>1 DEF SearchOK, Picker, ModalRecord
    <2>4. \A i \in DOMAIN fetches : fetches[i].out \in {"running", "ok", "err", "gone"}
      <3>1. DOMAIN fetches = 1 .. Len(fetches)
        BY <1>1 DEF FetchesOK
      <3>2. \A i \in 1 .. Len(fetches) : fetches[i] \in FetchRecord
        BY <1>1 DEF FetchesOK
      <3> QED
        BY <3>1, <3>2 DEF FetchRecord
    <2>5. \A s \in DOMAIN scans : Len(scans[s].ch) <= ChanCap /\ Len(scans[s].batch) <= ScanBatch
      BY <1>1 DEF SearchOK, ScansOK, Sound
    <2> QED
      BY <1>1, <2>1, <2>2, <2>3, <2>4, <2>5 DEF FormTypeOK, RestOK
  <1> QED
    BY <1>2, <1>3, <1>4, <1>5, <1>6 DEF WorkFollowed

LEMMA FormInvAlways == FormSpec => []FormInv
  <1>1. FormInv /\ [FormNext]_formVars => FormInv'
    BY FormInvStep
  <1> QED
    BY <1>1, FormInvInit, PTL DEF FormSpec

(* The form, the picker, the fetches and the scans have their types always. *)
THEOREM FormsTypes == FormSpec => []FormTypeOK
  <1>1. FormInv => FormTypeOK
    BY FormInvMeans
  <1> QED
    BY <1>1, FormInvAlways, PTL

(* What core would build is what the form shows, the checked recipes are those *)
(* asked for and what they need, all fit for that OS, and no answer is lost but *)
(* on the recipe that is unchecked.                                            *)
THEOREM FormStaysFaithful == FormSpec => FormFaithful
  <1>1. FormInv => BuildsShown /\ SelectionClosed
    BY FormInvMeans
  <1>2. FormInv /\ [FormNext]_formVars =>
          [\A r \in form.values :
             r \in form'.sel /\ r \notin form'.values
             => form'.focus = "recipes" /\ form.wizard = <<>> /\ r \notin form'.explicit]_formVars
    BY FormInvStep DEF KeepsValues
  <1>3. FormSpec => [](BuildsShown /\ SelectionClosed)
    BY <1>1, FormInvAlways, PTL
  <1>4. FormSpec => ValuesKept
    BY <1>2, FormInvAlways, PTL DEF FormSpec, ValuesKept
  <1> QED
    BY <1>3, <1>4, PTL DEF FormFaithful

(* While the form shows a download its tick and its outcome are on their way,  *)
(* and an open search lists no file twice and is done when all are listed.     *)
THEOREM WorkStaysFollowed == FormSpec => []WorkFollowed
  <1>1. FormInv => WorkFollowed
    BY FormInvMeans
  <1> QED
    BY <1>1, FormInvAlways, PTL

=============================================================================
