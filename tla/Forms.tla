------------------------------- MODULE Forms -------------------------------
(***************************************************************************)
(* The new-VM form of internal/tui and what runs beneath it: the image     *)
(* picker (imagemodal.go), the search of the home directory for a          *)
(* bring-your-own image (imagescan.go), the download of a catalog image    *)
(* (fetchImage, download.go) and the parameter wizard of the recipes       *)
(* (paramform.go).  The form is one value; keys, fetch outcomes, ticks and *)
(* scan batches reach it in any order.                                     *)
(*                                                                         *)
(* Movement is folded into the key it leads to: tab visits the rows of     *)
(* order(), the two levels of the picker lead to each of its images, left  *)
(* and right reach every other value of a cycle.  Text rows, the disk      *)
(* size, mode, display and password rows carry data of the record only.    *)
(***************************************************************************)
EXTENDS Integers, Sequences, SequencesExt, FiniteSets, Bags

CONSTANTS
    Catalog,      \* the catalog in its order: the OS and the backend of each entry
    Infer,        \* the files a walk meets in its order: what iso.Infer guesses of each
    Recipes,      \* installed recipes
    Offered,      \* the recipes that apply to each OS, "" included
    Depends,      \* the recipes each one needs, transitively
    HasParams,    \* the recipes with parameters
    Downloaded,   \* the catalog entries whose file is in isos/ to begin with
    ScanBatch,    \* files per batch
    ChanCap,      \* batches the channel of a scan holds
    MaxKeys       \* keys pressed in a behaviour, the one that opens a form aside

Backends == {"ssh", "apkovl", "cloudinit"}
CatalogEntries == DOMAIN Catalog
HomeFiles == DOMAIN Infer
OSNames  == {Catalog[e].os : e \in CatalogEntries}
Kind     == [os : OSNames \cup {""}, backend : Backends]
None     == 0
NoRecipe == "none"

ASSUME KindsAssumption ==
    /\ Downloaded \subseteq CatalogEntries
    /\ Catalog \in Seq(Kind) /\ Catalog # <<>>
    /\ Infer \in Seq(Kind) /\ Infer # <<>>
ASSUME RecipesAssumption ==
    /\ IsFiniteSet(Recipes) /\ NoRecipe \notin Recipes /\ HasParams \subseteq Recipes
    /\ Offered \in [OSNames \cup {""} -> SUBSET Recipes]
    /\ Depends \in [Recipes -> SUBSET Recipes]
    /\ \A r \in Recipes : \A d \in Depends[r] : r # d /\ Depends[d] \subseteq Depends[r]
ASSUME FormBounds ==
    ScanBatch \in Nat \ {0} /\ ChanCap \in Nat \ {0} /\ MaxKeys \in Nat

VARIABLES
    local,       \* catalog entries whose file is in isos/
    screen,      \* the list or the form
    form,        \* formModel
    modal,       \* imageModal, and whether it is open
    fetches,     \* the fetch commands in the order they were started
    ticks,       \* download ticks on the way
    scans,       \* the scan goroutines in the order they were started
    pumps,       \* bag of waitForImages commands and their messages
    creating,    \* create sequences whose screenMsg is still to come
    keys         \* keys pressed so far

formVars == <<local, screen, form, modal, fetches, ticks, scans, pumps, creating, keys>>

------------------------------------------------------------------------------
(* Images                                                                  *)

(* imageOption: a catalog entry with or without its local file, or a       *)
(* bring-your-own path.                                                    *)
Option      == [entry : CatalogEntries \cup {None}, path : HomeFiles \cup {None}, here : BOOLEAN]
OfEntry(e)  == [entry |-> e, path |-> None, here |-> e \in local]
OfPath(p)   == [entry |-> None, path |-> p, here |-> TRUE]
IsBYO(o)    == o.entry = None
KindOf(o)   == IF IsBYO(o) THEN Infer[o.path] ELSE Catalog[o.entry]

(* No bring-your-own file lies in isos/ itself.                            *)
buildImages == [e \in CatalogEntries |-> OfEntry(e)]

Selected(f) == f.images[f.img]

(* resolvedBackend and resolvedOS: what the rows of the form show.         *)
Resolved(f) ==
    LET k   == KindOf(Selected(f))
        byo == IsBYO(Selected(f))
    IN  [os      |-> IF byo /\ f.byoOS # "" THEN f.byoOS ELSE k.os,
         backend |-> IF byo /\ f.byoBackend # "" THEN f.byoBackend ELSE k.backend]

MutApply(o, spec) ==
    LET k == KindOf(o)
    IN  [os      |-> IF spec.os # "" THEN spec.os ELSE k.os,
         backend |-> IF spec.backend # "" THEN spec.backend ELSE k.backend]

(* core's image.apply: what becomes of the Spec, which names the overrides *)
(* as they are, whatever image is selected.                                *)
Apply(o, spec) ==
    LET k == KindOf(o)
    IN  [os      |-> IF IsBYO(o) /\ spec.os # "" THEN spec.os ELSE k.os,
         backend |-> IF IsBYO(o) /\ spec.backend # "" THEN spec.backend ELSE k.backend]

spec(f) == [os |-> f.byoOS, backend |-> f.byoBackend]
Builds(f)  == Apply(Selected(f), spec(f))

(* order(): the rows that take a key, the bring-your-own ones only when    *)
(* such an image is selected.  A row keeps the focus it has.               *)
Rows(f) ==
    {"image", "recipes", f.focus} \cup (IF IsBYO(Selected(f)) THEN {"backend", "os"} ELSE {})

------------------------------------------------------------------------------
(* Recipes                                                                 *)

recipeNames(f) == Offered[Resolved(f).os]

(* resolveDeps: what the names need beyond themselves; it refuses when one *)
(* of those does not apply to the OS.                                      *)
Added(S)          == (UNION {Depends[r] : r \in S}) \ S
Resolves(os, S)   == Added(S) \subseteq Offered[os]

refreshRecipes(f) ==
    [f EXCEPT !.sel = {}, !.explicit = {}, !.values = {}, !.wizard = <<>>]

(* recomputeRecipeSelection and cleanupParamValues                         *)
Recompute(f) ==
    LET roots == recipeNames(f) \cap f.explicit
        sel   == roots \cup (IF Resolves(Resolved(f).os, roots) THEN Added(roots) ELSE {})
    IN  [f EXCEPT !.sel = sel, !.values = @ \cap sel]

MutCancel(f) ==
    Recompute([f EXCEPT !.wizard = <<>>, !.root = NoRecipe,
                        !.explicit = @ \ {f.root}, !.values = {}])

(* cancelParamForms: the recipe that opened the wizard is unchecked.       *)
Cancel(f) ==
    Recompute([f EXCEPT !.wizard = <<>>, !.root = NoRecipe,
                        !.explicit = @ \ {f.root}, !.values = @ \ {f.root}])

Uncheck(f, r) ==
    Recompute([f EXCEPT !.explicit = @ \ {r}, !.values = @ \ {r}])

(* parameterForms: dependencies first, the checked recipe last.            *)
Wizard(r, deps) ==
    SetToSeq(deps \cap HasParams) \o (IF r \in HasParams THEN <<r>> ELSE <<>>)

(* A recipe that cannot be read (~read) leaves the check, and no wizard.    *)
Check(f, r, read) ==
    LET pending == (f.sel \cap recipeNames(f)) \cup {r}
        queue   == IF read THEN Wizard(r, Added(pending)) ELSE <<>>
    IN  [f EXCEPT !.sel = @ \cup {r} \cup Added(pending), !.explicit = @ \cup {r},
                  !.wizard = queue, !.root = IF queue = <<>> THEN @ ELSE r]

MutSelectImage(f, i) == [f EXCEPT !.img = i, !.byoBackend = "", !.byoOS = ""]

selectImage(f, i) ==
    refreshRecipes([f EXCEPT !.img = i, !.byoBackend = "", !.byoOS = ""])

------------------------------------------------------------------------------
(* Values                                                                  *)

newForm ==
    [images |-> buildImages, img |-> 1, byoBackend |-> "", byoOS |-> "", focus |-> "image",
     sel |-> {}, explicit |-> {}, values |-> {}, wizard |-> <<>>, root |-> NoRecipe,
     fetching |-> FALSE, dlGen |-> 0, stranded |-> FALSE]

(* A closed picker is none: what it held is gone.  serial and mixed are    *)
(* history: which picker this is, and whether a message of an earlier      *)
(* picker's scan was taken for one of the current scan.                    *)
Closed(n) ==
    [open |-> FALSE, byo |-> FALSE, images |-> <<>>, found |-> <<>>, ch |-> None,
     scanGen |-> 0, scanDone |-> FALSE, serial |-> n, mixed |-> FALSE]

newImageModal(f) == [Closed(modal.serial + 1) EXCEPT !.open = TRUE, !.images = f.images]

FormInit ==
    /\ local = Downloaded
    /\ screen = "list"
    /\ form = newForm
    /\ modal = Closed(0)
    /\ fetches = <<>>
    /\ ticks = 0
    /\ scans = <<>>
    /\ pumps = EmptyBag
    /\ creating = 0
    /\ keys = 0

Key     == keys < MaxKeys /\ keys' = keys + 1
FormKey == Key /\ screen = "form" /\ ~modal.open

RowKey(row) ==
    /\ FormKey
    /\ form.wizard = <<>>
    /\ row \in Rows(form)

------------------------------------------------------------------------------
(* Keys on the list and on the rows of the form                            *)

(* n: a fresh form, unless the form owns a live download.                  *)
ListNew ==
    /\ screen = "list" /\ ~modal.open
    /\ form' = IF form.fetching THEN form ELSE newForm
    /\ screen' = "form"
    /\ UNCHANGED <<local, modal, fetches, ticks, scans, pumps, creating, keys>>

(* The fetch started last is the one dlCancel cancels.                     *)
FormEsc ==
    /\ FormKey
    /\ form.wizard = <<>>
    /\ screen' = "list"
    /\ form' = IF form.fetching THEN [form EXCEPT !.dlGen = @ + 1, !.fetching = FALSE] ELSE form
    /\ fetches' = IF form.fetching THEN [fetches EXCEPT ![Len(fetches)].cancelled = TRUE] ELSE fetches
    /\ UNCHANGED <<local, modal, ticks, scans, pumps, creating>>

MutImageSpace ==
    /\ RowKey("image")
    /\ ~IsBYO(Selected(form)) /\ ~form.fetching
    /\ form' = [form EXCEPT !.focus = "image", !.fetching = TRUE, !.dlGen = @ + 1, !.stranded = FALSE]
    /\ fetches' = Append(fetches, [entry |-> Selected(form).entry, gen |-> form.dlGen,
                                   cancelled |-> FALSE, out |-> "running"])
    /\ ticks' = ticks + 1
    /\ UNCHANGED <<local, screen, modal, scans, pumps, creating>>

(* space on the image row: download, or verify what is here.               *)
ImageSpace ==
    /\ RowKey("image")
    /\ ~IsBYO(Selected(form)) /\ ~form.fetching
    /\ form' = [form EXCEPT !.focus = "image", !.fetching = TRUE, !.dlGen = @ + 1, !.stranded = FALSE]
    /\ fetches' = Append(fetches, [entry |-> Selected(form).entry, gen |-> form.dlGen + 1,
                                   cancelled |-> FALSE, out |-> "running"])
    /\ ticks' = ticks + 1
    /\ UNCHANGED <<local, screen, modal, scans, pumps, creating>>

ImageOpen ==
    /\ RowKey("image")
    /\ form' = [form EXCEPT !.focus = "image"]
    /\ modal' = newImageModal(form)
    /\ UNCHANGED <<local, screen, fetches, ticks, scans, pumps, creating>>

(* left and right on the two override rows                                 *)
BackendKey ==
    /\ RowKey("backend")
    /\ \E b \in Backends \ {Resolved(form).backend} :
        form' = refreshRecipes([form EXCEPT !.focus = "backend", !.byoBackend = b])
    /\ UNCHANGED <<local, screen, modal, fetches, ticks, scans, pumps, creating>>

OSKey ==
    /\ RowKey("os")
    /\ \E o \in (OSNames \cup {""}) \ {Resolved(form).os} :
        form' = refreshRecipes([form EXCEPT !.focus = "os", !.byoOS = o])
    /\ UNCHANGED <<local, screen, modal, fetches, ticks, scans, pumps, creating>>

(* space on a recipe; a dependency that does not apply refuses the check.  *)
RecipeSpace ==
    /\ RowKey("recipes")
    /\ \E r \in recipeNames(form), read \in BOOLEAN :
        LET f == [form EXCEPT !.focus = "recipes"]
        IN  form' = IF r \in f.sel THEN Uncheck(f, r)
                    ELSE IF Resolves(Resolved(f).os, (f.sel \cap recipeNames(f)) \cup {r})
                    THEN Check(f, r, read)
                    ELSE f
    /\ UNCHANGED <<local, screen, modal, fetches, ticks, scans, pumps, creating>>

(* enter: refused while the image is not local, else the create sequence,  *)
(* which ends with the message that goes back to the list.                 *)
FormEnter ==
    /\ FormKey
    /\ form.wizard = <<>>
    /\ Selected(form).here
    /\ creating' = creating + 1
    /\ UNCHANGED <<local, screen, form, modal, fetches, ticks, scans, pumps>>

BackToList ==
    /\ creating > 0
    /\ creating' = creating - 1
    /\ screen' = "list"
    /\ UNCHANGED <<local, form, modal, fetches, ticks, scans, pumps, keys>>

------------------------------------------------------------------------------
(* The parameter wizard: the form in front is the head of the queue        *)

WizardEsc ==
    /\ FormKey
    /\ form.wizard # <<>>
    /\ form' = Cancel(form)
    /\ UNCHANGED <<local, screen, modal, fetches, ticks, scans, pumps, creating>>

WizardDone ==
    /\ FormKey
    /\ form.wizard # <<>>
    /\ form' = [form EXCEPT !.values = @ \cup {Head(form.wizard)}, !.wizard = Tail(@),
                            !.root = IF Len(form.wizard) = 1 THEN NoRecipe ELSE @]
    /\ UNCHANGED <<local, screen, modal, fetches, ticks, scans, pumps, creating>>

------------------------------------------------------------------------------
(* The download                                                            *)

(* The goroutine of a cancelled fetch runs on until it notices, and may    *)
(* still end well.                                                         *)
FetchEnds(i) ==
    /\ fetches[i].out = "running"
    /\ \E r \in {"ok", "err"} :
        /\ fetches' = [fetches EXCEPT ![i].out = r]
        /\ local' = IF r = "ok" THEN local \cup {fetches[i].entry} ELSE local
    /\ UNCHANGED <<screen, form, modal, ticks, scans, pumps, creating, keys>>

Gone == [entry |-> None, gen |-> 0, cancelled |-> TRUE, out |-> "gone"]

(* imageFetchedMsg and imageFetchErrMsg, whatever the screen.  An open     *)
(* parameter form takes the message and does nothing with it.              *)
FetchOutcome(i) ==
    LET c == fetches[i]
    IN  /\ c.out \in {"ok", "err"}
        /\ fetches' = [fetches EXCEPT ![i] = Gone]
        /\ form' = IF form.wizard # <<>>
                   THEN [form EXCEPT !.stranded = @ \/ (form.fetching /\ c.gen = form.dlGen)]
                   ELSE IF c.gen # form.dlGen THEN form
                   ELSE IF c.out = "err" THEN [form EXCEPT !.fetching = FALSE]
                   ELSE refreshRecipes([form EXCEPT !.fetching = FALSE, !.images = buildImages,
                                                    !.img = c.entry])
        /\ UNCHANGED <<local, screen, modal, ticks, scans, pumps, creating, keys>>

(* dlTickMsg: re-armed only while a fetch is in flight.  A tick that       *)
(* re-arms changes nothing but the bar.                                    *)
DLTick ==
    /\ ticks > 0
    /\ form.wizard # <<>> \/ ~form.fetching
    /\ ticks' = ticks - 1
    /\ form' = [form EXCEPT !.stranded = @ \/ form.fetching]
    /\ UNCHANGED <<local, screen, modal, fetches, scans, pumps, creating, keys>>

------------------------------------------------------------------------------
(* The picker                                                              *)

ModalKey == Key /\ modal.open /\ UNCHANGED <<local, screen, fetches, ticks, creating>>

StopScan(ss) == IF modal.ch = None THEN ss ELSE [ss EXCEPT ![modal.ch].cancelled = TRUE]

(* The picker's images become the form's, and the chosen one is selected.  *)
Choose(images, i) ==
    /\ form' = selectImage([form EXCEPT !.images = images], i)
    /\ modal' = Closed(modal.serial)

ModalEsc ==
    /\ ModalKey /\ ~modal.byo
    /\ modal' = Closed(modal.serial)
    /\ UNCHANGED <<form, scans, pumps>>

ModalEnter ==
    /\ ModalKey /\ ~modal.byo
    /\ \E i \in DOMAIN modal.images : Choose(modal.images, i)
    /\ UNCHANGED <<scans, pumps>>

NewScan == [pos |-> 0, batch |-> <<>>, ch |-> <<>>, cancelled |-> FALSE, closed |-> FALSE]

One(c) == SetToBag({c})

Wait(s, g) == [ch |-> s, gen |-> g, serial |-> modal.serial, got |-> "waiting", batch |-> <<>>]

openByo ==
    /\ ModalKey /\ ~modal.byo
    /\ scans' = Append(StopScan(scans), NewScan)
    /\ modal' = [modal EXCEPT !.byo = TRUE, !.found = <<>>, !.scanDone = FALSE, !.mixed = FALSE,
                              !.scanGen = @ + 1, !.ch = Len(scans) + 1]
    /\ pumps' = pumps (+) One(Wait(Len(scans) + 1, modal.scanGen + 1))
    /\ UNCHANGED form

MutByoEsc ==
    /\ ModalKey /\ modal.byo
    /\ modal' = [modal EXCEPT !.byo = FALSE, !.ch = None]
    /\ UNCHANGED <<form, scans, pumps>>

ByoEsc ==
    /\ ModalKey /\ modal.byo
    /\ scans' = StopScan(scans)
    /\ modal' = [modal EXCEPT !.byo = FALSE, !.ch = None]
    /\ UNCHANGED <<form, pumps>>

(* enter: the listed file under the cursor, or a path that was typed.      *)
ByoEnter ==
    /\ ModalKey /\ modal.byo
    /\ \E p \in HomeFiles :
        LET images == Append(modal.images, OfPath(p)) IN Choose(images, Len(images))
    /\ scans' = StopScan(scans)
    /\ UNCHANGED pumps

MutImagesFound(c) ==
    /\ c.got # "waiting"
    /\ IF modal.byo
       THEN LET mo == [modal EXCEPT !.mixed = @ \/ c.serial # modal.serial]
            IN  IF c.got = "done"
                THEN modal' = [mo EXCEPT !.scanDone = TRUE] /\ pumps' = pumps (-) One(c)
                ELSE /\ modal' = [mo EXCEPT !.found = @ \o c.batch]
                     /\ pumps' = (pumps (-) One(c)) (+) One(Wait(modal.ch, modal.scanGen))
       ELSE pumps' = pumps (-) One(c) /\ UNCHANGED modal
    /\ UNCHANGED <<local, screen, form, fetches, ticks, scans, creating, keys>>

(* imagesFoundMsg reaches an open search only, and is taken when its       *)
(* generation is the picker's: a batch is listed and the channel waited on *)
(* again.                                                                  *)
ImagesFound(c) ==
    /\ c.got # "waiting"
    /\ IF modal.byo /\ c.gen = modal.scanGen
       THEN LET mo == [modal EXCEPT !.mixed = @ \/ c.serial # modal.serial]
            IN  IF c.got = "done"
                THEN modal' = [mo EXCEPT !.scanDone = TRUE] /\ pumps' = pumps (-) One(c)
                ELSE /\ modal' = [mo EXCEPT !.found = @ \o c.batch]
                     /\ pumps' = (pumps (-) One(c)) (+) One(Wait(modal.ch, modal.scanGen))
       ELSE pumps' = pumps (-) One(c) /\ UNCHANGED modal
    /\ UNCHANGED <<local, screen, form, fetches, ticks, scans, creating, keys>>

------------------------------------------------------------------------------
(* The scan goroutine and the command that waits on its channel            *)

ScanOnly == UNCHANGED <<local, screen, form, modal, fetches, ticks, pumps, creating, keys>>

Full(x)  == Len(x.batch) = ScanBatch
Ended(x) == x.pos = Len(Infer)

(* One more file of the walk.  It looks at cancel only when it flushes.    *)
Walk(s) ==
    LET x == scans[s]
    IN  /\ ~x.closed /\ ~Full(x) /\ ~Ended(x)
        /\ scans' = [scans EXCEPT ![s].pos = @ + 1, ![s].batch = Append(@, x.pos + 1)]
        /\ ScanOnly

(* flush: the send when there is room, or the end when cancelled; a select *)
(* with both ready takes either.  A walk that is cut short flushes once    *)
(* more, then the channel is closed.                                       *)
Send(s) ==
    LET x == scans[s]
    IN  /\ ~x.closed
        /\ x.batch # <<>> /\ (Full(x) \/ Ended(x))
        /\ Len(x.ch) < ChanCap
        /\ scans' = [scans EXCEPT ![s].ch = Append(@, x.batch), ![s].batch = <<>>]
        /\ ScanOnly

Abandon(s) ==
    LET x == scans[s]
    IN  /\ ~x.closed
        /\ x.batch # <<>> /\ (Full(x) \/ Ended(x))
        /\ x.cancelled
        /\ scans' = IF Ended(x) THEN [scans EXCEPT ![s].batch = <<>>, ![s].closed = TRUE]
                    ELSE [scans EXCEPT ![s].pos = Len(Infer)]
        /\ ScanOnly

Close(s) ==
    /\ ~scans[s].closed /\ Ended(scans[s]) /\ scans[s].batch = <<>>
    /\ scans' = [scans EXCEPT ![s].closed = TRUE]
    /\ ScanOnly

(* waitForImages: the next batch, or the end of a closed channel.          *)
Receive(c) ==
    LET x == scans[c.ch]
    IN  /\ c.got = "waiting"
        /\ x.ch # <<>> \/ x.closed
        /\ pumps' = (pumps (-) One(c)) (+)
                    One(IF x.ch = <<>> THEN [c EXCEPT !.got = "done"]
                        ELSE [c EXCEPT !.got = "batch", !.batch = Head(x.ch)])
        /\ scans' = IF x.ch = <<>> THEN scans ELSE [scans EXCEPT ![c.ch].ch = Tail(@)]
        /\ UNCHANGED <<local, screen, form, modal, fetches, ticks, creating, keys>>

ScanNext  == \E s \in DOMAIN scans : Walk(s) \/ Send(s) \/ Abandon(s) \/ Close(s)
PumpNext  == \E c \in BagToSet(pumps) : Receive(c) \/ ImagesFound(c)
FetchNext == \E i \in DOMAIN fetches : FetchEnds(i) \/ FetchOutcome(i)

FormNext ==
    \/ ListNew \/ FormEsc \/ ImageSpace \/ ImageOpen \/ BackendKey \/ OSKey \/ RecipeSpace
    \/ FormEnter \/ BackToList \/ WizardEsc \/ WizardDone
    \/ ModalEsc \/ ModalEnter \/ openByo \/ ByoEsc \/ ByoEnter
    \/ DLTick \/ FetchNext \/ ScanNext \/ PumpNext

(* Goroutines run and the program delivers their messages.                 *)
FormSpec == FormInit /\ [][FormNext]_formVars /\ WF_formVars(ScanNext) /\ WF_formVars(PumpNext)

------------------------------------------------------------------------------
(* Properties                                                              *)

(* Every value of the form, the picker and its goroutines has its type,    *)
(* and the image row and each open search point at something that exists.  *)
FormTypeOK ==
    /\ local \subseteq CatalogEntries /\ screen \in {"list", "form"}
    /\ form.images \in Seq(Option) /\ form.img \in DOMAIN form.images
    /\ form.byoBackend \in Backends \cup {""} /\ form.byoOS \in OSNames \cup {""}
    /\ form.focus \in {"image", "recipes", "backend", "os"}
    /\ form.sel \subseteq Recipes /\ form.explicit \subseteq Recipes /\ form.values \subseteq Recipes
    /\ form.wizard \in Seq(HasParams) /\ form.root \in Recipes \cup {NoRecipe}
    /\ form.wizard # <<>> => form.root # NoRecipe
    /\ form.fetching \in BOOLEAN /\ form.dlGen \in Nat /\ form.stranded \in BOOLEAN
    /\ modal.open \in BOOLEAN /\ modal.byo \in BOOLEAN /\ (modal.byo => modal.open)
    /\ modal.byo <=> modal.ch # None
    /\ modal.ch \in 0..Len(scans)
    /\ modal.found \in Seq(HomeFiles) /\ modal.scanDone \in BOOLEAN
    /\ \A i \in DOMAIN fetches : fetches[i].out \in {"running", "ok", "err", "gone"}
    /\ ticks \in Nat /\ creating \in Nat /\ keys \in 0..MaxKeys
    /\ \A s \in DOMAIN scans : Len(scans[s].ch) <= ChanCap /\ Len(scans[s].batch) <= ScanBatch

(* The OS and the backend that core gives the VM are the ones the form     *)
(* shows.  The Spec carries the overrides made for an earlier image when a *)
(* download outcome moves the picker; only core's own rule, that an        *)
(* override speaks of a bring-your-own image, keeps them off the new one.  *)
BuildsShown == Builds(form) = Resolved(form)

(* The checked recipes are the ones the user asked for and what they need, *)
(* all of them apply to the OS the VM will have, and only a checked recipe *)
(* has parameter values: across checks, unchecks, a wizard abandoned after *)
(* some of its forms, an image or an override that changes the OS, and a   *)
(* download outcome that moves the picker.                                 *)
SelectionClosed ==
    /\ form.sel = form.explicit \cup Added(form.explicit)
    /\ form.sel \subseteq Offered[Builds(form).os]
    /\ form.values \subseteq form.sel

(* What was answered for a recipe stays while it is checked, unless space  *)
(* is pressed on the recipe itself: abandoning the wizard of another       *)
(* recipe, or unchecking one that shares a dependency, loses no answer.    *)
ValuesKept ==
    [][\A r \in form.values :
         r \in form'.sel /\ r \notin form'.values
         => form'.focus = "recipes" /\ form.wizard = <<>> /\ r \notin form'.explicit]_formVars

(* What enter would create is what the user chose and sees, and stays so.  *)
FormFaithful == [](BuildsShown /\ SelectionClosed) /\ ValuesKept

(* While the form shows a download, its next tick and the outcome that     *)
(* will end it are on their way, unless an open parameter form took one of *)
(* them.                                                                   *)
FetchFollowed ==
    form.fetching /\ ~form.stranded =>
        /\ ticks > 0
        /\ \E i \in DOMAIN fetches : fetches[i].gen = form.dlGen /\ fetches[i].out # "gone"

(* An open search lists no file twice, and says it is done only when every *)
(* file is listed, unless the scan of an earlier picker has answered in    *)
(* its place.                                                              *)
ScanFaithful ==
    modal.byo /\ ~modal.mixed =>
        /\ IsInjective(modal.found)
        /\ modal.scanDone => Range(modal.found) = HomeFiles

(* What runs beneath the form is followed to its end and reported as it    *)
(* was.                                                                    *)
WorkFollowed == FetchFollowed /\ ScanFaithful

(* Every walk of the home directory ends: the picker drains the channel    *)
(* until it is closed, or leaving it cancels the walk that is blocked.     *)
(* Two keys at least lie between one scan and the next.                    *)
ScanEnds == \A s \in 1..MaxKeys \div 2 : s \in DOMAIN scans ~> (s \in DOMAIN scans /\ scans[s].closed)

(* "Only one download runs at a time": the form refuses a second one while *)
(* it is fetching, and no other form is handed out meanwhile.  A cancelled *)
(* fetch that is about to notice does not count.                           *)
OneDownload ==
    Cardinality({i \in DOMAIN fetches : fetches[i].out = "running" /\ ~fetches[i].cancelled}) <= 1

==============================================================================
