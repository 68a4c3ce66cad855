----------------------------- MODULE RecipePlan -----------------------------
(***************************************************************************)
(* Which recipes run and in what order: recipes.TopoSort, the depth-first  *)
(* search that orders a list of recipes by their depends, and its three    *)
(* callers in core: CheckDependencies (Create and the CLI),                *)
(* ResolveDependencies (the TUI, which adds what is missing) and           *)
(* planRecipes (Apply, its dry run and NeedsProvision).                    *)
(*                                                                         *)
(* A behaviour is one call.  Its input is chosen in Init; the recursion of *)
(* visit is a stack of frames.  The order of a manifest's depends list     *)
(* matters to no property, so the list is a set whose members are looked   *)
(* at in any order.                                                        *)
(***************************************************************************)
EXTENDS Naturals, Sequences, FiniteSets, SequencesExt

CONSTANTS
    Recipes,     \* the names manifests may mention
    NoRecipe,
    Calls,       \* the callers looked at
    Lists,       \* the argument lists
    Graphs,      \* the depends of every manifest
    Kinds,       \* the run mode and the record of every recipe
    Catalogs     \* the recipes that have a manifest, and that fit the VM's OS

ASSUME CallsAssumption ==
    Calls \subseteq {"CheckDependencies", "ResolveDependencies", "planRecipes"}
ASSUME InputAssumption ==
    /\ NoRecipe \notin Recipes
    /\ Lists \subseteq Seq(Recipes)
    /\ Graphs \subseteq [Recipes -> SUBSET Recipes]
    /\ Kinds # {}
    /\ Kinds \subseteq [Recipes -> [run : {"once", "always", "manual"},
                                    applied : {"never", "same", "changed"}]]
    /\ Catalogs \subseteq [known : SUBSET Recipes, fits : SUBSET Recipes]

VARIABLES
    call, names,  \* the call and its list of recipes
    explicit,     \* planRecipes: the user named the list (--recipe)
    depends,      \* the depends in each manifest
    kind,         \* each recipe's run mode, and how its entry in v.Applied
                  \* compares with the script and parameters of now
    catalog,      \* the recipes that have a recipe.toml, and that fit the OS
    at, result,   \* the phase of the call, and how it ended
    queue, added, \* ResolveDependencies: recipes to look at; what it adds
    cur, todo,    \* the recipe it looks at, and those of its depends left
    present,      \* the recipes whose manifests the caller has loaded
    list,         \* what is left of the list that is gone through
    color, stack, \* TopoSort's search: the recipes on the stack are gray
    order,        \* what it has put out
    cycle,        \* the path of a cycle error
    kept          \* planRecipes: the recipes to run

input == <<call, names, explicit, depends, kind, catalog>>
resolving == <<queue, added, cur, todo>>
sorting == <<color, stack, order, cycle>>
vars == <<input, at, result, resolving, present, list, sorting, kept>>

Frame == [name : Recipes, todo : SUBSET Recipes]

TypeOK ==
    /\ call \in Calls /\ names \in Lists /\ explicit \in BOOLEAN
    /\ depends \in Graphs /\ kind \in Kinds /\ catalog \in Catalogs
    /\ at \in {"start", "resolve", "sort", "classify", "end"}
    /\ result \in {"none", "ok", "refused", "cycle", "unsatisfied"}
    /\ queue \in Seq(Recipes) /\ added \in Seq(Recipes \X Recipes)
    /\ cur \in Recipes \cup {NoRecipe} /\ todo \subseteq Recipes
    /\ present \subseteq Recipes
    /\ list \in Seq(Recipes)
    /\ color \in [Recipes -> {"white", "gray", "black"}]
    /\ stack \in Seq(Frame)
    /\ order \in Seq(present)
    /\ cycle \in Seq(Recipes)
    /\ kept \in Seq(Recipes)

Init ==
    /\ call \in Calls /\ names \in Lists
    \* explicit and kind are only read by planRecipes
    /\ explicit \in (IF call = "planRecipes" THEN BOOLEAN ELSE {FALSE})
    /\ depends \in Graphs
    /\ kind \in (IF call = "planRecipes" THEN Kinds ELSE {CHOOSE k \in Kinds : TRUE})
    /\ catalog \in Catalogs
    /\ at = "start" /\ result = "none"
    /\ queue = <<>> /\ added = <<>> /\ cur = NoRecipe /\ todo = {}
    /\ present = {}
    /\ list = <<>>
    /\ color = [r \in Recipes |-> "white"]
    /\ stack = <<>> /\ order = <<>> /\ cycle = <<>>
    /\ kept = <<>>

Listed == ToSet(names)

End(r) == at' = "end" /\ result' = r

-----------------------------------------------------------------------------
(* The callers, up to TopoSort *)

\* CheckDependencies wants every dependency in the list; planRecipes leaves
\* the ones outside it to Classify.
Complete ==
    call = "CheckDependencies" => \A n \in Listed : depends[n] \subseteq Listed

\* loadManifests and the edges, or the manifests of RepairSnapshot, which fails
\* when the recipes' lock file is out of date.
LoadManifests ==
    /\ at = "start"
    /\ call # "ResolveDependencies"
    /\ \/ /\ Listed \subseteq catalog.known /\ Complete
          /\ present' = Listed
          /\ list' = names
          /\ at' = "sort"
          /\ UNCHANGED result
       \/ /\ Listed \subseteq catalog.known /\ Complete => call = "planRecipes"
          /\ End("refused")
          /\ UNCHANGED <<present, list>>
    /\ UNCHANGED <<input, resolving, sorting, kept>>

ResolveDependencies ==
    /\ at = "start"
    /\ call = "ResolveDependencies"
    /\ at' = "resolve"
    /\ queue' = names
    /\ UNCHANGED <<input, result, added, cur, todo, present, list, sorting, kept>>

Have == Listed \cup {a[1] : a \in ToSet(added)}

\* Mutant: a recipe that was looked at is left in the queue.
MutResolveNext ==
    /\ at = "resolve" /\ todo = {} /\ queue # <<>>
    /\ IF Head(queue) \in present THEN
          UNCHANGED <<at, result, queue, cur, todo, present>>
       ELSE
          /\ queue' = Tail(queue)
          /\ present' = present \cup {Head(queue)}
          /\ cur' = Head(queue) /\ todo' = depends[Head(queue)]
          /\ UNCHANGED <<at, result>>
    /\ UNCHANGED <<input, added, list, sorting, kept>>

\* The next recipe of the queue, unless it was looked at before.
ResolveNext ==
    /\ at = "resolve" /\ todo = {} /\ queue # <<>>
    /\ queue' = Tail(queue)
    /\ \/ /\ Head(queue) \in present
          /\ UNCHANGED <<at, result, cur, todo, present>>
       \/ /\ Head(queue) \in catalog.known \ present
          /\ present' = present \cup {Head(queue)}
          /\ cur' = Head(queue) /\ todo' = depends[Head(queue)]
          /\ UNCHANGED <<at, result>>
       \/ /\ Head(queue) \notin catalog.known \cup present
          /\ End("refused")
          /\ UNCHANGED <<cur, todo, present>>
    /\ UNCHANGED <<input, added, list, sorting, kept>>

\* Mutant: what is added is not looked at in turn.
MutResolveDep(d) ==
    /\ at = "resolve" /\ d \in todo
    /\ todo' = todo \ {d}
    /\ added' = IF d \in Have THEN added ELSE Append(added, <<d, cur>>)
    /\ present' = present \cup {d}
    /\ UNCHANGED <<input, at, result, cur, queue, list, sorting, kept>>

\* One name of its depends list: added when it is missing, and queued.
ResolveDep(d) ==
    /\ at = "resolve" /\ d \in todo
    /\ \/ /\ d \in Have \cup (catalog.known \cap catalog.fits)
          /\ todo' = todo \ {d}
          /\ added' = IF d \in Have THEN added ELSE Append(added, <<d, cur>>)
          /\ queue' = Append(queue, d)
          /\ UNCHANGED <<at, result>>
       \/ /\ d \notin Have \cup (catalog.known \cap catalog.fits)
          /\ End("refused")
          /\ UNCHANGED <<todo, added, queue>>
    /\ UNCHANGED <<input, cur, present, list, sorting, kept>>

ResolveSort ==
    /\ at = "resolve" /\ todo = {} /\ queue = <<>>
    /\ at' = "sort"
    /\ list' = names \o [i \in 1 .. Len(added) |-> added[i][1]]
    /\ UNCHANGED <<input, result, resolving, present, sorting, kept>>

-----------------------------------------------------------------------------
(* TopoSort *)

\* The call visit(r): the dependencies it goes through are those in the set.
FrameOf(r) == [name |-> r, todo |-> depends[r] \cap present]

Top == stack[Len(stack)]
Below == SubSeq(stack, 1, Len(stack) - 1)
OnStack == {stack[i].name : i \in 1 .. Len(stack)}

\* The loop over names.
VisitRoot ==
    /\ at = "sort" /\ stack = <<>> /\ list # <<>>
    /\ list' = Tail(list)
    /\ \/ /\ color[Head(list)] = "white"
          /\ color' = [color EXCEPT ![Head(list)] = "gray"]
          /\ stack' = <<FrameOf(Head(list))>>
       \/ /\ color[Head(list)] # "white"
          /\ UNCHANGED <<color, stack>>
    /\ UNCHANGED <<input, at, result, resolving, present, order, cycle, kept>>

\* Mutant: the path starts at the bottom of the stack.
MutCyclePath(d) == Append([i \in 1 .. Len(stack) |-> stack[i].name], d)

\* cycleError: the stack from the recipe the back edge leads to, and it again.
CyclePath(d) ==
    LET start == CHOOSE i \in 1 .. Len(stack) : stack[i].name = d
    IN  Append([i \in 1 .. Len(stack) - start + 1 |-> stack[start + i - 1].name], d)

\* One dependency of the recipe on top.
VisitDep(d) ==
    /\ at = "sort" /\ stack # <<>>
    /\ d \in Top.todo
    /\ LET rest == Append(Below, [Top EXCEPT !.todo = @ \ {d}])
       IN  \/ /\ color[d] = "gray"
              /\ cycle' = CyclePath(d)
              /\ End("cycle")
              /\ UNCHANGED <<color, stack>>
           \/ /\ color[d] = "white"
              /\ color' = [color EXCEPT ![d] = "gray"]
              /\ stack' = Append(rest, FrameOf(d))
              /\ UNCHANGED <<at, result, cycle>>
           \/ /\ color[d] = "black"
              /\ stack' = rest
              /\ UNCHANGED <<at, result, color, cycle>>
    /\ UNCHANGED <<input, resolving, present, list, order, kept>>

\* Mutant: a recipe comes before what was found from it.
MutFinish ==
    /\ at = "sort" /\ stack # <<>>
    /\ Top.todo = {}
    /\ stack' = Below
    /\ color' = [color EXCEPT ![Top.name] = "black"]
    /\ order' = <<Top.name>> \o order
    /\ UNCHANGED <<input, at, result, resolving, present, list, cycle, kept>>

\* visit returns.
Finish ==
    /\ at = "sort" /\ stack # <<>>
    /\ Top.todo = {}
    /\ stack' = Below
    /\ color' = [color EXCEPT ![Top.name] = "black"]
    /\ order' = Append(order, Top.name)
    /\ UNCHANGED <<input, at, result, resolving, present, list, cycle, kept>>

\* planRecipes goes on with the order; the other callers only wanted to know.
Sorted ==
    /\ at = "sort" /\ stack = <<>> /\ list = <<>>
    /\ \/ /\ call = "planRecipes"
          /\ at' = "classify" /\ list' = order
          /\ UNCHANGED result
       \/ /\ call # "planRecipes"
          /\ End("ok")
          /\ UNCHANGED list
    /\ UNCHANGED <<input, resolving, present, sorting, kept>>

-----------------------------------------------------------------------------
(* planRecipes after TopoSort *)

\* Whether the run mode lets r run.
Due(r) ==
    CASE kind[r].run = "manual" -> explicit
      [] kind[r].run = "once"   -> kind[r].applied # "same"
      [] kind[r].run = "always" -> TRUE

\* Mutant: a dependency in the list is enough, whether it runs or not.
MutMet(d) == d \in Listed \/ kind[d].applied # "never"

\* d runs earlier in this run or is on record.
Met(d) == d \in ToSet(kept) \/ kind[d].applied # "never"

Classify ==
    /\ at = "classify" /\ list # <<>>
    /\ LET r == Head(list)
       IN  \/ /\ ~Due(r)
              /\ UNCHANGED <<at, result, kept>>
           \/ /\ Due(r) /\ \A d \in depends[r] : Met(d)
              /\ kept' = Append(kept, r)
              /\ UNCHANGED <<at, result>>
           \/ /\ Due(r) /\ \E d \in depends[r] : ~Met(d)
              /\ End("unsatisfied")
              /\ UNCHANGED kept
    /\ list' = Tail(list)
    /\ UNCHANGED <<input, resolving, present, sorting>>

Planned ==
    /\ at = "classify" /\ list = <<>>
    /\ End("ok")
    /\ UNCHANGED <<input, resolving, present, list, sorting, kept>>

Next ==
    \/ LoadManifests \/ ResolveDependencies \/ ResolveNext
    \/ \E d \in Recipes : ResolveDep(d)
    \/ ResolveSort
    \/ VisitRoot
    \/ \E d \in Recipes : VisitDep(d)
    \/ Finish \/ Sorted \/ Classify \/ Planned

Spec == Init /\ [][Next]_vars /\ WF_vars(Next)

-----------------------------------------------------------------------------
(* Properties *)

\* Every recipe TopoSort puts out comes once, after all those of the set it
\* depends on; when the search is over each recipe of the set is among them.
OrderIsTopological ==
    /\ \A i \in 1 .. Len(order) : \A d \in depends[order[i]] \cap present :
         \E j \in 1 .. i - 1 : order[j] = d
    /\ \A i, j \in 1 .. Len(order) : order[i] = order[j] => i = j
    /\ at \in {"classify", "end"} /\ result \in {"none", "ok"} => ToSet(order) = present

\* The path in the error is a cycle of depends edges among the given recipes
\* ("cycle detected: devtools -> docker -> devtools").
CycleIsReal ==
    result = "cycle" =>
      /\ Len(cycle) > 1 /\ cycle[1] = cycle[Len(cycle)]
      /\ \A i \in 1 .. Len(cycle) - 1 :
           cycle[i] \in present /\ cycle[i + 1] \in depends[cycle[i]]

DueSet == {r \in Listed : Due(r)}

\* planRecipes decides, one recipe at a time, what Provision states of the set:
\* it keeps the recipes that are due, and refuses the list exactly when one of
\* those depends on a recipe that is neither due nor on record.
PlanIsReference ==
    LET unmet == \E r \in DueSet : \E d \in depends[r] :
                   d \notin DueSet /\ kind[d].applied = "never"
    IN  /\ result = "unsatisfied" => unmet
        /\ call = "planRecipes" /\ result = "ok" => ToSet(kept) = DueSet /\ ~unmet

\* What ResolveDependencies adds to the list closes it under depends, nothing is
\* added twice or without a recipe of the list needing it, so that Create's
\* CheckDependencies accepts the form the TUI sends.
ResolveIsClosure ==
    call = "ResolveDependencies" /\ result = "ok" =>
      /\ \A r \in Have : depends[r] \subseteq Have
      /\ \A S \in SUBSET Have : Listed \subseteq S /\ (\A r \in S : depends[r] \subseteq S)
                                => S = Have
      /\ \A i, j \in 1 .. Len(added) : added[i][1] = added[j][1] => i = j
      /\ \A i \in 1 .. Len(added) : added[i][1] \notin Listed

\* Every call returns, for cyclic manifests too.
Returns == <>(result # "none")
=============================================================================
