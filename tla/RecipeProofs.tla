---------------------------- MODULE RecipeProofs ----------------------------
(***************************************************************************)
(* What is proved about recipes: the plan of RecipePlan first, then the    *)
(* publishing of RecipePackages.  The two modules share no state.          *)
(*                                                                         *)
(* The plan, for every list of recipes and every depends relation.  The    *)
(* invariant is the one of depth-first search: the gray recipes are those  *)
(* on the stack, which is a path of depends edges, the black ones those    *)
(* put out, and a dependency a frame has gone past is black or is the      *)
(* frame above.                                                            *)
(*                                                                         *)
(* Publishing, for every set of processes, recipes and commits.  The       *)
(* invariant says for each process which of its artifacts are in place,    *)
(* which are aside and which untouched, and what its plan was; it is kept  *)
(* because a process that moves files holds its scope's lock, so nobody    *)
(* else's step touches the files it stands on.                             *)
(***************************************************************************)
EXTENDS RecipePlan, RecipePackages, SequenceTheorems, FiniteSetTheorems, WellFoundedInduction, TLAPS

-----------------------------------------------------------------------------
(* Sequences, index by index *)

\* Append adds one element behind the others.
LEMMA PushFacts ==
    ASSUME NEW S, NEW s \in Seq(S), NEW x \in S
    PROVE  /\ Append(s, x) \in Seq(S)
           /\ Len(Append(s, x)) = Len(s) + 1
           /\ \A i \in 1 .. Len(s) : Append(s, x)[i] = s[i]
           /\ Append(s, x)[Len(s) + 1] = x
  BY AppendProperties

\* Without its last element a sequence is one shorter.
LEMMA PopFacts ==
    ASSUME NEW S, NEW s \in Seq(S), s # <<>>
    PROVE  /\ Len(s) \in Nat \ {0}
           /\ SubSeq(s, 1, Len(s) - 1) \in Seq(S)
           /\ Len(SubSeq(s, 1, Len(s) - 1)) = Len(s) - 1
           /\ \A i \in 1 .. Len(s) - 1 : SubSeq(s, 1, Len(s) - 1)[i] = s[i]
           /\ s[Len(s)] \in S
  <1>1. PICK n \in Nat : n = Len(s) /\ n > 0
    BY EmptySeq
  <1>2. \A i \in 1 .. n : s[i] \in S
    BY <1>1, ElementOfSeq
  <1>3. /\ SubSeq(s, 1, n - 1) \in Seq(S)
        /\ Len(SubSeq(s, 1, n - 1)) = IF 1 <= n - 1 THEN (n - 1) - 1 + 1 ELSE 0
    BY <1>1, <1>2, SubSeqProperties
  <1>4. Len(SubSeq(s, 1, n - 1)) = n - 1
    BY <1>1, <1>3
  <1>5. \A i \in 1 .. n - 1 : SubSeq(s, 1, n - 1)[i] = s[i]
    BY <1>1
  <1>. QED
    BY <1>1, <1>2, <1>3, <1>4, <1>5

\* Head and Tail split a sequence.
LEMMA TailFacts ==
    ASSUME NEW S, NEW s \in Seq(S), s # <<>>
    PROVE  /\ Len(s) \in Nat \ {0}
           /\ Head(s) \in S /\ Head(s) = s[1]
           /\ Tail(s) \in Seq(S)
           /\ Len(Tail(s)) = Len(s) - 1
           /\ \A i \in 1 .. Len(s) - 1 : Tail(s)[i] = s[i + 1]
  BY HeadTailProperties, EmptySeq

\* The elements of a sequence, by index.
LEMMA ToSetFacts ==
    ASSUME NEW S, NEW s \in Seq(S)
    PROVE  /\ ToSet(s) = {s[i] : i \in 1 .. Len(s)}
           /\ ToSet(s) \subseteq S
  <1>1. DOMAIN s = 1 .. Len(s)
    BY LenProperties
  <1>. QED
    BY <1>1, ElementOfSeq DEF ToSet

-----------------------------------------------------------------------------
(* The inductive invariant *)

\* What each phase of a call leaves alone.
Phases ==
    /\ result = "none" <=> at # "end"
    /\ at \in {"start", "resolve"} =>
         stack = <<>> /\ order = <<>> /\ \A r \in Recipes : color[r] = "white"
    /\ at \in {"start", "resolve", "sort"} => kept = <<>>
    /\ at = "start" => present = {} /\ added = <<>> /\ todo = {}
    /\ at = "resolve" => call = "ResolveDependencies" /\ (todo # {} => cur \in Recipes)
    /\ at = "classify" \/ result = "unsatisfied" => call = "planRecipes"

\* A frame, the way below it and what it has gone past.
FrameInv(i) ==
    /\ stack[i].name \in present /\ color[stack[i].name] = "gray"
    /\ stack[i].todo \subseteq depends[stack[i].name] \cap present
    /\ \A d \in (depends[stack[i].name] \cap present) \ stack[i].todo :
         color[d] = "black" \/ (i < Len(stack) /\ d = stack[i + 1].name)
    /\ i < Len(stack) => stack[i + 1].name \in depends[stack[i].name]
    /\ \A j \in 1 .. Len(stack) : stack[i].name = stack[j].name => i = j

StackInv == \A i \in 1 .. Len(stack) : FrameInv(i)

\* The colors tell where a recipe is.
ColorInv ==
    /\ \A r \in Recipes : color[r] = "gray" => \E i \in 1 .. Len(stack) : stack[i].name = r
    /\ \A r \in Recipes : color[r] = "black" => \E i \in 1 .. Len(order) : order[i] = r
    /\ \A i \in 1 .. Len(order) : color[order[i]] = "black"

\* The part of OrderIsTopological that holds all along.
OrderInv ==
    /\ \A i \in 1 .. Len(order) : \A d \in depends[order[i]] \cap present :
         \E j \in 1 .. i - 1 : order[j] = d
    /\ \A i, j \in 1 .. Len(order) : order[i] = order[j] => i = j

SortInv == TypeOK /\ Phases /\ StackInv /\ ColorInv /\ OrderInv /\ CycleIsReal

LEMMA SortInvInit == Init => SortInv
  <1> SUFFICES ASSUME Init PROVE SortInv
    OBVIOUS
  <1>1. TypeOK
    <2>1. /\ <<>> \in Seq(Recipes) /\ <<>> \in Seq(Recipes \X Recipes)
          /\ <<>> \in Seq(Frame) /\ <<>> \in Seq({})
      BY EmptySeq
    <2>2. explicit \in BOOLEAN /\ kind \in Kinds
      <3>1. explicit \in BOOLEAN
        BY DEF Init
      <3>2. kind \in Kinds
        BY InputAssumption DEF Init
      <3>. QED
        BY <3>1, <3>2
    <2>. QED
      BY <2>1, <2>2 DEF Init, TypeOK
  <1>2. Len(stack) = 0 /\ Len(order) = 0
    BY DEF Init
  <1>3. Phases
    BY DEF Init, Phases
  <1>. QED
    BY <1>1, <1>2, <1>3 DEF Init, SortInv, StackInv, ColorInv, OrderInv, CycleIsReal

-----------------------------------------------------------------------------
(* The callers' steps leave the search alone *)

\* What a step keeps when it changes neither the search nor its input.
LEMMA SearchUntouched ==
    ASSUME StackInv, ColorInv, OrderInv, UNCHANGED <<depends, color, stack, order>>,
           present' = present \/ (stack = <<>> /\ order = <<>>)
    PROVE  StackInv' /\ ColorInv' /\ OrderInv'
  <1>1. ColorInv'
    BY DEF ColorInv
  <1>2. CASE present' = present
    BY <1>1, <1>2 DEF StackInv, FrameInv, OrderInv
  <1>3. CASE stack = <<>> /\ order = <<>>
    BY <1>1, <1>3 DEF StackInv, OrderInv
  <1>. QED
    BY <1>2, <1>3

LEMMA CallersKeepSortInv ==
    ASSUME SortInv,
           \/ LoadManifests \/ ResolveDependencies \/ ResolveNext
           \/ \E d \in Recipes : ResolveDep(d)
           \/ ResolveSort \/ Sorted \/ Classify \/ Planned
    PROVE  SortInv'
  <1> USE InputAssumption, CallsAssumption
  <1>0. names \in Seq(Recipes)
    BY DEF SortInv, TypeOK
  <1>1. CASE LoadManifests
    <2>1. Listed \subseteq Recipes /\ order = <<>> /\ stack = <<>>
      BY <1>0, <1>1, ToSetFacts DEF LoadManifests, SortInv, Phases, Listed
    <2>2. TypeOK'
      BY <1>0, <1>1, <2>1 DEF LoadManifests, SortInv, TypeOK, Phases, input, resolving, sorting, End
    <2>3. Phases' /\ CycleIsReal'
      BY <1>1, <2>1 DEF LoadManifests, SortInv, TypeOK, Phases, CycleIsReal, input, resolving,
                        sorting, End
    <2>. QED
      BY <1>1, <2>1, <2>2, <2>3, SearchUntouched DEF LoadManifests, SortInv, input, sorting
  <1>2. CASE ResolveDependencies
    <2>1. TypeOK'
      BY <1>0, <1>2 DEF ResolveDependencies, SortInv, TypeOK, input, sorting
    <2>2. Phases' /\ CycleIsReal'
      BY <1>2 DEF ResolveDependencies, SortInv, TypeOK, Phases, CycleIsReal, input, sorting
    <2>. QED
      BY <1>2, <2>1, <2>2, SearchUntouched DEF ResolveDependencies, SortInv, input, sorting
  <1>3. CASE ResolveNext
    <2>1. order = <<>> /\ stack = <<>>
      BY <1>3 DEF ResolveNext, SortInv, Phases
    <2>2. Head(queue) \in Recipes /\ Tail(queue) \in Seq(Recipes)
      BY <1>3, TailFacts DEF ResolveNext, SortInv, TypeOK
    <2>3. TypeOK'
      <3>1. depends[Head(queue)] \subseteq Recipes
        BY <2>2 DEF SortInv, TypeOK
      <3>. QED
        BY <1>3, <2>1, <2>2, <3>1 DEF ResolveNext, SortInv, TypeOK, input, sorting, End
    <2>4. Phases' /\ CycleIsReal'
      BY <1>3 DEF ResolveNext, SortInv, TypeOK, Phases, CycleIsReal, input, sorting, End
    <2>. QED
      BY <1>3, <2>1, <2>3, <2>4, SearchUntouched DEF ResolveNext, SortInv, input, sorting
  <1>4. CASE \E d \in Recipes : ResolveDep(d)
    <2> PICK d \in Recipes : ResolveDep(d)
      BY <1>4
    <2>1. cur \in Recipes => Append(added, <<d, cur>>) \in Seq(Recipes \X Recipes)
      BY PushFacts DEF SortInv, TypeOK
    <2>2. Append(queue, d) \in Seq(Recipes)
      BY PushFacts DEF SortInv, TypeOK
    <2>3. TypeOK'
      BY <2>1, <2>2 DEF ResolveDep, SortInv, TypeOK, Phases, input, sorting, End
    <2>4. Phases' /\ CycleIsReal'
      BY DEF ResolveDep, SortInv, TypeOK, Phases, CycleIsReal, input, sorting, End
    <2>. QED
      BY <2>3, <2>4, SearchUntouched DEF ResolveDep, SortInv, input, sorting
  <1>5. CASE ResolveSort
    <2>1. [i \in 1 .. Len(added) |-> added[i][1]] \in Seq(Recipes)
      <3>1. Len(added) \in Nat /\ \A i \in 1 .. Len(added) : added[i][1] \in Recipes
        BY ElementOfSeq, LenProperties DEF SortInv, TypeOK
      <3>. QED
        BY <3>1, IsASeq
    <2>2. list' \in Seq(Recipes)
      BY <1>0, <1>5, <2>1, ConcatProperties DEF ResolveSort
    <2>3. TypeOK'
      BY <1>5, <2>2 DEF ResolveSort, SortInv, TypeOK, input, resolving, sorting
    <2>4. Phases' /\ CycleIsReal'
      BY <1>5 DEF ResolveSort, SortInv, TypeOK, Phases, CycleIsReal, input, resolving, sorting
    <2>. QED
      BY <1>5, <2>3, <2>4, SearchUntouched DEF ResolveSort, SortInv, input, sorting
  <1>6. CASE Sorted
    <2>1. order \in Seq(Recipes)
      BY SeqMonotonic DEF SortInv, TypeOK
    <2>2. TypeOK'
      BY <1>6, <2>1 DEF Sorted, SortInv, TypeOK, input, resolving, sorting, End
    <2>3. Phases' /\ CycleIsReal'
      BY <1>6 DEF Sorted, SortInv, TypeOK, Phases, CycleIsReal, input, resolving, sorting, End
    <2>. QED
      BY <1>6, <2>2, <2>3, SearchUntouched DEF Sorted, SortInv, input, sorting
  <1>7. CASE Classify
    <2>1. Head(list) \in Recipes /\ Tail(list) \in Seq(Recipes)
      BY <1>7, TailFacts DEF Classify, SortInv, TypeOK
    <2>2. Append(kept, Head(list)) \in Seq(Recipes)
      BY <2>1, PushFacts DEF SortInv, TypeOK
    <2>3. TypeOK'
      BY <1>7, <2>1, <2>2 DEF Classify, SortInv, TypeOK, input, resolving, sorting, End
    <2>4. Phases' /\ CycleIsReal'
      BY <1>7 DEF Classify, SortInv, TypeOK, Phases, CycleIsReal, input, resolving, sorting, End
    <2>. QED
      BY <1>7, <2>3, <2>4, SearchUntouched DEF Classify, SortInv, input, sorting
  <1>8. CASE Planned
    <2>1. TypeOK'
      BY <1>8 DEF Planned, SortInv, TypeOK, input, resolving, sorting, End
    <2>2. Phases' /\ CycleIsReal'
      BY <1>8 DEF Planned, SortInv, TypeOK, Phases, CycleIsReal, input, resolving, sorting, End
    <2>. QED
      BY <1>8, <2>1, <2>2, SearchUntouched DEF Planned, SortInv, input, sorting
  <1>. QED
    BY <1>1, <1>2, <1>3, <1>4, <1>5, <1>6, <1>7, <1>8

-----------------------------------------------------------------------------
(* The steps of the search *)

\* visit(r) for a white recipe of the list: a stack of one frame.
LEMMA VisitRootKeepsSortInv ==
    ASSUME SortInv, VisitRoot,
           \A i \in 1 .. Len(list) : list[i] \in present
    PROVE  SortInv'
  <1> DEFINE r == Head(list)
  <1>1. /\ r \in Recipes /\ r \in present /\ Tail(list) \in Seq(Recipes)
        /\ depends[r] \subseteq Recipes /\ present \subseteq Recipes
    <2>1. r \in Recipes /\ r = list[1] /\ Len(list) \in Nat \ {0} /\ Tail(list) \in Seq(Recipes)
      BY TailFacts DEF VisitRoot, SortInv, TypeOK
    <2>2. depends \in [Recipes -> SUBSET Recipes] /\ present \subseteq Recipes
      BY InputAssumption DEF SortInv, TypeOK
    <2>3. r \in present
      BY <2>1
    <2>. QED
      BY <2>1, <2>2, <2>3
  <1> HIDE DEF r
  <1>2. CASE color[r] = "white"
    <2>1. /\ stack = <<>> /\ at = "sort" /\ stack' = <<FrameOf(r)>>
          /\ color' = [color EXCEPT ![r] = "gray"]
          /\ UNCHANGED <<order, present, depends, result, cycle, at>>
      BY <1>2 DEF VisitRoot, input, r
    <2>2. FrameOf(r) \in Frame
      BY <1>1 DEF FrameOf, Frame
    <2>3. stack' \in Seq(Frame) /\ Len(stack') = 1 /\ stack'[1] = FrameOf(r)
      BY <2>1, <2>2
    <2>4. TypeOK'
      BY <1>1, <2>1, <2>3 DEF VisitRoot, SortInv, TypeOK, input, resolving, r
    <2>5. Phases' /\ CycleIsReal'
      BY <2>1 DEF VisitRoot, SortInv, Phases, CycleIsReal, input, resolving
    <2>6. StackInv'
      BY <1>1, <2>1, <2>3 DEF StackInv, FrameInv, FrameOf, SortInv, TypeOK
    <2>7. ColorInv'
      <3>1. \A q \in Recipes : color[q] # "gray"
        <4>1. Len(stack) = 0
          BY <2>1
        <4>. QED
          BY <4>1 DEF SortInv, ColorInv
      <3>2. \A i \in 1 .. Len(order) : order[i] # r /\ order[i] \in Recipes
        BY <1>2, ElementOfSeq, SeqMonotonic DEF SortInv, TypeOK, ColorInv
      <3>. QED
        BY <1>1, <1>2, <2>1, <2>3, <3>1, <3>2 DEF ColorInv, FrameOf, SortInv, TypeOK
    <2>8. OrderInv'
      BY <2>1 DEF SortInv, OrderInv
    <2>. QED
      BY <2>4, <2>5, <2>6, <2>7, <2>8 DEF SortInv
  <1>3. CASE color[r] # "white"
    <2>1. TypeOK'
      BY <1>1, <1>3 DEF VisitRoot, SortInv, TypeOK, input, resolving, r
    <2>2. Phases' /\ CycleIsReal'
      BY <1>3 DEF VisitRoot, SortInv, Phases, CycleIsReal, input, resolving, r
    <2>. QED
      BY <1>3, <2>1, <2>2, SearchUntouched DEF VisitRoot, SortInv, input, r
  <1>. QED
    BY <1>2, <1>3

\* The stack after the frame on top has gone past one dependency.
LEMMA RestFacts ==
    ASSUME TypeOK, stack # <<>>, NEW d \in Recipes,
           NEW rest, rest = Append(Below, [Top EXCEPT !.todo = @ \ {d}])
    PROVE  /\ Len(stack) \in Nat \ {0} /\ Top \in Frame
           /\ rest \in Seq(Frame) /\ Len(rest) = Len(stack)
           /\ \A i \in 1 .. Len(stack) - 1 : rest[i] = stack[i]
           /\ rest[Len(stack)].name = Top.name
           /\ rest[Len(stack)].todo = Top.todo \ {d}
  <1>1. PICK n \in Nat : n = Len(stack) /\ n > 0
    BY EmptySeq DEF TypeOK
  <1>2. /\ Top \in Frame /\ Below \in Seq(Frame) /\ Len(Below) = n - 1
        /\ \A i \in 1 .. n - 1 : Below[i] = stack[i]
    BY <1>1, PopFacts DEF TypeOK, Top, Below
  <1> DEFINE t == [Top EXCEPT !.todo = @ \ {d}]
  <1>3. t \in Frame /\ t.name = Top.name /\ t.todo = Top.todo \ {d}
    BY <1>2 DEF Frame
  <1> HIDE DEF t
  <1>4. rest = Append(Below, t)
    BY DEF t
  <1>5. /\ rest \in Seq(Frame) /\ Len(rest) = n - 1 + 1 /\ rest[n - 1 + 1] = t
        /\ \A i \in 1 .. n - 1 : rest[i] = Below[i]
    BY <1>2, <1>3, <1>4, PushFacts
  <1>. QED
    BY <1>1, <1>2, <1>3, <1>5

\* The back edge closes a path of the stack: cycleError's path is a cycle.
LEMMA BackEdge ==
    ASSUME SortInv, stack # <<>>, NEW d \in Top.todo, color[d] = "gray"
    PROVE  LET c == CyclePath(d)
           IN  /\ c \in Seq(Recipes)
               /\ Len(c) > 1 /\ c[1] = c[Len(c)]
               /\ \A i \in 1 .. Len(c) - 1 : c[i] \in present /\ c[i + 1] \in depends[c[i]]
  <1>1. PICK n \in Nat : n = Len(stack) /\ n > 0
    BY EmptySeq DEF SortInv, TypeOK
  <1>2. \A i \in 1 .. n : FrameInv(i)
    BY <1>1 DEF SortInv, StackInv
  <1>3. \A i \in 1 .. n : stack[i].name \in present /\ stack[i].name \in Recipes
    BY <1>1, <1>2 DEF FrameInv, SortInv, TypeOK
  <1>4. d \in depends[stack[n].name] /\ d \in Recipes
    BY <1>1, <1>2 DEF FrameInv, Top, SortInv, TypeOK
  <1> DEFINE start == CHOOSE i \in 1 .. Len(stack) : stack[i].name = d
  <1>5. start \in 1 .. n /\ stack[start].name = d
    BY <1>1, <1>4 DEF SortInv, ColorInv
  <1> HIDE DEF start
  <1> DEFINE way == [i \in 1 .. Len(stack) - start + 1 |-> stack[start + i - 1].name]
  <1>6. PICK k \in Nat : k = n - start + 1 /\ k > 0
    BY <1>1, <1>5
  <1>7. way = [i \in 1 .. k |-> stack[start + i - 1].name]
    BY <1>1, <1>6
  <1>8. \A i \in 1 .. k : way[i] = stack[start + i - 1].name /\ start + i - 1 \in 1 .. n
    BY <1>1, <1>5, <1>6, <1>7
  <1> HIDE DEF way
  <1>9. way \in Seq(Recipes) /\ Len(way) = k
    <2>1. \A i \in 1 .. k : stack[start + i - 1].name \in Recipes
      BY <1>3, <1>8
    <2>2. way \in [1 .. k -> Recipes]
      BY <1>7, <2>1
    <2>3. way \in Seq(Recipes)
      BY <1>6, <2>2, IsASeq
    <2>4. Len(way) = k
      BY <1>6, <2>2, <2>3, LenProperties
    <2>. QED
      BY <2>3, <2>4
  <1> DEFINE c == CyclePath(d)
  <1>10. c = Append(way, d)
    BY DEF CyclePath, way, start
  <1>11. /\ c \in Seq(Recipes) /\ Len(c) = k + 1 /\ c[k + 1] = d
         /\ \A i \in 1 .. k : c[i] = way[i]
    BY <1>4, <1>9, <1>10, PushFacts
  <1> HIDE DEF c
  <1>12. c[1] = d
    BY <1>5, <1>6, <1>8, <1>11
  <1>13. ASSUME NEW i \in 1 .. k
         PROVE  c[i] \in present /\ c[i + 1] \in depends[c[i]]
    <2>1. c[i] = stack[start + i - 1].name /\ start + i - 1 \in 1 .. n
      BY <1>8, <1>11
    <2>2. CASE i = k
      BY <1>3, <1>4, <1>5, <1>6, <1>11, <2>1, <2>2
    <2>3. CASE i < k
      <3>0. i + 1 \in 1 .. k /\ start + (i + 1) - 1 = (start + i - 1) + 1 /\ start + i - 1 < n
        BY <1>5, <1>6, <2>3
      <3>1. c[i + 1] = stack[(start + i - 1) + 1].name /\ start + i - 1 < n
        BY <1>8, <1>11, <3>0
      <3>. QED
        BY <1>1, <1>2, <1>3, <2>1, <3>1 DEF FrameInv
    <2>. QED
      BY <1>6, <2>2, <2>3
  <1>. QED
    BY <1>6, <1>11, <1>12, <1>13 DEF c

LEMMA VisitDepKeepsSortInv ==
    ASSUME SortInv, NEW d \in Recipes, VisitDep(d)
    PROVE  SortInv'
  <1> DEFINE rest == Append(Below, [Top EXCEPT !.todo = @ \ {d}])
  <1>0. /\ at = "sort" /\ stack # <<>> /\ d \in Top.todo
        /\ UNCHANGED <<order, present, depends, list, kept, input, resolving>>
    BY DEF VisitDep, input
  <1>1. PICK n \in Nat : n = Len(stack) /\ n > 0
    <2>1. stack # <<>> /\ stack \in Seq(Frame)
      BY <1>0 DEF SortInv, TypeOK
    <2>. QED
      BY <2>1, EmptySeq
  <1>2. /\ rest \in Seq(Frame) /\ Len(rest) = n
        /\ \A i \in 1 .. n - 1 : rest[i] = stack[i]
        /\ rest[n].name = stack[n].name
        /\ rest[n].todo = stack[n].todo \ {d}
    BY <1>0, <1>1, RestFacts DEF SortInv, Top
  <1> HIDE DEF rest
  <1>3. /\ \A i \in 1 .. n : FrameInv(i)
        /\ d \in present /\ d \in depends[stack[n].name]
        /\ \A i \in 1 .. n : stack[i].name \in Recipes
    <2>1. \A i \in 1 .. n : FrameInv(i)
      BY <1>1 DEF SortInv, StackInv
    <2>2. d \in stack[n].todo /\ present \subseteq Recipes
      BY <1>0, <1>1 DEF Top, SortInv, TypeOK
    <2>. QED
      BY <1>1, <2>1, <2>2 DEF FrameInv
  <1>4. \A i \in 1 .. Len(order) : order[i] \in Recipes
    BY ElementOfSeq DEF SortInv, TypeOK
  <1>5. CASE color[d] = "gray"
    <2>1. UNCHANGED <<color, stack>> /\ cycle' = CyclePath(d) /\ at' = "end" /\ result' = "cycle"
      BY <1>5 DEF VisitDep, End
    <2>2. TypeOK' /\ CycleIsReal'
      BY <1>0, <1>5, <2>1, BackEdge DEF SortInv, TypeOK, CycleIsReal, input, resolving
    <2>3. Phases'
      BY <1>0, <2>1 DEF SortInv, Phases, input, resolving
    <2>. QED
      BY <1>0, <2>1, <2>2, <2>3, SearchUntouched DEF SortInv
  <1>6. CASE color[d] = "black"
    <2>1. stack' = rest /\ UNCHANGED <<color, at, result, cycle>>
      BY <1>6 DEF VisitDep, rest
    <2>2. TypeOK' /\ Phases' /\ CycleIsReal'
      BY <1>0, <1>2, <2>1 DEF SortInv, TypeOK, Phases, CycleIsReal, input, resolving
    <2>3. StackInv'
      <3> SUFFICES ASSUME NEW i \in 1 .. n PROVE FrameInv(i)'
        BY <1>2, <2>1 DEF StackInv
      <3>1. \A j \in 1 .. n : stack'[j].name = stack[j].name
        BY <1>1, <1>2, <2>1
      <3>2. Len(stack') = n /\ Len(stack) = n
        BY <1>1, <1>2, <2>1
      <3>3. \A e : e \notin stack'[i].todo => e \notin stack[i].todo \/ e = d
        BY <1>1, <1>2, <2>1
      <3>4. stack'[i].todo \subseteq stack[i].todo
        BY <1>1, <1>2, <2>1
      <3>5. i < n => i + 1 \in 1 .. n
        BY <1>1
      <3>. QED
        BY <1>0, <1>3, <1>6, <2>1, <3>1, <3>2, <3>3, <3>4, <3>5 DEF FrameInv
    <2>4. ColorInv' /\ OrderInv'
      BY <1>0, <1>1, <1>2, <2>1 DEF SortInv, ColorInv, OrderInv
    <2>. QED
      BY <2>2, <2>3, <2>4 DEF SortInv
  <1>7. CASE color[d] = "white"
    <2>1. /\ stack' = Append(rest, FrameOf(d)) /\ UNCHANGED <<at, result, cycle>>
          /\ color' = [color EXCEPT ![d] = "gray"]
      BY <1>7 DEF VisitDep, rest
    <2>2. FrameOf(d) \in Frame /\ FrameOf(d).name = d /\ FrameOf(d).todo = depends[d] \cap present
      BY DEF FrameOf, Frame, SortInv, TypeOK
    <2>3. /\ stack' \in Seq(Frame) /\ Len(stack') = n + 1
          /\ \A i \in 1 .. n : stack'[i] = rest[i]
          /\ stack'[n + 1] = FrameOf(d)
      BY <1>2, <2>1, <2>2, PushFacts
    <2>4. TypeOK' /\ Phases' /\ CycleIsReal'
      BY <1>0, <2>1, <2>3 DEF SortInv, TypeOK, Phases, CycleIsReal, input, resolving
    <2>5. \A i \in 1 .. n : stack'[i].name = stack[i].name /\ stack[i].name # d
      BY <1>1, <1>2, <1>3, <1>7, <2>3 DEF FrameInv
    <2>6. \A r \in Recipes : color'[r] = IF r = d THEN "gray" ELSE color[r]
      BY <2>1 DEF SortInv, TypeOK
    <2>7. StackInv'
      <3>1. \A i \in 1 .. n : FrameInv(i)'
        <4> SUFFICES ASSUME NEW i \in 1 .. n PROVE FrameInv(i)'
          OBVIOUS
        <4>1. \A e : e \notin stack'[i].todo => e \notin stack[i].todo \/ (e = d /\ i = n)
          BY <1>1, <1>2, <2>3
        <4>2. stack'[i].todo \subseteq stack[i].todo
          BY <1>1, <1>2, <2>3
        <4>3. /\ i < n => i + 1 \in 1 .. n /\ stack'[i + 1].name = stack[i + 1].name
              /\ i = n => stack'[i + 1].name = d
              /\ i < Len(stack')
          BY <1>1, <2>2, <2>3, <2>5
        <4>4. /\ stack'[i].name \in present' /\ color'[stack'[i].name] = "gray"
              /\ stack'[i].todo \subseteq depends'[stack'[i].name] \cap present'
          BY <1>0, <1>3, <2>5, <2>6, <4>2 DEF FrameInv
        <4>5. ASSUME NEW e \in (depends[stack[i].name] \cap present) \ stack'[i].todo
              PROVE  color'[e] = "black" \/ e = stack'[i + 1].name
          <5>1. e \in Recipes
            BY DEF SortInv, TypeOK
          <5>2. CASE e = d /\ i = n
            BY <4>3, <5>2
          <5>3. CASE e \notin stack[i].todo
            <6>1. color[e] = "black" \/ (i < n /\ e = stack[i + 1].name)
              BY <1>1, <1>3, <5>3 DEF FrameInv
            <6>. QED
              BY <1>7, <2>6, <4>3, <5>1, <6>1
          <5>. QED
            BY <4>1, <5>2, <5>3
        <4>6. stack'[i + 1].name \in depends[stack[i].name]
          BY <1>1, <1>3, <4>3 DEF FrameInv
        <4>7. \A j \in 1 .. Len(stack') : stack'[i].name = stack'[j].name => i = j
          BY <1>1, <1>3, <2>2, <2>3, <2>5 DEF FrameInv
        <4>. QED
          BY <1>0, <2>5, <4>3, <4>4, <4>5, <4>6, <4>7 DEF FrameInv
      <3>2. FrameInv(n + 1)'
        BY <1>0, <1>1, <1>3, <2>2, <2>3, <2>5, <2>6 DEF FrameInv
      <3>. QED
        BY <1>1, <2>3, <3>1, <3>2 DEF StackInv
    <2>8. ColorInv'
      <3>1. \A r \in Recipes : color'[r] = "gray" =>
              \E i \in 1 .. Len(stack') : stack'[i].name = r
        BY <1>1, <2>2, <2>3, <2>5, <2>6 DEF SortInv, ColorInv
      <3>. QED
        BY <1>0, <1>4, <1>7, <2>6, <3>1 DEF SortInv, ColorInv
    <2>9. OrderInv'
      BY <1>0 DEF SortInv, OrderInv
    <2>. QED
      BY <2>4, <2>7, <2>8, <2>9 DEF SortInv
  <1>. QED
    BY <1>5, <1>6, <1>7 DEF VisitDep

\* visit returns: all the recipe depends on, within the set, was put out before.
LEMMA FinishKeepsSortInv ==
    ASSUME SortInv, Finish
    PROVE  SortInv'
  <1>0. /\ at = "sort" /\ stack # <<>> /\ Top.todo = {} /\ stack' = Below
        /\ color' = [color EXCEPT ![Top.name] = "black"]
        /\ order' = Append(order, Top.name)
        /\ UNCHANGED <<present, depends>>
    BY DEF Finish, input
  <1>1. PICK n \in Nat : n = Len(stack) /\ n > 0
    <2>1. stack # <<>> /\ stack \in Seq(Frame)
      BY <1>0 DEF SortInv, TypeOK
    <2>. QED
      BY <2>1, EmptySeq
  <1>2. /\ stack' \in Seq(Frame) /\ Len(stack') = n - 1
        /\ \A i \in 1 .. n - 1 : stack'[i] = stack[i]
    BY <1>0, <1>1, PopFacts DEF SortInv, TypeOK, Below
  <1> DEFINE t == Top.name
  <1>3. \A i \in 1 .. n : FrameInv(i)
    BY <1>1 DEF SortInv, StackInv
  <1>4. t = stack[n].name /\ t \in present /\ t \in Recipes /\ stack[n].todo = {}
    BY <1>0, <1>1, <1>3 DEF FrameInv, Top, SortInv, TypeOK
  <1>5. \A d \in depends[t] \cap present : color[d] = "black"
    BY <1>1, <1>3, <1>4 DEF FrameInv
  <1>6. PICK m \in Nat : m = Len(order)
    BY LenProperties DEF SortInv, TypeOK
  <1>7. /\ order' \in Seq(present) /\ Len(order') = m + 1 /\ order'[m + 1] = t
        /\ \A i \in 1 .. m : order'[i] = order[i]
    BY <1>0, <1>4, <1>6, PushFacts DEF SortInv, TypeOK
  <1>8. \A i \in 1 .. m : order[i] # t /\ order[i] \in Recipes /\ color[order[i]] = "black"
    <2>1. color[t] = "gray"
      BY <1>1, <1>3, <1>4 DEF FrameInv
    <2>2. \A i \in 1 .. m : order[i] \in Recipes
      BY <1>6, ElementOfSeq DEF SortInv, TypeOK
    <2>. QED
      BY <1>6, <2>1, <2>2 DEF SortInv, ColorInv
  <1>9. \A r \in Recipes : color'[r] = IF r = t THEN "black" ELSE color[r]
    BY <1>0 DEF SortInv, TypeOK
  <1> HIDE DEF t
  <1>10. TypeOK'
    <2>1. color' \in [Recipes -> {"white", "gray", "black"}]
      BY <1>0 DEF SortInv, TypeOK
    <2>. QED
      BY <1>2, <1>7, <2>1 DEF Finish, SortInv, TypeOK, input, resolving
  <1>11. Phases' /\ CycleIsReal'
    BY DEF Finish, SortInv, Phases, CycleIsReal, input, resolving
  <1>12. StackInv'
    <2> SUFFICES ASSUME NEW i \in 1 .. n - 1 PROVE FrameInv(i)'
      BY <1>2 DEF StackInv
    <2>1. i \in 1 .. n /\ stack'[i] = stack[i] /\ FrameInv(i)
      BY <1>1, <1>2, <1>3
    <2>2. stack[i].name # t /\ stack[i].name \in Recipes
      BY <1>1, <1>4, <2>1 DEF FrameInv, SortInv, TypeOK
    <2>3. ASSUME NEW d \in (depends[stack[i].name] \cap present) \ stack[i].todo
          PROVE  color'[d] = "black" \/ (i < n - 1 /\ d = stack[i + 1].name)
      <3>1. d \in Recipes
        BY DEF SortInv, TypeOK
      <3>2. color[d] = "black" \/ (i < n /\ d = stack[i + 1].name)
        BY <1>1, <2>1 DEF FrameInv
      <3>. QED
        BY <1>1, <1>4, <1>9, <3>1, <3>2
    <2>4. i < n - 1 => i + 1 \in 1 .. n - 1 /\ stack'[i + 1] = stack[i + 1]
      BY <1>1, <1>2
    <2>5. i < n - 1 => stack[i + 1].name \in depends[stack[i].name]
      BY <1>1, <2>1 DEF FrameInv
    <2>6. \A j \in 1 .. n - 1 : stack'[i].name = stack'[j].name => i = j
      BY <1>1, <1>2, <2>1 DEF FrameInv
    <2>7. /\ stack[i].name \in present /\ color'[stack[i].name] = "gray"
          /\ stack[i].todo \subseteq depends[stack[i].name] \cap present
      BY <1>9, <2>1, <2>2 DEF FrameInv
    <2>. QED
      BY <1>0, <1>2, <2>1, <2>3, <2>4, <2>5, <2>6, <2>7 DEF FrameInv
  <1>13. ColorInv'
    <2>1. ASSUME NEW r \in Recipes, color'[r] = "gray"
          PROVE  \E i \in 1 .. Len(stack') : stack'[i].name = r
      <3>1. r # t /\ color[r] = "gray"
        BY <1>9, <2>1
      <3>2. PICK i \in 1 .. n : stack[i].name = r
        BY <1>1, <3>1 DEF SortInv, ColorInv
      <3>. QED
        BY <1>1, <1>2, <1>4, <3>1, <3>2
    <2>2. ASSUME NEW r \in Recipes, color'[r] = "black"
          PROVE  \E i \in 1 .. Len(order') : order'[i] = r
      <3>1. CASE r = t
        BY <1>6, <1>7, <3>1
      <3>2. CASE r # t
        <4>1. PICK i \in 1 .. m : order[i] = r
          BY <1>6, <1>9, <2>2, <3>2 DEF SortInv, ColorInv
        <4>. QED
          BY <1>6, <1>7, <4>1
      <3>. QED
        BY <3>1, <3>2
    <2>3. \A i \in 1 .. Len(order') : color'[order'[i]] = "black"
      BY <1>4, <1>6, <1>7, <1>8, <1>9
    <2>. QED
      BY <2>1, <2>2, <2>3 DEF ColorInv
  <1>14. OrderInv'
    <2>1. ASSUME NEW i \in 1 .. m + 1, NEW d \in depends[order'[i]] \cap present
          PROVE  \E j \in 1 .. i - 1 : order'[j] = d
      <3>1. CASE i \in 1 .. m
        <4>1. PICK j \in 1 .. i - 1 : order[j] = d
          BY <1>6, <1>7, <3>1 DEF SortInv, OrderInv
        <4>. QED
          BY <1>6, <1>7, <3>1, <4>1
      <3>2. CASE i = m + 1
        <4>1. d \in Recipes /\ color[d] = "black"
          BY <1>5, <1>7, <3>2 DEF SortInv, TypeOK
        <4>2. PICK j \in 1 .. m : order[j] = d
          BY <1>6, <4>1 DEF SortInv, ColorInv
        <4>. QED
          BY <1>6, <1>7, <3>2, <4>2
      <3>. QED
        BY <1>6, <3>1, <3>2
    <2>2. \A i, j \in 1 .. m + 1 : order'[i] = order'[j] => i = j
      <3>1. \A i, j \in 1 .. m : order[i] = order[j] => i = j
        BY <1>6 DEF SortInv, OrderInv
      <3>. QED
        BY <1>6, <1>7, <1>8, <3>1
    <2>. QED
      BY <1>0, <1>7, <2>1, <2>2 DEF OrderInv
  <1>. QED
    BY <1>10, <1>11, <1>12, <1>13, <1>14 DEF SortInv

-----------------------------------------------------------------------------
(* The search reaches the whole set *)

\* What is left of the list, with the recipes visited, covers the set.
CoverInv ==
    /\ at = "resolve" =>
         /\ present \subseteq Have /\ ToSet(queue) \subseteq Have
         /\ Have \subseteq present \cup ToSet(queue)
    /\ at = "sort" =>
         /\ ToSet(list) \subseteq present
         /\ \A r \in present : color[r] # "white" \/ r \in ToSet(list)
    /\ at = "classify" \/ result \in {"ok", "unsatisfied"} =>
         \A r \in present : color[r] = "black"
    /\ call = "planRecipes" /\ at # "start" /\ result # "refused" => present = Listed

PlanInv == SortInv /\ CoverInv

LEMMA PushSet ==
    ASSUME NEW S, NEW s \in Seq(S), NEW x \in S
    PROVE  ToSet(Append(s, x)) = ToSet(s) \cup {x}
  <1>1. PICK n \in Nat : n = Len(s)
    BY LenProperties
  <1>2. /\ Append(s, x) \in Seq(S) /\ Len(Append(s, x)) = n + 1
        /\ \A i \in 1 .. n : Append(s, x)[i] = s[i]
        /\ Append(s, x)[n + 1] = x
    BY <1>1, PushFacts
  <1> DEFINE a == Append(s, x)
  <1> HIDE DEF a
  <1>3. ToSet(s) = {s[i] : i \in 1 .. n} /\ ToSet(a) = {a[i] : i \in 1 .. n + 1}
    BY <1>1, <1>2, ToSetFacts DEF a
  <1>4. \A i \in 1 .. n + 1 : i \in 1 .. n \/ i = n + 1
    OBVIOUS
  <1>5. n + 1 \in 1 .. n + 1 /\ \A i \in 1 .. n : i \in 1 .. n + 1
    OBVIOUS
  <1>. QED
    BY <1>2, <1>3, <1>4, <1>5 DEF a

LEMMA TailSet ==
    ASSUME NEW S, NEW s \in Seq(S), s # <<>>
    PROVE  ToSet(s) = ToSet(Tail(s)) \cup {Head(s)}
  <1>1. PICK n \in Nat : n = Len(s) /\ n > 0
    BY EmptySeq
  <1> DEFINE t == Tail(s)
  <1>2. /\ t \in Seq(S) /\ Len(t) = n - 1 /\ Head(s) = s[1]
        /\ \A i \in 1 .. n - 1 : t[i] = s[i + 1]
    BY <1>1, TailFacts
  <1> HIDE DEF t
  <1>3. ToSet(s) = {s[i] : i \in 1 .. n} /\ ToSet(t) = {t[i] : i \in 1 .. n - 1}
    BY <1>1, <1>2, ToSetFacts
  <1>4. \A i \in 1 .. n : i = 1 \/ (i - 1 \in 1 .. n - 1 /\ s[i] = t[i - 1])
    BY <1>1, <1>2
  <1>5. \A i \in 1 .. n - 1 : i + 1 \in 1 .. n /\ t[i] = s[i + 1]
    BY <1>1, <1>2
  <1>6. Head(s) \in ToSet(s)
    BY <1>1, <1>2, <1>3
  <1>7. ToSet(t) \subseteq ToSet(s)
    BY <1>3, <1>5
  <1>8. ToSet(s) \subseteq ToSet(t) \cup {Head(s)}
    <2> SUFFICES ASSUME NEW i \in 1 .. n PROVE s[i] \in ToSet(t) \cup {Head(s)}
      BY <1>3
    <2>1. CASE i = 1
      BY <2>1, <1>2
    <2>2. CASE i # 1
      <3>1. i - 1 \in 1 .. n - 1 /\ s[i] = t[i - 1]
        BY <2>2, <1>4
      <3>2. s[i] \in ToSet(t)
        BY <3>1, <1>3
      <3>. QED
        BY <3>2
    <2>. QED
      BY <2>1, <2>2
  <1>. QED
    BY <1>6, <1>7, <1>8 DEF t

LEMMA NoElements == ToSet(<<>>) = {}
  BY DEF ToSet

LEMMA ConcatSet ==
    ASSUME NEW S, NEW s \in Seq(S), NEW t \in Seq(S)
    PROVE  ToSet(s \o t) = ToSet(s) \cup ToSet(t)
  <1>1. PICK n \in Nat, m \in Nat : n = Len(s) /\ m = Len(t)
    BY LenProperties
  <1> DEFINE c == s \o t
  <1>2. /\ c \in Seq(S) /\ Len(c) = n + m
        /\ \A i \in 1 .. n + m : c[i] = IF i <= n THEN s[i] ELSE t[i - n]
    BY <1>1, ConcatProperties
  <1> HIDE DEF c
  <1>3. /\ ToSet(s) = {s[i] : i \in 1 .. n} /\ ToSet(t) = {t[i] : i \in 1 .. m}
        /\ ToSet(c) = {c[i] : i \in 1 .. n + m}
    BY <1>1, <1>2, ToSetFacts
  <1>4. \A i \in 1 .. n : i \in 1 .. n + m /\ c[i] = s[i]
    BY <1>2
  <1>5. \A i \in 1 .. m : i + n \in 1 .. n + m /\ c[i + n] = t[i]
    BY <1>2
  <1>6. \A i \in 1 .. n + m : \/ i \in 1 .. n /\ c[i] = s[i]
                              \/ i - n \in 1 .. m /\ c[i] = t[i - n]
    BY <1>2
  <1>. QED
    BY <1>3, <1>4, <1>5, <1>6 DEF c

LEMMA CoverInvNext ==
    ASSUME PlanInv, [Next]_vars
    PROVE  CoverInv'
  <1> USE InputAssumption DEF input, resolving, sorting
  <1>0. /\ names \in Seq(Recipes) /\ queue \in Seq(Recipes) /\ list \in Seq(Recipes)
        /\ added \in Seq(Recipes \X Recipes) /\ present \subseteq Recipes
    BY DEF PlanInv, SortInv, TypeOK
  <1>1. CASE LoadManifests
    <2>1. \A r \in Recipes : color[r] = "white"
      BY <1>1 DEF LoadManifests, PlanInv, SortInv, Phases
    <2>. QED
      BY <1>1, <2>1 DEF LoadManifests, CoverInv, Listed, End, PlanInv, SortInv, TypeOK, Phases
  <1>2. CASE ResolveDependencies
    <2>1. ToSet(added) = {} /\ present = {} /\ UNCHANGED <<added, present, names, call>>
      BY <1>2, NoElements DEF ResolveDependencies, PlanInv, SortInv, Phases
    <2>. QED
      BY <1>2, <2>1 DEF ResolveDependencies, CoverInv, PlanInv, SortInv, Phases, Have, Listed
  <1>3. CASE ResolveNext
    <2>1. ToSet(queue) = ToSet(Tail(queue)) \cup {Head(queue)}
      BY <1>0, <1>3, TailSet DEF ResolveNext
    <2>2. Have' = Have
      BY <1>3 DEF ResolveNext, Have, Listed
    <2>3. /\ present \subseteq Have /\ ToSet(queue) \subseteq Have
          /\ Have \subseteq present \cup ToSet(queue)
          /\ call # "planRecipes" /\ result = "none"
      BY <1>3 DEF ResolveNext, PlanInv, CoverInv, SortInv, Phases
    <2>. QED
      BY <1>3, <2>1, <2>2, <2>3 DEF ResolveNext, CoverInv, End
  <1>4. CASE \E d \in Recipes : ResolveDep(d)
    <2> PICK d \in Recipes : ResolveDep(d)
      BY <1>4
    <2>1. /\ present \subseteq Have /\ ToSet(queue) \subseteq Have
          /\ Have \subseteq present \cup ToSet(queue)
          /\ call # "planRecipes" /\ result = "none" /\ cur \in Recipes
      BY DEF ResolveDep, PlanInv, CoverInv, SortInv, Phases
    <2>2. CASE d \in Have \cup (catalog.known \cap catalog.fits)
      <3>0. /\ queue' = Append(queue, d)
            /\ added' = IF d \in Have THEN added ELSE Append(added, <<d, cur>>)
        BY <2>2 DEF ResolveDep
      <3>1. ToSet(queue') = ToSet(queue) \cup {d}
        BY <1>0, <3>0, PushSet
      <3>2. Have' = Have \cup {d}
        <4>1. CASE d \in Have
          BY <2>2, <4>1 DEF ResolveDep, Have, Listed
        <4>2. CASE d \notin Have
          <5> DEFINE pair == <<d, cur>>
                     Pairs == Recipes \X Recipes
          <5>1. /\ pair \in Pairs /\ pair[1] = d /\ added \in Seq(Pairs)
                /\ added' = Append(added, pair)
            BY <1>0, <2>1, <3>0, <4>2
          <5> HIDE DEF pair, Pairs
          <5>2. {a[1] : a \in ToSet(added')} = {a[1] : a \in ToSet(added)} \cup {d}
            <6>1. ToSet(added') = ToSet(added) \cup {pair}
              BY <5>1, PushSet
            <6>. QED
              BY <5>1, <6>1
          <5>3. Listed' = Listed
            BY DEF ResolveDep, Listed
          <5>. QED
            BY <5>2, <5>3 DEF Have
        <4>. QED
          BY <4>1, <4>2
      <3>. QED
        BY <2>1, <2>2, <3>1, <3>2 DEF ResolveDep, CoverInv
    <2>3. CASE d \notin Have \cup (catalog.known \cap catalog.fits)
      BY <2>1, <2>3 DEF ResolveDep, CoverInv, End
    <2>. QED
      BY <2>2, <2>3
  <1>5. CASE ResolveSort
    <2>1. /\ present = Have /\ call # "planRecipes" /\ result = "none"
          /\ \A r \in Recipes : color[r] = "white"
      BY <1>5, NoElements DEF ResolveSort, PlanInv, CoverInv, SortInv, Phases
    <2> DEFINE firsts == [i \in 1 .. Len(added) |-> added[i][1]]
    <2>2. PICK n \in Nat : n = Len(added)
      BY <1>0, LenProperties
    <2>3. \A i \in 1 .. n : added[i] \in Recipes \X Recipes
      BY <1>0, <2>2, ElementOfSeq
    <2>4. firsts = [i \in 1 .. n |-> added[i][1]] /\ firsts \in [1 .. n -> Recipes]
      BY <2>2, <2>3
    <2> HIDE DEF firsts
    <2>5. firsts \in Seq(Recipes) /\ DOMAIN firsts = 1 .. n
      BY <2>2, <2>4
    <2>6. ToSet(firsts) = {a[1] : a \in ToSet(added)}
      <3>1. ToSet(added) = {added[i] : i \in 1 .. n}
        BY <1>0, <2>2, ToSetFacts
      <3>2. ToSet(firsts) = {added[i][1] : i \in 1 .. n}
        BY <2>4, <2>5 DEF ToSet
      <3>. QED
        BY <3>1, <3>2
    <2>7. ToSet(list') = present
      <3>1. list' = names \o firsts
        BY <1>5 DEF ResolveSort, firsts
      <3>2. ToSet(list') = ToSet(names) \cup ToSet(firsts)
        BY <1>0, <2>5, <3>1, ConcatSet
      <3>. QED
        BY <2>1, <2>6, <3>2 DEF Have, Listed
    <2>. QED
      BY <1>5, <2>1, <2>7 DEF ResolveSort, CoverInv
  <1>6. CASE VisitRoot
    <2>1. ToSet(list) = ToSet(Tail(list)) \cup {Head(list)} /\ Head(list) \in Recipes
      BY <1>0, <1>6, TailSet, TailFacts DEF VisitRoot
    <2>2. color' \in [Recipes -> {"white", "gray", "black"}]
          /\ \A r \in Recipes : color'[r] = "white" => color[r] = "white" /\ r # Head(list)
      BY <1>6, <2>1 DEF VisitRoot, PlanInv, SortInv, TypeOK
    <2>. QED
      BY <1>0, <1>6, <2>1, <2>2 DEF VisitRoot, CoverInv, PlanInv, SortInv, Phases, Listed
  <1>7. CASE \E d \in Recipes : VisitDep(d)
    <2> PICK d \in Recipes : VisitDep(d)
      BY <1>7
    <2>1. \A r \in Recipes : color'[r] = "white" => color[r] = "white"
      BY DEF VisitDep, PlanInv, SortInv, TypeOK
    <2>2. at = "sort" /\ result = "none" /\ UNCHANGED <<present, list, call, names>>
      BY DEF VisitDep, PlanInv, SortInv, Phases
    <2>3. \/ at' = "sort" /\ result' = "none"
          \/ at' = "end" /\ result' = "cycle"
      BY <2>2 DEF VisitDep, End
    <2>. QED
      BY <1>0, <2>1, <2>2, <2>3 DEF CoverInv, PlanInv, Listed
  <1>8. CASE Finish
    <2>1. \A r \in Recipes : color'[r] = "white" => color[r] = "white"
      BY <1>8 DEF Finish, PlanInv, SortInv, TypeOK
    <2>. QED
      BY <1>0, <1>8, <2>1 DEF Finish, CoverInv, PlanInv, SortInv, Phases, Listed
  <1>9. CASE Sorted
    <2>1. \A r \in present : color[r] # "white"
      BY <1>9, NoElements DEF Sorted, PlanInv, CoverInv
    <2>2. \A r \in Recipes : color[r] # "gray"
      <3>1. Len(stack) = 0
        BY <1>9 DEF Sorted
      <3>. QED
        BY <3>1 DEF PlanInv, SortInv, ColorInv
    <2>3. \A r \in present : color[r] = "black"
      BY <1>0, <2>1, <2>2 DEF PlanInv, SortInv, TypeOK
    <2>. QED
      BY <1>9, <2>3 DEF Sorted, CoverInv, PlanInv, SortInv, Phases, Listed, End
  <1>10. CASE Classify
    BY <1>10 DEF Classify, CoverInv, PlanInv, SortInv, Phases, Listed, End
  <1>11. CASE Planned
    BY <1>11 DEF Planned, CoverInv, PlanInv, SortInv, Phases, Listed, End
  <1>12. CASE UNCHANGED vars
    BY <1>12 DEF vars, CoverInv, PlanInv, Have, Listed
  <1>. QED
    BY <1>1, <1>2, <1>3, <1>4, <1>5, <1>6, <1>7, <1>8, <1>9, <1>10, <1>11, <1>12 DEF Next

LEMMA SortInvNext ==
    ASSUME PlanInv, [Next]_vars
    PROVE  SortInv'
  <1>1. CASE VisitRoot
    <2>1. \A i \in 1 .. Len(list) : list[i] \in present
      BY <1>1, ToSetFacts DEF VisitRoot, PlanInv, CoverInv, SortInv, TypeOK
    <2>. QED
      BY <1>1, <2>1, VisitRootKeepsSortInv DEF PlanInv
  <1>2. CASE UNCHANGED vars
    BY <1>2 DEF vars, input, resolving, sorting, PlanInv, SortInv, TypeOK, Phases, StackInv,
                FrameInv, ColorInv, OrderInv, CycleIsReal
  <1>. QED
    BY <1>1, <1>2, CallersKeepSortInv, VisitDepKeepsSortInv, FinishKeepsSortInv
       DEF Next, PlanInv

LEMMA PlanInvariant == Spec => []PlanInv
  <1>1. Init => PlanInv
    BY SortInvInit DEF Init, PlanInv, CoverInv
  <1>2. PlanInv /\ [Next]_vars => PlanInv'
    BY CoverInvNext, SortInvNext DEF PlanInv
  <1>. QED
    BY <1>1, <1>2, PTL DEF Spec

-----------------------------------------------------------------------------
(* The theorems *)

\* A call keeps its types; TopoSort puts out only recipes it was given.
THEOREM TypeCorrect == Spec => []TypeOK
  BY PlanInvariant, PTL DEF PlanInv, SortInv

\* TopoSort, for all manifests and lists: each recipe comes once, behind the
\* recipes of the set it depends on, and none of the set is left out.
THEOREM Topological == Spec => []OrderIsTopological
  <1>1. PlanInv => OrderIsTopological
    <2> SUFFICES ASSUME PlanInv PROVE OrderIsTopological
      OBVIOUS
    <2>1. ASSUME at \in {"classify", "end"}, result \in {"none", "ok"}
          PROVE  ToSet(order) = present
      <3>1. \A r \in present : r \in Recipes /\ color[r] = "black"
        BY <2>1 DEF PlanInv, CoverInv, SortInv, Phases, TypeOK
      <3>2. \A r \in present : \E i \in 1 .. Len(order) : order[i] = r
        BY <3>1 DEF PlanInv, SortInv, ColorInv
      <3>3. ToSet(order) = {order[i] : i \in 1 .. Len(order)} /\ ToSet(order) \subseteq present
        BY ToSetFacts DEF PlanInv, SortInv, TypeOK
      <3>. QED
        BY <3>2, <3>3
    <2>. QED
      BY <2>1 DEF OrderIsTopological, PlanInv, SortInv, OrderInv
  <1>. QED
    BY <1>1, PlanInvariant, PTL

\* The path a cycle error names is a cycle of depends edges.
THEOREM ReportedCycle == Spec => []CycleIsReal
  BY PlanInvariant, PTL DEF PlanInv, SortInv

-----------------------------------------------------------------------------
(* The plan *)

\* How much of the order planRecipes has gone through.
Through == Len(order) - Len(list)

\* While it goes through the order it keeps what is due, and what it keeps has
\* its dependencies kept or on record.
KeptInv ==
    /\ at = "classify" =>
         /\ Len(list) <= Len(order)
         /\ \A i \in 1 .. Len(list) : list[i] = order[Through + i]
         /\ \A r \in Recipes :
              r \in ToSet(kept) <=> Due(r) /\ \E i \in 1 .. Through : order[i] = r
         /\ \A r \in ToSet(kept) : \A d \in depends[r] : Met(d)
    /\ PlanIsReference

\* Which operators a step leaves alone.
LEMMA PlanInputs ==
    ASSUME UNCHANGED <<kind, explicit, names, depends>>
    PROVE  /\ \A r : Due(r)' = Due(r)
           /\ DueSet' = DueSet
           /\ kept' = kept => \A d : Met(d)' = Met(d)
  BY DEF Due, DueSet, Listed, Met

LEMMA ClassifyKeepsKeptInv ==
    ASSUME PlanInv, KeptInv, Classify
    PROVE  KeptInv'
  <1> DEFINE r == Head(list)
  <1>0. /\ at = "classify" /\ list # <<>> /\ list' = Tail(list) /\ result = "none"
        /\ call = "planRecipes" /\ present = Listed /\ UNCHANGED order
        /\ UNCHANGED <<kind, explicit, names, depends, call>>
    BY DEF Classify, PlanInv, SortInv, Phases, CoverInv, input, sorting
  <1>1. /\ list \in Seq(Recipes) /\ order \in Seq(present) /\ kept \in Seq(Recipes)
        /\ present \subseteq Recipes
    BY DEF PlanInv, SortInv, TypeOK
  <1>2. PICK n \in Nat, m \in Nat : n = Len(list) /\ n > 0 /\ m = Len(order) /\ n <= m
    <2>1. Len(list) \in Nat \ {0}
      BY <1>0, <1>1, EmptySeq
    <2>2. Len(order) \in Nat
      BY <1>1, LenProperties
    <2>. QED
      BY <1>0, <2>1, <2>2 DEF KeptInv
  <1>3. PICK k \in Nat : k = m - n /\ k + 1 <= m
    BY <1>2
  <1>4. Through = k /\ Through' = k + 1
    <2>1. Len(list') = n - 1
      BY <1>0, <1>1, <1>2, TailFacts
    <2>. QED
      BY <1>0, <1>2, <1>3, <2>1 DEF Through
  <1>5. /\ Len(list') = n - 1 /\ r = list[1] /\ r \in Recipes
        /\ \A i \in 1 .. n - 1 : list'[i] = list[i + 1]
    BY <1>0, <1>1, <1>2, TailFacts
  <1> HIDE DEF r
  <1>6. /\ \A i \in 1 .. n : list[i] = order[k + i]
        /\ \A q \in Recipes : q \in ToSet(kept) <=> Due(q) /\ \E i \in 1 .. k : order[i] = q
        /\ \A q \in ToSet(kept) : \A d \in depends[q] : Met(d)
    BY <1>0, <1>2, <1>4 DEF KeptInv
  <1>7. r = order[k + 1] /\ r \in present
    <2>1. r = order[k + 1]
      BY <1>2, <1>5, <1>6
    <2>. QED
      BY <1>1, <1>2, <1>3, <2>1, ElementOfSeq
  <1>8. Len(list') <= Len(order') /\ \A i \in 1 .. Len(list') : list'[i] = order'[k + 1 + i]
    <2>0. \A i \in 1 .. n - 1 : i + 1 \in 1 .. n
      BY <1>2
    <2>1. \A i \in 1 .. n - 1 : list[i + 1] = order[k + (i + 1)]
      BY <1>6, <2>0
    <2>. QED
      BY <1>0, <1>2, <1>3, <1>5, <2>1
  <1>9. \A q : (\E i \in 1 .. k + 1 : order[i] = q) <=> (\E i \in 1 .. k : order[i] = q) \/ q = r
    BY <1>7
  <1>10. /\ \A q : Due(q)' = Due(q)
         /\ DueSet' = DueSet
         /\ kept' = kept => \A d : Met(d)' = Met(d)
    BY <1>0, PlanInputs
  <1>11. CASE ~Due(r)
    <2>1. kept' = kept /\ result' = "none" /\ at' = "classify"
      BY <1>0, <1>11 DEF Classify, r
    <2>2. \A q \in Recipes :
             q \in ToSet(kept') <=> Due(q)' /\ \E i \in 1 .. Through' : order'[i] = q
      BY <1>0, <1>4, <1>6, <1>9, <1>10, <1>11, <2>1
    <2>3. \A q \in ToSet(kept') : \A d \in depends'[q] : Met(d)'
      BY <1>0, <1>6, <1>10, <2>1
    <2>4. PlanIsReference'
      BY <2>1 DEF PlanIsReference
    <2>. QED
      BY <1>4, <1>8, <2>2, <2>3, <2>4 DEF KeptInv
  <1>12. CASE Due(r) /\ \A d \in depends[r] : Met(d)
    <2>1. kept' = Append(kept, r) /\ result' = "none" /\ at' = "classify"
      BY <1>0, <1>12 DEF Classify, r
    <2>2. ToSet(kept') = ToSet(kept) \cup {r}
      BY <1>1, <1>5, <2>1, PushSet
    <2>3. \A q \in Recipes :
             q \in ToSet(kept') <=> Due(q)' /\ \E i \in 1 .. Through' : order'[i] = q
      BY <1>0, <1>4, <1>6, <1>9, <1>10, <1>12, <2>2
    <2>4. \A d : Met(d) => Met(d)'
      BY <1>0, <2>2 DEF Met
    <2>5. \A q \in ToSet(kept') : \A d \in depends'[q] : Met(d)'
      BY <1>0, <1>6, <1>12, <2>2, <2>4
    <2>6. PlanIsReference'
      BY <2>1 DEF PlanIsReference
    <2>. QED
      BY <1>4, <1>8, <2>3, <2>5, <2>6 DEF KeptInv
  <1>13. CASE Due(r) /\ \E d \in depends[r] : ~Met(d)
    <2>1. kept' = kept /\ result' = "unsatisfied" /\ at' = "end" /\ UNCHANGED kind
      BY <1>0, <1>13 DEF Classify, End, r
    <2>2. PICK d \in depends[r] : ~Met(d)
      BY <1>13
    <2>3. d \notin ToSet(kept) /\ kind[d].applied = "never"
      <3>1. d \in Recipes /\ kind[d].applied \in {"never", "same", "changed"}
        BY <1>5, InputAssumption DEF PlanInv, SortInv, TypeOK
      <3>. QED
        BY <2>2, <3>1 DEF Met
    <2>4. d \notin DueSet
      <3>1. SUFFICES ASSUME d \in present, Due(d) PROVE FALSE
        BY <1>0 DEF DueSet
      <3>2. PICK j \in 1 .. (k + 1) - 1 : order[j] = d
        BY <1>2, <1>3, <1>7, <3>1 DEF PlanInv, SortInv, OrderInv
      <3>. QED
        BY <1>1, <1>6, <2>3, <3>1, <3>2
    <2>5. r \in DueSet
      BY <1>0, <1>7, <1>13 DEF DueSet
    <2>. QED
      BY <1>0, <1>10, <2>1, <2>2, <2>3, <2>4, <2>5 DEF KeptInv, PlanIsReference
  <1>. QED
    BY <1>11, <1>12, <1>13

LEMMA KeptInvNext ==
    ASSUME PlanInv, KeptInv, [Next]_vars
    PROVE  KeptInv'
  <1>1. CASE Classify
    BY <1>1, ClassifyKeepsKeptInv
  <1>2. CASE Sorted
    <2>1. CASE call = "planRecipes"
      <3>1. /\ at' = "classify" /\ list' = order /\ order' = order /\ kept' = <<>>
            /\ result' = "none"
        BY <1>2, <2>1 DEF Sorted, PlanInv, SortInv, Phases, sorting
      <3>2. Len(order) \in Nat /\ Through' = 0 /\ ToSet(kept') = {}
        BY <3>1, LenProperties, NoElements DEF PlanInv, SortInv, TypeOK, Through
      <3>. QED
        BY <3>1, <3>2 DEF KeptInv, PlanIsReference
    <2>2. CASE call # "planRecipes"
      BY <1>2, <2>2 DEF Sorted, End, input, KeptInv, PlanIsReference
    <2>. QED
      BY <2>1, <2>2
  <1>3. CASE Planned
    <2>1. /\ at = "classify" /\ list = <<>> /\ result' = "ok" /\ at' = "end" /\ kept' = kept
          /\ present = Listed /\ present \subseteq Recipes
          /\ UNCHANGED <<kind, explicit, names, depends>>
      BY <1>3 DEF Planned, End, PlanInv, SortInv, TypeOK, Phases, CoverInv, input
    <2>2. Through = Len(order) /\ Len(order) \in Nat
      BY <2>1, LenProperties DEF Through, PlanInv, SortInv, TypeOK
    <2>3. \A q \in present : \E i \in 1 .. Len(order) : order[i] = q
      BY <2>1 DEF PlanInv, SortInv, CoverInv, ColorInv
    <2>4. \A i \in 1 .. Len(order) : order[i] \in present
      BY ElementOfSeq DEF PlanInv, SortInv, TypeOK
    <2>5. ToSet(kept) \subseteq Recipes
      BY ToSetFacts DEF PlanInv, SortInv, TypeOK
    <2>6. ToSet(kept) = DueSet
      BY <2>1, <2>2, <2>3, <2>4, <2>5 DEF KeptInv, DueSet
    <2>7. \A q \in DueSet : \A d \in depends[q] : d \in DueSet \/ kind[d].applied # "never"
      BY <2>1, <2>6 DEF KeptInv, Met
    <2>8. DueSet' = DueSet
      BY <2>1, PlanInputs
    <2>. QED
      BY <2>1, <2>6, <2>7, <2>8 DEF KeptInv, PlanIsReference
  <1>4. CASE \/ LoadManifests \/ ResolveDependencies \/ ResolveNext
             \/ \E d \in Recipes : ResolveDep(d)
             \/ ResolveSort \/ VisitRoot
             \/ \E d \in Recipes : VisitDep(d)
             \/ Finish
    <2>1. at' # "classify" /\ result' \notin {"ok", "unsatisfied"}
      BY <1>4 DEF LoadManifests, ResolveDependencies, ResolveNext, ResolveDep, ResolveSort,
                  VisitRoot, VisitDep, Finish, End, PlanInv, SortInv, Phases
    <2>. QED
      BY <2>1 DEF KeptInv, PlanIsReference
  <1>5. CASE UNCHANGED vars
    <2>1. UNCHANGED <<kind, explicit, names, depends, call, at, result, list, order, kept>>
      BY <1>5 DEF vars, input, sorting
    <2>2. /\ \A r : Due(r)' = Due(r)
          /\ DueSet' = DueSet
          /\ \A d : Met(d)' = Met(d)
      BY <2>1, PlanInputs
    <2>3. PlanIsReference'
      BY <2>1, <2>2 DEF KeptInv, PlanIsReference
    <2>. QED
      BY <2>1, <2>2, <2>3 DEF KeptInv, Through
  <1>. QED
    BY <1>1, <1>2, <1>3, <1>4, <1>5 DEF Next

\* planRecipes' one pass over the order decides what the definitions over the
\* whole set say: it runs the recipes that are due, and refuses the list exactly
\* when one of them lacks a dependency.
THEOREM PlanDecidesTheSet == Spec => []PlanIsReference
  <1>1. Init => KeptInv
    BY DEF Init, KeptInv, PlanIsReference
  <1>2. PlanInv /\ KeptInv /\ [Next]_vars => KeptInv'
    BY KeptInvNext
  <1>3. KeptInv => PlanIsReference
    BY DEF KeptInv
  <1>. QED
    BY <1>1, <1>2, <1>3, PlanInvariant, PTL DEF Spec
-----------------------------------------------------------------------------
(* ResolveDependencies *)

\* A set of recipes with everything its members depend on.
ClosedSet(S) == \A r \in S : depends[r] \subseteq S

\* What is added is new when it is added.
AddedInv ==
    /\ \A i, j \in 1 .. Len(added) : added[i][1] = added[j][1] => i = j
    /\ \A i \in 1 .. Len(added) : added[i][1] \notin Listed

\* The recipe looked at has been loaded, and of those loaded only it may miss
\* some of its dependencies: the ones not yet gone through.
ReachInv ==
    /\ todo # {} => cur \in present /\ todo \subseteq depends[cur]
    /\ \A r \in present : \A d \in depends[r] : d \in Have \/ (r = cur /\ d \in todo)

\* Whatever closed set the list lies in, nothing outside it is added.
LeastInv ==
    \A S \in SUBSET Recipes : Listed \subseteq S /\ ClosedSet(S) => Have \subseteq S

ClosureInv ==
    /\ AddedInv /\ LeastInv
    /\ at = "resolve" => ReachInv
    /\ call = "ResolveDependencies" /\ at \in {"sort", "end"} /\ result # "refused" =>
         ClosedSet(Have)

\* One recipe more.
LEMMA AddedSet ==
    ASSUME PlanInv, NEW d \in Recipes, NEW c \in Recipes,
           UNCHANGED names, added' = Append(added, <<d, c>>)
    PROVE  Have' = Have \cup {d}
  <1>1. added \in Seq(Recipes \X Recipes) /\ <<d, c>> \in Recipes \X Recipes
    BY DEF PlanInv, SortInv, TypeOK
  <1>2. ToSet(added') = ToSet(added) \cup {<<d, c>>}
    BY <1>1, PushSet
  <1>. QED
    BY <1>2 DEF Have, Listed

LEMMA ClosureInvNext ==
    ASSUME PlanInv, ClosureInv, [Next]_vars
    PROVE  ClosureInv'
  <1> USE DEF input, resolving, sorting
  <1>0. /\ added \in Seq(Recipes \X Recipes) /\ present \subseteq Recipes
        /\ queue \in Seq(Recipes)
        /\ \A r \in Recipes : depends[r] \subseteq Recipes
        /\ depends' = depends /\ names' = names /\ call' = call
    BY InputAssumption DEF PlanInv, SortInv, TypeOK, vars, Next, LoadManifests, ResolveDependencies,
         ResolveNext, ResolveDep, ResolveSort, VisitRoot, VisitDep, Finish, Sorted, Classify, Planned
  <1>1. Listed' = Listed /\ \A S : ClosedSet(S)' = ClosedSet(S)
    BY <1>0 DEF Listed, ClosedSet
  <1>2. ASSUME added' = added
        PROVE  Have' = Have /\ AddedInv' /\ LeastInv'
    <2>1. Have' = Have
      BY <1>0, <1>1, <1>2 DEF Have
    <2>2. AddedInv'
      BY <1>1, <1>2 DEF ClosureInv, AddedInv
    <2>. QED
      BY <1>1, <2>1, <2>2 DEF ClosureInv, LeastInv
  <1>3. CASE ResolveDependencies
    <2>1. added' = added /\ present' = {} /\ todo' = {} /\ at' = "resolve"
      BY <1>3 DEF ResolveDependencies, PlanInv, SortInv, Phases
    <2>. QED
      BY <1>2, <2>1 DEF ClosureInv, ReachInv
  <1>4. CASE ResolveNext
    <2>1. /\ at = "resolve" /\ todo = {} /\ added' = added /\ at' \in {"resolve", "end"}
          /\ at' = "end" => result' = "refused"
      BY <1>4 DEF ResolveNext, End
    <2>2. \/ UNCHANGED <<cur, todo, present>>
          \/ \E h : /\ present' = present \cup {h}
                    /\ cur' = h /\ todo' = depends[h]
      BY <1>4 DEF ResolveNext
    <2>3. ReachInv
      BY <2>1 DEF ClosureInv
    <2>4. ReachInv'
      <3>1. CASE UNCHANGED <<cur, todo, present>>
        BY <1>0, <1>2, <2>1, <2>3, <3>1 DEF ReachInv
      <3>2. ASSUME NEW h, present' = present \cup {h}, cur' = h, todo' = depends[h]
            PROVE  ReachInv'
        BY <1>0, <1>2, <2>1, <2>3, <3>2 DEF ReachInv
      <3>. QED
        BY <2>2, <3>1, <3>2
    <2>. QED
      BY <1>2, <2>1, <2>4 DEF ClosureInv
  <1>5. ASSUME NEW d \in Recipes, ResolveDep(d) PROVE ClosureInv'
    <2>1. /\ at = "resolve" /\ d \in todo /\ present' = present /\ cur' = cur
          /\ cur \in present /\ d \in depends[cur] /\ cur \in Recipes
          /\ ReachInv
      BY <1>0, <1>5 DEF ResolveDep, ClosureInv, ReachInv
    <2>2. CASE d \notin Have \cup (catalog.known \cap catalog.fits)
      <3>1. added' = added /\ at' = "end" /\ result' = "refused"
        BY <1>5, <2>2 DEF ResolveDep, End
      <3>. QED
        BY <1>2, <3>1 DEF ClosureInv
    <2>3. CASE d \in Have
      <3>1. added' = added /\ at' = "resolve" /\ todo' = todo \ {d}
        BY <1>5, <2>1, <2>3 DEF ResolveDep
      <3>2. ReachInv'
        BY <1>0, <1>2, <2>1, <2>3, <3>1 DEF ReachInv
      <3>. QED
        BY <1>2, <3>1, <3>2 DEF ClosureInv
    <2>4. CASE d \notin Have /\ d \in catalog.known \cap catalog.fits
      <3>1. added' = Append(added, <<d, cur>>) /\ at' = "resolve" /\ todo' = todo \ {d}
        BY <1>5, <2>1, <2>4 DEF ResolveDep
      <3>2. Have' = Have \cup {d}
        BY <1>0, <2>1, <3>1, AddedSet
      <3>3. ReachInv'
        BY <1>0, <2>1, <3>1, <3>2 DEF ReachInv
      <3>4. LeastInv'
        <4> SUFFICES ASSUME NEW S \in SUBSET Recipes, Listed \subseteq S, ClosedSet(S)
                     PROVE  Have' \subseteq S
          BY <1>1 DEF LeastInv
        <4>1. Have \subseteq S
          BY DEF ClosureInv, LeastInv
        <4>2. cur \in S
          BY <2>1, <4>1 DEF PlanInv, CoverInv
        <4>. QED
          BY <2>1, <3>2, <4>1, <4>2 DEF ClosedSet
      <3>5. AddedInv'
        <4>1. PICK n \in Nat : n = Len(added)
          BY <1>0, LenProperties
        <4>2. /\ Len(added') = n + 1
              /\ \A i \in 1 .. n : added'[i] = added[i]
              /\ added'[n + 1] = <<d, cur>>
          BY <1>0, <2>1, <3>1, <4>1, PushFacts
        <4>3. \A i \in 1 .. n + 1 : i \in 1 .. n \/ i = n + 1
          OBVIOUS
        <4>4. \A i \in 1 .. n : added[i] \in ToSet(added)
          BY <1>0, <4>1, ToSetFacts
        <4>5. \A i \in 1 .. n : added[i][1] \in Have
          BY <4>4 DEF Have
        <4>6. \A i \in 1 .. n : added[i][1] # d
          BY <2>4, <4>5
        <4>7. d \notin Listed
          BY <2>4 DEF Have
        <4>8. /\ \A i, j \in 1 .. n : added[i][1] = added[j][1] => i = j
              /\ \A i \in 1 .. n : added[i][1] \notin Listed
          BY <4>1 DEF ClosureInv, AddedInv
        <4>9. \A i \in 1 .. n + 1 : added'[i][1] \notin Listed
          BY <4>2, <4>3, <4>7, <4>8
        <4>10. \A i, j \in 1 .. n + 1 : added'[i][1] = added'[j][1] => i = j
          <5> TAKE i, j \in 1 .. n + 1
          <5>1. CASE i \in 1 .. n /\ j \in 1 .. n
            BY <4>2, <4>8, <5>1
          <5>2. CASE i = n + 1 /\ j \in 1 .. n
            BY <4>2, <4>6, <5>2
          <5>3. CASE i \in 1 .. n /\ j = n + 1
            BY <4>2, <4>6, <5>3
          <5>. QED
            BY <4>3, <5>1, <5>2, <5>3
        <4>. QED
          BY <1>1, <4>2, <4>9, <4>10 DEF AddedInv
      <3>. QED
        BY <3>1, <3>3, <3>4, <3>5 DEF ClosureInv
    <2>. QED
      BY <2>2, <2>3, <2>4
  <1>6. CASE ResolveSort
    <2>1. /\ at = "resolve" /\ todo = {} /\ queue = <<>> /\ added' = added /\ at' = "sort"
          /\ ReachInv
      BY <1>6 DEF ResolveSort, ClosureInv
    <2>2. Have \subseteq present
      BY <2>1, NoElements DEF PlanInv, CoverInv
    <2>3. ClosedSet(Have)
      BY <2>1, <2>2 DEF ReachInv, ClosedSet
    <2>. QED
      BY <1>1, <1>2, <2>1, <2>3 DEF ClosureInv
  <1>7. CASE \/ LoadManifests \/ VisitRoot \/ (\E d \in Recipes : VisitDep(d))
             \/ Finish \/ Sorted \/ Classify \/ Planned \/ UNCHANGED vars
    <2>1. /\ added' = added
          /\ at' = "resolve" => at = "resolve" /\ UNCHANGED <<present, cur, todo>>
          /\ call = "ResolveDependencies" /\ at' \in {"sort", "end"} /\ result' # "refused" =>
               at \in {"sort", "end"} /\ result # "refused"
      <3>1. CASE LoadManifests
        BY <3>1 DEF LoadManifests, End
      <3>2. CASE VisitRoot \/ (\E d \in Recipes : VisitDep(d)) \/ Finish \/ Sorted
        <4>1. at = "sort" /\ result # "refused" /\ added' = added /\ at' # "resolve"
          BY <3>2 DEF VisitRoot, VisitDep, Finish, Sorted, End, PlanInv, SortInv, Phases
        <4>. QED
          BY <4>1
      <3>3. CASE Classify \/ Planned
        <4>1. at = "classify" /\ added' = added /\ at' # "resolve" /\ call = "planRecipes"
          BY <3>3 DEF Classify, Planned, End, PlanInv, SortInv, Phases
        <4>. QED
          BY <4>1
      <3>4. CASE UNCHANGED vars
        BY <3>4 DEF vars
      <3>. QED
        BY <1>7, <3>1, <3>2, <3>3, <3>4
    <2>2. ReachInv /\ UNCHANGED <<present, cur, todo>> => ReachInv'
      BY <1>0, <1>2, <2>1 DEF ReachInv
    <2>. QED
      BY <1>0, <1>1, <1>2, <2>1, <2>2 DEF ClosureInv
  <1>. QED
    BY <1>3, <1>4, <1>5, <1>6, <1>7 DEF Next

\* The recipes ResolveDependencies hands back: the list with what it adds is the
\* smallest set that holds the list and every dependency of its members.
THEOREM ClosureIsLeast == Spec => []ResolveIsClosure
  <1>1. Init => ClosureInv
    <2> SUFFICES ASSUME Init PROVE ClosureInv
      OBVIOUS
    <2>1. added = <<>> /\ at = "start"
      BY DEF Init
    <2>2. Have = Listed /\ Len(added) = 0
      BY <2>1, NoElements DEF Have
    <2>. QED
      BY <2>1, <2>2 DEF ClosureInv, AddedInv, LeastInv
  <1>2. PlanInv /\ ClosureInv /\ [Next]_vars => ClosureInv'
    BY ClosureInvNext
  <1>3. PlanInv /\ ClosureInv => ResolveIsClosure
    <2> SUFFICES ASSUME PlanInv, ClosureInv, call = "ResolveDependencies", result = "ok"
                 PROVE  /\ ClosedSet(Have)
                        /\ \A S \in SUBSET Have : Listed \subseteq S /\ ClosedSet(S) => S = Have
                        /\ AddedInv
      BY DEF ResolveIsClosure, ClosedSet, AddedInv
    <2>1. at = "end"
      BY DEF PlanInv, SortInv, Phases
    <2>2. Have \subseteq Recipes
      <3>1. ToSet(added) \subseteq Recipes \X Recipes /\ ToSet(names) \subseteq Recipes
        BY ToSetFacts, InputAssumption DEF PlanInv, SortInv, TypeOK
      <3>. QED
        BY <3>1 DEF Have, Listed
    <2>. QED
      BY <2>1, <2>2 DEF ClosureInv, LeastInv
  <1>. QED
    BY <1>1, <1>2, <1>3, PlanInvariant, PTL DEF Spec

-----------------------------------------------------------------------------
(* The artifacts of a publication *)

AnyContent == UNION {Content(t) : t \in Targets}

\* What a scope may have.
Holdings == {d \in [Targets -> AnyContent] : \A t \in Targets : d[t] \in Content(t)}

Artifact == {a \in [target : Targets, new : AnyContent] : a.new \in Content(a.target)}

\* A lists the artifacts of S, each once and no two with one target.
Enumerates(A, S) ==
    /\ A \in Seq(S)
    /\ \A a \in S : \E i \in 1 .. Len(A) : A[i] = a
    /\ \A i, k \in 1 .. Len(A) : A[i].target = A[k].target => i = k

ArtsAt(tree, R) == {Art(r, tree[r]) : r \in R}

LEMMA ListsNone == Enumerates(<<>>, {})
  <1>1. <<>> \in Seq({}) /\ Len(<<>>) = 0
    OBVIOUS
  <1> QED
    BY <1>1 DEF Enumerates

LEMMA ListsOne == ASSUME NEW a PROVE Enumerates(<<a>>, {a})
  <1>1. <<a>> \in Seq({a}) /\ Len(<<a>>) = 1 /\ <<a>>[1] = a
    OBVIOUS
  <1> QED
    BY <1>1 DEF Enumerates

LEMMA ListsConcat ==
    ASSUME NEW A, NEW S, Enumerates(A, S), NEW B, NEW T, Enumerates(B, T),
           \A a \in S, b \in T : a.target # b.target
    PROVE  Enumerates(A \o B, S \cup T)
  <1>1. A \in Seq(S \cup T) /\ B \in Seq(S \cup T)
    BY SeqMonotonic DEF Enumerates
  <1>2. PICK m \in Nat, n \in Nat : m = Len(A) /\ n = Len(B)
    BY <1>1
  <1>3. /\ A \o B \in Seq(S \cup T) /\ Len(A \o B) = m + n
        /\ \A i \in 1 .. m + n : (A \o B)[i] = IF i <= m THEN A[i] ELSE B[i - m]
    BY <1>1, <1>2, ConcatProperties
  <1>4. /\ \A i \in 1 .. m : A[i] \in S
        /\ \A i \in 1 .. n : B[i] \in T
    BY <1>2 DEF Enumerates
  <1>5. \A i \in 1 .. m : i \in 1 .. m + n /\ (A \o B)[i] = A[i]
    BY <1>3
  <1>6. \A i \in 1 .. n : m + i \in 1 .. m + n /\ (A \o B)[m + i] = B[i]
    BY <1>3
  <1>7. ASSUME NEW a \in S \cup T
        PROVE  \E i \in 1 .. m + n : (A \o B)[i] = a
    <2>1. CASE a \in S
      <3>1. PICK i \in 1 .. m : A[i] = a
        BY <1>2, <2>1 DEF Enumerates
      <3> QED
        BY <1>5, <3>1
    <2>2. CASE a \in T
      <3>1. PICK i \in 1 .. n : B[i] = a
        BY <1>2, <2>2 DEF Enumerates
      <3> QED
        BY <1>6, <3>1
    <2> QED
      BY <2>1, <2>2
  <1>8. ASSUME NEW i \in 1 .. m + n, NEW k \in 1 .. m + n,
               (A \o B)[i].target = (A \o B)[k].target
        PROVE  i = k
    <2>1. CASE i <= m /\ k <= m
      BY <1>2, <1>3, <1>8, <2>1 DEF Enumerates
    <2>2. CASE i > m /\ k > m
      <3>0. i - m \in 1 .. n /\ k - m \in 1 .. n /\ ~(i <= m) /\ ~(k <= m)
        BY <2>2
      <3>1. i - m \in 1 .. n /\ k - m \in 1 .. n /\ B[i - m].target = B[k - m].target
        BY <1>3, <1>8, <3>0
      <3>2. i - m = k - m
        BY <1>2, <3>1 DEF Enumerates
      <3> QED
        BY <3>2
    <2>3. CASE i <= m /\ k > m
      <3>0. i \in 1 .. m /\ k - m \in 1 .. n /\ m + (k - m) = k
        BY <1>2, <2>3
      <3>1. (A \o B)[i] = A[i] /\ (A \o B)[k] = B[k - m]
        BY <1>5, <1>6, <3>0
      <3>2. A[i].target = B[k - m].target
        BY <1>8, <3>1
      <3> QED
        BY <1>4, <3>0, <3>2
    <2>4. CASE i > m /\ k <= m
      <3>1. k \in 1 .. m /\ i - m \in 1 .. n /\ B[i - m].target = A[k].target
        BY <1>3, <1>8, <2>4
      <3> QED
        BY <1>4, <3>1
    <2> QED
      BY <2>1, <2>2, <2>3, <2>4
  <1> QED
    BY <1>3, <1>7, <1>8 DEF Enumerates

LEMMA ListsAppend ==
    ASSUME NEW A, NEW S, Enumerates(A, S), NEW b, \A a \in S : a.target # b.target
    PROVE  Enumerates(Append(A, b), S \cup {b})
  <1>1. Enumerates(A \o <<b>>, S \cup {b})
    BY ListsConcat, ListsOne
  <1>2. Append(A, b) = A \o <<b>>
    <2>1. A \in Seq(S \cup {b}) /\ b \in S \cup {b}
      BY SeqMonotonic DEF Enumerates
    <2> QED
      BY <2>1, AppendIsConcat
  <1> QED
    BY <1>1, <1>2

\* Order names each package once.
LEMMA OrderFacts ==
    /\ Len(Order) \in Nat
    /\ \A k \in 1 .. Len(Order) : Order[k] \in Packages
    /\ \A r \in Packages : \E k \in 1 .. Len(Order) : Order[k] = r
    /\ \A i, k \in 1 .. Len(Order) : Order[i] = Order[k] => i = k
  <1>1. Order \in Seq(Packages) /\ Len(Order) \in Nat
    BY OrderAssumption
  <1>2. DOMAIN Order = 1 .. Len(Order) /\ {Order[k] : k \in DOMAIN Order} = Packages
    BY <1>1, OrderAssumption DEF ToSet
  <1> QED
    BY <1>1, <1>2, OrderAssumption DEF IsInjective

\* A nonempty set of numbers has a least element.
LEMMA LeastOf ==
    ASSUME NEW S \in SUBSET Nat, S # {}
    PROVE  \E m \in S : \A y \in S : m <= y
  <1>1. PICK x \in S : \A y \in S : ~(<<y, x>> \in OpToRel(<, Nat))
    BY NatLessThanWellFounded, WFMin, Zenon
  <1>2. \A y \in S : ~(y < x)
    BY <1>1, Zenon DEF OpToRel
  <1> QED
    BY <1>2

\* f is the function ArtsOf defines, as far as m.
Unfolds(tree, f, m) ==
    f = [k \in 0 .. m |->
           IF k = 0 THEN <<>>
           ELSE IF Order[k] \in DOMAIN tree THEN Append(f[k - 1], Art(Order[k], tree[Order[k]]))
           ELSE f[k - 1]]

LEMMA ArtsIs ==
    ASSUME NEW tree
    PROVE  ArtsOf(tree) = (CHOOSE f : Unfolds(tree, f, Len(Order)))[Len(Order)]
  BY Zenon DEF ArtsOf, Unfolds

LEMMA UnfoldExtends ==
    ASSUME NEW tree, NEW k \in Nat, NEW f, Unfolds(tree, f, k)
    PROVE  \E g : Unfolds(tree, g, k + 1)
  <1> DEFINE next(x) == IF Order[k + 1] \in DOMAIN tree
                        THEN Append(x, Art(Order[k + 1], tree[Order[k + 1]])) ELSE x
             g == [i \in 0 .. k + 1 |-> IF i = k + 1 THEN next(f[k]) ELSE f[i]]
             rhs == [i \in 0 .. k + 1 |->
                       IF i = 0 THEN <<>>
                       ELSE IF Order[i] \in DOMAIN tree
                            THEN Append(g[i - 1], Art(Order[i], tree[Order[i]]))
                            ELSE g[i - 1]]
  <1>1. ASSUME NEW i \in 0 .. k + 1 PROVE g[i] = rhs[i]
    <2>1. CASE i = k + 1
      <3>1. i # 0 /\ i - 1 = k /\ k \in 0 .. k + 1 /\ k # k + 1
        BY <2>1
      <3>2. g[i] = next(f[k]) /\ g[k] = f[k]
        BY <2>1, <3>1
      <3>3. rhs[i] = IF Order[i] \in DOMAIN tree
                     THEN Append(g[k], Art(Order[i], tree[Order[i]])) ELSE g[k]
        BY <3>1, Zenon
      <3> QED
        BY <2>1, <3>2, <3>3
    <2>2. CASE i # k + 1 /\ i # 0
      <3>1. i \in 0 .. k /\ i - 1 \in 0 .. k + 1 /\ i - 1 # k + 1
        BY <2>2
      <3>2. g[i] = f[i] /\ g[i - 1] = f[i - 1]
        BY <2>2, <3>1
      <3>3. f[i] = IF Order[i] \in DOMAIN tree
                   THEN Append(f[i - 1], Art(Order[i], tree[Order[i]])) ELSE f[i - 1]
        BY <2>2, <3>1 DEF Unfolds
      <3>4. rhs[i] = IF Order[i] \in DOMAIN tree
                     THEN Append(g[i - 1], Art(Order[i], tree[Order[i]])) ELSE g[i - 1]
        BY <2>2, Zenon
      <3> QED
        BY <3>2, <3>3, <3>4
    <2>3. CASE i = 0
      <3>1. 0 \in 0 .. k /\ 0 # k + 1
        OBVIOUS
      <3>2. f[0] = <<>>
        BY <3>1 DEF Unfolds
      <3> QED
        BY <2>3, <3>1, <3>2
    <2> QED
      BY <2>1, <2>2, <2>3
  <1>2. DOMAIN g = 0 .. k + 1 /\ DOMAIN rhs = 0 .. k + 1
    OBVIOUS
  <1>3. g = [i \in 0 .. k + 1 |-> g[i]] /\ rhs = [i \in 0 .. k + 1 |-> rhs[i]]
    OBVIOUS
  <1>4. g = rhs
    <2> HIDE DEF g, rhs
    <2> QED
      BY <1>1, <1>3
  <1>5. Unfolds(tree, g, k + 1)
    BY <1>4 DEF Unfolds
  <1> QED
    BY <1>5

LEMMA UnfoldExists ==
    ASSUME NEW tree, NEW n \in Nat
    PROVE  \E f : Unfolds(tree, f, n)
  <1> DEFINE Bad == {k \in Nat : ~\E f : Unfolds(tree, f, k)}
  <1>1. ASSUME Bad # {} PROVE FALSE
    <2>1. PICK k \in Bad : \A y \in Bad : k <= y
      BY <1>1, LeastOf
    <2>2. CASE k = 0
      <3>1. \A i \in 0 .. 0 : i = 0
        OBVIOUS
      <3>2. Unfolds(tree, [i \in 0 .. 0 |-> <<>>], 0)
        BY <3>1 DEF Unfolds
      <3> QED
        BY <2>2, <3>2
    <2>3. CASE k # 0
      <3>1. k - 1 \in Nat /\ ~(k <= k - 1) /\ (k - 1) + 1 = k
        BY <2>3
      <3>2. k - 1 \notin Bad
        BY <2>1, <3>1
      <3>3. PICK f : Unfolds(tree, f, k - 1)
        BY <3>1, <3>2
      <3>4. \E g : Unfolds(tree, g, (k - 1) + 1)
        BY <3>1, <3>3, UnfoldExtends
      <3> QED
        BY <2>1, <3>1, <3>4
    <2> QED
      BY <2>2, <2>3
  <1> QED
    BY <1>1

\* The packages of tree among the first k of Order.
Upto(tree, k) == {r \in DOMAIN tree : \E i \in 1 .. k : Order[i] = r}

\* The artifacts as far as k are those of the packages as far as k.
ListsUpto(tree, f, k) == Enumerates(f[k], ArtsAt(tree, Upto(tree, k)))

LEMMA UnfoldStep ==
    ASSUME NEW tree, DOMAIN tree \subseteq Packages,
           NEW m \in Nat, m = Len(Order), NEW f, Unfolds(tree, f, m),
           NEW k \in Nat, k + 1 <= m, ListsUpto(tree, f, k)
    PROVE  ListsUpto(tree, f, k + 1)
  <1>1. k + 1 \in 0 .. m /\ k + 1 # 0 /\ (k + 1) - 1 = k /\ k + 1 \in 1 .. m
    OBVIOUS
  <1>2. f[k + 1] = IF Order[k + 1] \in DOMAIN tree
                   THEN Append(f[k], Art(Order[k + 1], tree[Order[k + 1]])) ELSE f[k]
    BY <1>1 DEF Unfolds
  <1>3. \A i \in 1 .. k + 1 : i \in 1 .. k \/ i = k + 1
    OBVIOUS
  <1>4. \A i \in 1 .. k : i \in 1 .. k + 1 /\ i \in 1 .. m /\ i # k + 1
    OBVIOUS
  <1>5. k + 1 \in 1 .. k + 1
    OBVIOUS
  <1>6. CASE Order[k + 1] \in DOMAIN tree
    <2> DEFINE r == Order[k + 1]
    <2>1. Upto(tree, k + 1) = Upto(tree, k) \cup {r}
      BY <1>3, <1>4, <1>5, <1>6 DEF Upto
    <2>2. r \notin Upto(tree, k)
      BY <1>1, <1>4, OrderFacts DEF Upto
    <2>3. ArtsAt(tree, Upto(tree, k + 1)) = ArtsAt(tree, Upto(tree, k)) \cup {Art(r, tree[r])}
      BY <2>1 DEF ArtsAt
    <2>4. \A a \in ArtsAt(tree, Upto(tree, k)) : a.target # Art(r, tree[r]).target
      BY <2>2 DEF ArtsAt, Art
    <2>5. Enumerates(Append(f[k], Art(r, tree[r])), ArtsAt(tree, Upto(tree, k)) \cup {Art(r, tree[r])})
      BY <2>4, ListsAppend DEF ListsUpto
    <2> QED
      BY <1>2, <1>6, <2>3, <2>5 DEF ListsUpto
  <1>7. CASE Order[k + 1] \notin DOMAIN tree
    <2>1. Upto(tree, k + 1) = Upto(tree, k)
      BY <1>3, <1>4, <1>7 DEF Upto
    <2> QED
      BY <1>2, <1>7, <2>1 DEF ListsUpto
  <1> QED
    BY <1>6, <1>7

LEMMA ArtsOfLists ==
    ASSUME NEW tree, DOMAIN tree \subseteq Packages
    PROVE  Enumerates(ArtsOf(tree), ArtsAt(tree, DOMAIN tree))
  <1>1. PICK m \in Nat : m = Len(Order)
    BY OrderFacts
  <1>2. PICK f : Unfolds(tree, f, m) /\ ArtsOf(tree) = f[m]
    <2>1. \E f : Unfolds(tree, f, m)
      BY UnfoldExists
    <2>2. Unfolds(tree, CHOOSE f : Unfolds(tree, f, m), m)
      BY <2>1
    <2> QED
      BY <1>1, <2>2, ArtsIs
  <1> DEFINE Bad == {k \in Nat : k <= m /\ ~ListsUpto(tree, f, k)}
  <1>3. ASSUME Bad # {} PROVE FALSE
    <2>1. PICK k \in Bad : \A y \in Bad : k <= y
      BY <1>3, LeastOf
    <2>2. CASE k = 0
      <3>1. 0 \in 0 .. m /\ 1 .. 0 = {}
        OBVIOUS
      <3>2. f[0] = <<>>
        BY <1>2, <3>1 DEF Unfolds
      <3>3. ArtsAt(tree, Upto(tree, 0)) = {}
        BY <3>1 DEF ArtsAt, Upto
      <3> QED
        BY <2>1, <2>2, <3>2, <3>3, ListsNone DEF ListsUpto
    <2>3. CASE k # 0
      <3>1. k - 1 \in Nat /\ ~(k <= k - 1) /\ (k - 1) + 1 = k /\ k - 1 <= m /\ k <= m
        BY <2>3
      <3>2. ListsUpto(tree, f, k - 1)
        BY <2>1, <3>1
      <3>3. ListsUpto(tree, f, (k - 1) + 1)
        BY <1>1, <1>2, <3>1, <3>2, UnfoldStep
      <3> QED
        BY <2>1, <3>1, <3>3
    <2> QED
      BY <2>2, <2>3
  <1>4. ListsUpto(tree, f, m)
    BY <1>3
  <1>5. Upto(tree, m) = DOMAIN tree
    BY <1>1, OrderFacts DEF Upto
  <1> QED
    BY <1>2, <1>4, <1>5 DEF ListsUpto

-----------------------------------------------------------------------------
(* Types *)

Moving == {"backup", "install", "undo", "restore", "sweep"}
Replies == {"none", "ok", "error", "leftover", "torn"}

Job == [op : Ops \cup {"none"}, scope : Scopes, names : SUBSET Packages, ref : Refs \cup {None},
        force : BOOLEAN, want : Seq(Scopes), before : Holdings, arts : Seq(Artifact), n : Nat,
        old : Holdings, torn : BOOLEAN, swept : BOOLEAN]

\* Where a process is with its artifacts, and what its step takes for granted.
Shaped(step, j) ==
    /\ j.n \in 1 .. Len(j.arts) + 1
    /\ step \in {"backup", "install", "undo", "restore"} => j.n <= Len(j.arts)
    /\ step \notin Moving \cup {"snapshot"} => j.n = 1 /\ ~j.torn
    /\ step \notin Moving => j.old = Nothing
    /\ j.scope = "global" =>
          \A i \in 1 .. Len(j.arts) : j.arts[i].target \notin {"toml", "ignore"}
    /\ step \in {"lookup", "indexed"} => j.want # <<>> \/ j.op = "SearchIndex"
    /\ step = "wait" => j.want # <<>>
    /\ j.op \in {"Add", "Remove"} => \E r \in Packages : j.names = {r}
    /\ j.op = "Add" => j.ref \in Refs
    /\ j.op = "RepairSnapshot" => j.scope = "project"
DiskOK ==
    /\ disk \in [Scopes -> Holdings]
    /\ disk["global"]["toml"] = None /\ disk["global"]["ignore"] = None

LocksOK ==
    /\ excl \in [Scopes -> Procs \cup {NoProc}]
    /\ shared \in [Scopes -> SUBSET Procs]
    /\ \A s \in Scopes : excl[s] # NoProc => shared[s] = {}
    /\ ilock \in Procs \cup {NoProc}

ProcsOK ==
    /\ pc \in [Procs -> Steps]
    /\ job \in [Procs -> Job]
    /\ reply \in [Procs -> Replies]
    /\ \A p \in Procs : Shaped(pc[p], job[p])

RestOK ==
    /\ junk \in [Scopes -> SUBSET Packages]
    /\ saved \in BOOLEAN
    /\ count \in [Bounded -> Nat]
    /\ \A b \in Bounded : count[b] <= Limit[b]

Typed == DiskOK /\ LocksOK /\ ProcsOK /\ RestOK

-----------------------------------------------------------------------------
(* What the files of a scope may hold *)

LEMMA ContentIs ==
    /\ Content("lock") = {None} \cup [Packages -> Entry \cup {None}]
    /\ Content("toml") = {None} \cup [Packages -> Refs \cup {None}]
    /\ Content("ignore") = {None, "stoat"}
    /\ \A r \in Packages : Content(r) = {None} \cup Tree
  BY NamesAssumption DEF Content, Files

LEMMA TargetsAre ==
    /\ "lock" \in Targets /\ "toml" \in Targets /\ "ignore" \in Targets
    /\ Packages \subseteq Targets
    /\ \A t \in Targets : t \in {"lock", "toml", "ignore"} \/ t \in Packages
    /\ \A t \in Targets : None \in Content(t) /\ Content(t) \subseteq AnyContent
    /\ "lock" \notin Packages /\ "toml" \notin Packages /\ "ignore" \notin Packages
  <1>1. \A t : None \in Content(t)
    BY DEF Content
  <1> QED
    BY <1>1, NamesAssumption DEF Targets, Files, AnyContent

LEMMA HoldingIs ==
    ASSUME NEW d \in Holdings
    PROVE  /\ DOMAIN d = Targets
           /\ \A t \in Targets : d[t] \in Content(t)
           /\ d["lock"] # None => d["lock"] \in [Packages -> Entry \cup {None}]
           /\ d["toml"] # None => d["toml"] \in [Packages -> Refs \cup {None}]
           /\ \A r \in Packages : d[r] # None => d[r] \in Tree
  <1>1. d \in [Targets -> AnyContent] /\ \A t \in Targets : d[t] \in Content(t)
    BY DEF Holdings
  <1> QED
    BY <1>1, ContentIs, TargetsAre

LEMMA HoldingEdit ==
    ASSUME NEW d \in Holdings, NEW t \in Targets, NEW v \in Content(t)
    PROVE  /\ [d EXCEPT ![t] = v] \in Holdings
           /\ [d EXCEPT ![t] = v][t] = v
           /\ \A u \in Targets \ {t} : [d EXCEPT ![t] = v][u] = d[u]
  BY TargetsAre DEF Holdings

LEMMA HoldingsEqual ==
    ASSUME NEW d \in Holdings, NEW e \in Holdings, \A t \in Targets : d[t] = e[t]
    PROVE  d = e
  BY DEF Holdings

LEMMA NothingIs == Nothing \in Holdings /\ \A t \in Targets : Nothing[t] = None
  BY TargetsAre DEF Nothing, Holdings

LEMMA NoPinsIs ==
    /\ NoPins \in [Packages -> Entry \cup {None}] /\ NoPins \in [Packages -> Refs \cup {None}]
    /\ \A r \in Packages : NoPins[r] = None
  BY DEF NoPins

LEMMA PinsAre ==
    ASSUME DiskOK, NEW s \in Scopes
    PROVE  /\ Pins(s) \in [Packages -> Entry \cup {None}]
           /\ Decls(s) \in [Packages -> Refs \cup {None}]
           /\ Pinned(s) \subseteq Packages
           /\ \A r \in Pinned(s) : Pins(s)[r] \in Entry
  <1>1. disk[s] \in Holdings
    BY DEF DiskOK
  <1>2. disk[s]["lock"] # None => disk[s]["lock"] \in [Packages -> Entry \cup {None}]
    BY <1>1, HoldingIs
  <1>3. disk[s]["toml"] # None => disk[s]["toml"] \in [Packages -> Refs \cup {None}]
    BY <1>1, HoldingIs
  <1>4. Pins(s) \in [Packages -> Entry \cup {None}]
    BY <1>2, NoPinsIs DEF Pins
  <1>5. Decls(s) \in [Packages -> Refs \cup {None}]
    BY <1>3, NoPinsIs DEF Decls
  <1> QED
    BY <1>4, <1>5 DEF Pinned

\* An edit of one file of a scope.
LEMMA DiskEdit ==
    ASSUME DiskOK, NEW s \in Scopes, NEW t \in Targets, NEW v \in Content(t),
           s = "global" => t \notin {"toml", "ignore"},
           disk' = [disk EXCEPT ![s][t] = v]
    PROVE  /\ DiskOK'
           /\ disk'[s] = [disk[s] EXCEPT ![t] = v]
           /\ \A x \in Scopes \ {s} : disk'[x] = disk[x]
  <1>1. disk \in [Scopes -> Holdings] /\ disk[s] \in Holdings
    BY DEF DiskOK
  <1>2. PICK d \in Holdings : d = [disk[s] EXCEPT ![t] = v]
    BY <1>1, HoldingEdit
  <1>3. disk' = [disk EXCEPT ![s] = d]
    BY <1>2
  <1>4. disk' \in [Scopes -> Holdings] /\ disk'[s] = d
        /\ \A x \in Scopes \ {s} : disk'[x] = disk[x]
    BY <1>1, <1>3
  <1>5. s = "global" => d["toml"] = disk[s]["toml"] /\ d["ignore"] = disk[s]["ignore"]
    BY <1>1, <1>2, HoldingEdit, TargetsAre
  <1>6. "global" \in Scopes
    BY DEF Scopes
  <1> QED
    BY <1>2, <1>4, <1>5, <1>6 DEF DiskOK

LEMMA DiskSame == ASSUME DiskOK, disk' = disk PROVE DiskOK'
  BY DEF DiskOK

-----------------------------------------------------------------------------
(* Steps, jobs and locks *)

LEMMA Empties ==
    /\ <<>> \in Seq(Artifact) /\ <<>> \in Seq(Scopes) /\ Len(<<>>) = 0
    /\ 1 .. Len(<<>>) = {}
  <1>1. <<>> \in Seq(Artifact) /\ <<>> \in Seq(Scopes) /\ Len(<<>>) = 0
    OBVIOUS
  <1> QED
    BY <1>1

LEMMA NoJobIs ==
    /\ NoJob \in Job
    /\ \A step \in {"idle"} : Shaped(step, NoJob)
  <1>1. NoJob \in Job
    BY Empties, NothingIs DEF NoJob, Job, Scopes
  <1>2. NoJob.n = 1 /\ NoJob.arts = <<>> /\ ~NoJob.torn /\ NoJob.old = Nothing /\ NoJob.op = "none"
    BY DEF NoJob
  <1> QED
    BY <1>1, <1>2, Empties DEF Shaped, Moving

\* One process moves on and the others stay where they are.
LEMMA Moves ==
    ASSUME ProcsOK, NEW p \in Procs, NEW step \in Steps, NEW j \in Job, Shaped(step, j),
           pc' = [pc EXCEPT ![p] = step], job' = [job EXCEPT ![p] = j],
           NEW r \in Replies, reply' = [reply EXCEPT ![p] = r]
    PROVE  ProcsOK'
  <1>1. pc' \in [Procs -> Steps] /\ job' \in [Procs -> Job] /\ reply' \in [Procs -> Replies]
    BY DEF ProcsOK
  <1>2. \A q \in Procs : IF q = p THEN pc'[q] = step /\ job'[q] = j
                         ELSE pc'[q] = pc[q] /\ job'[q] = job[q]
    BY DEF ProcsOK
  <1>3. \A q \in Procs : Shaped(pc'[q], job'[q])
    BY <1>2 DEF ProcsOK
  <1> QED
    BY <1>1, <1>3 DEF ProcsOK

LEMMA MovesQuietly ==
    ASSUME ProcsOK, NEW p \in Procs, NEW step \in Steps, NEW j \in Job, Shaped(step, j),
           pc' = [pc EXCEPT ![p] = step], job' = [job EXCEPT ![p] = j], reply' = reply
    PROVE  ProcsOK'
  <1>1. PICK r \in Replies : r = reply[p]
    BY DEF ProcsOK
  <1>2. reply' = [reply EXCEPT ![p] = r]
    BY <1>1 DEF ProcsOK
  <1> QED
    BY <1>2, Moves

LEMMA UnlockKeeps ==
    ASSUME LocksOK, NEW p \in Procs, Unlock(p)
    PROVE  /\ LocksOK'
           /\ \A s \in Scopes, q \in Procs \ {p} : excl[s] = q => excl'[s] = q
  <1>1. excl' \in [Scopes -> Procs \cup {NoProc}] /\ shared' \in [Scopes -> SUBSET Procs]
    BY DEF LocksOK, Unlock
  <1>2. ilock' \in Procs \cup {NoProc}
    BY DEF LocksOK, Unlock
  <1>3. \A s \in Scopes : excl'[s] # NoProc => excl[s] # NoProc
    BY DEF Unlock
  <1>4. \A s \in Scopes : shared[s] = {} => shared'[s] = {}
    BY DEF Unlock
  <1>5. \A s \in Scopes, q \in Procs \ {p} : excl[s] = q => excl'[s] = q
    BY DEF Unlock
  <1> QED
    BY <1>1, <1>2, <1>3, <1>4, <1>5 DEF LocksOK

LEMMA Returning ==
    ASSUME ProcsOK, LocksOK, NEW p \in Procs, NEW r \in Replies, Return(p, r)
    PROVE  ProcsOK' /\ LocksOK'
  <1>1. ProcsOK'
    BY NoJobIs, Moves DEF Return, Goto, Steps
  <1> QED
    BY <1>1, UnlockKeeps DEF Return

LEMMA LocksSame == ASSUME LocksOK, UNCHANGED lockVars PROVE LocksOK'
  BY DEF LocksOK, lockVars

LEMMA Spends ==
    ASSUME RestOK, NEW b \in Bounded, Spend(b)
    PROVE  /\ count' \in [Bounded -> Nat]
           /\ \A x \in Bounded : count'[x] <= Limit[x]
  <1>1. Limit \in [Bounded -> Nat]
    BY FaultAssumption
  <1>2. PICK m \in Nat, n \in Nat : m = count[b] /\ n = Limit[b]
    BY <1>1 DEF RestOK
  <1>3. m < n /\ count' = [count EXCEPT ![b] = m + 1]
    BY <1>2 DEF Spend
  <1>4. m + 1 \in Nat /\ m + 1 <= n
    BY <1>3
  <1> QED
    BY <1>2, <1>3, <1>4 DEF RestOK

LEMMA RestSame ==
    ASSUME RestOK, junk' = junk, saved' = saved,
           count' = count \/ \E b \in Bounded : Spend(b)
    PROVE  RestOK'
  <1>1. CASE count' = count
    BY <1>1 DEF RestOK
  <1>2. CASE \E b \in Bounded : Spend(b)
    BY <1>2, Spends DEF RestOK
  <1> QED
    BY <1>1, <1>2

LEMMA LeavesBackups ==
    ASSUME RestOK, ProcsOK, NEW p \in Procs, NEW old, LeaveBackups(p, old),
           count' = count \/ \E b \in Bounded : Spend(b)
    PROVE  RestOK'
  <1>1. job[p].scope \in Scopes
    BY DEF ProcsOK, Job
  <1>2. junk' \in [Scopes -> SUBSET Packages]
    BY <1>1 DEF RestOK, LeaveBackups
  <1>3. saved' \in BOOLEAN
    BY DEF RestOK, LeaveBackups
  <1>4. CASE count' = count
    BY <1>2, <1>3, <1>4 DEF RestOK
  <1>5. CASE \E b \in Bounded : Spend(b)
    BY <1>2, <1>3, <1>5, Spends DEF RestOK
  <1> QED
    BY <1>4, <1>5

-----------------------------------------------------------------------------
(* The initial states *)

LEMMA AddedIs ==
    ASSUME NEW s \in Scopes, NEW r \in Packages
    PROVE  /\ Added(s, r) \in Holdings
           /\ s = "global" => Added(s, r)["toml"] = None /\ Added(s, r)["ignore"] = None
  <1>1. PICK ref \in Refs : ref = CHOOSE v \in Refs : TRUE
    BY HoldingsAssumption
  <1>2. PICK c \in Commits : c = CHOOSE x \in Commits : TRUE
    BY HoldingsAssumption
  <1> DEFINE e == [ref |-> ref, commit |-> c]
             k == [commit |-> c, dirty |-> FALSE]
             l == [NoPins EXCEPT ![r] = e]
             d == [NoPins EXCEPT ![r] = ref]
  <1>3. e \in Entry /\ k \in Tree
    BY DEF Entry, Tree
  <1>4. l \in Content("lock") /\ d \in Content("toml") /\ k \in Content(r) /\ "stoat" \in Content("ignore")
    BY <1>3, NoPinsIs, ContentIs
  <1> DEFINE g == [Nothing EXCEPT !["lock"] = l, ![r] = k]
  <1>5. g \in Holdings /\ g["toml"] = None /\ g["ignore"] = None
    <2> HIDE DEF l, k, d
    <2>1. PICK h \in Holdings : h = [Nothing EXCEPT !["lock"] = l]
      BY <1>4, NothingIs, HoldingEdit, TargetsAre
    <2>2. h["toml"] = None /\ h["ignore"] = None
      BY <2>1, NothingIs, HoldingEdit, TargetsAre, <1>4
    <2>3. g = [h EXCEPT ![r] = k]
      BY <2>1
    <2>4. r \in Targets /\ "toml" \in Targets \ {r} /\ "ignore" \in Targets \ {r}
      BY TargetsAre
    <2>5. [h EXCEPT ![r] = k] \in Holdings
      BY <1>4, <2>4, HoldingEdit
    <2>6. [h EXCEPT ![r] = k]["toml"] = h["toml"] /\ [h EXCEPT ![r] = k]["ignore"] = h["ignore"]
      BY <1>4, <2>4, HoldingEdit
    <2> QED
      BY <2>2, <2>3, <2>5, <2>6
  <1>6. [g EXCEPT !["toml"] = d, !["ignore"] = "stoat"] \in Holdings
    <2> HIDE DEF g, d, l, k
    <2>1. PICK h \in Holdings : h = [g EXCEPT !["toml"] = d]
      BY <1>4, <1>5, HoldingEdit, TargetsAre
    <2>2. [g EXCEPT !["toml"] = d, !["ignore"] = "stoat"] = [h EXCEPT !["ignore"] = "stoat"]
      BY <2>1
    <2> QED
      BY <1>4, <2>2, HoldingEdit, TargetsAre
  <1>7. Added(s, r) = IF s = "global" THEN g ELSE [g EXCEPT !["toml"] = d, !["ignore"] = "stoat"]
    BY <1>1, <1>2 DEF Added
  <1> HIDE DEF g, d, l, k
  <1> QED
    BY <1>5, <1>6, <1>7

LEMMA StartsAre ==
    ASSUME NEW s \in Scopes, NEW d \in Starts(s)
    PROVE  d \in Holdings /\ (s = "global" => d["toml"] = None /\ d["ignore"] = None)
  <1>1. CASE d = Nothing
    BY <1>1, NothingIs, TargetsAre
  <1>2. CASE s # "global" /\ d = [Nothing EXCEPT !["toml"] = NoPins]
    BY <1>2, NothingIs, NoPinsIs, ContentIs, TargetsAre, HoldingEdit
  <1>3. CASE \E r \in Packages : d = Added(s, r)
    BY <1>3, AddedIs
  <1> QED
    BY <1>1, <1>2, <1>3 DEF Starts, Untouched

LEMMA InitTyped == PkgInit => Typed
  <1> SUFFICES ASSUME PkgInit PROVE Typed
    OBVIOUS
  <1>1. DiskOK
    <2>1. PICK x \in Starts("project"), y \in Starts("global") :
             disk = [s \in Scopes |-> IF s = "project" THEN x ELSE y]
      BY DEF PkgInit
    <2>2. x \in Holdings /\ y \in Holdings /\ y["toml"] = None /\ y["ignore"] = None
      BY StartsAre DEF Scopes
    <2> QED
      BY <2>1, <2>2 DEF DiskOK, Scopes
  <1>2. LocksOK
    BY DEF PkgInit, LocksOK
  <1>3. ProcsOK
    BY NoJobIs DEF PkgInit, ProcsOK, Steps, Replies
  <1>4. RestOK
    <2>1. \A b \in Bounded : Limit[b] \in Nat /\ count[b] = 0
      BY FaultAssumption DEF PkgInit
    <2>2. count \in [Bounded -> Nat] /\ \A b \in Bounded : count[b] <= Limit[b]
      BY <2>1 DEF PkgInit
    <2> QED
      BY <2>2 DEF PkgInit, RestOK
  <1> QED
    BY <1>1, <1>2, <1>3, <1>4 DEF Typed

-----------------------------------------------------------------------------
(* Every call starts with a job of the right shape *)

\* The job a call starts with.
Starting(o, s, ns, want) ==
    [NoJob EXCEPT !.op = o, !.scope = s, !.names = ns, !.want = want]

LEMMA StartingIs ==
    ASSUME NEW o \in Ops, NEW s \in Scopes, NEW ns \in SUBSET Packages, NEW want \in Seq(Scopes)
    PROVE  /\ Starting(o, s, ns, want) \in Job
           /\ Starting(o, s, ns, want).op = o
           /\ Starting(o, s, ns, want).scope = s
           /\ Starting(o, s, ns, want).names = ns
           /\ Starting(o, s, ns, want).want = want
           /\ Starting(o, s, ns, want).n = 1
           /\ ~Starting(o, s, ns, want).torn
           /\ Starting(o, s, ns, want).arts = <<>>
           /\ Starting(o, s, ns, want).old = Nothing
  <1>1. Starting(o, s, ns, want) \in Job
    BY NoJobIs DEF Starting, Job
  <1> QED
    BY <1>1 DEF Starting, NoJob

LEMMA BeginTyped ==
    ASSUME Typed, NEW p \in Procs, NEW o \in Ops \ {"Add"}, NEW s \in Scopes,
           NEW ns \in SUBSET Packages, NEW step \in {"lookup", "wait"}, NEW want \in Seq(Scopes),
           want # <<>> \/ (o = "SearchIndex" /\ step = "lookup"),
           o = "Remove" => \E r \in Packages : ns = {r},
           o = "RepairSnapshot" => s = "project",
           Begin(p, o, s, ns, step, want)
    PROVE  Typed'
  <1>1. PICK j \in Job : j = Starting(o, s, ns, want)
    BY StartingIs
  <1>2. /\ job' = [job EXCEPT ![p] = j] /\ pc' = [pc EXCEPT ![p] = step]
        /\ reply' = [reply EXCEPT ![p] = "none"] /\ step \in Steps
    BY <1>1 DEF Begin, Starting, Goto, Steps
  <1>3. Shaped(step, j)
    BY <1>1, StartingIs, Empties DEF Shaped, Moving
  <1>4. ProcsOK'
    BY <1>2, <1>3, Moves DEF Typed, Replies
  <1>5. DiskOK' /\ LocksOK' /\ RestOK'
    BY DiskSame, LocksSame, RestSame DEF Typed, Begin, diskVars, Bounded
  <1> QED
    BY <1>4, <1>5 DEF Typed

LEMMA AddTyped ==
    ASSUME Typed, NEW p \in Procs, NEW g \in BOOLEAN, NEW r \in Packages, NEW ref \in Refs,
           NEW f \in BOOLEAN, NEW step \in {"lookup", "wait"}, Add(p, g, r, ref, f, step)
    PROVE  Typed'
  <1>1. PICK s \in Scopes : s = ScopeFor(g)
    BY DEF ScopeFor, Scopes
  <1>2. <<s>> \in Seq(Scopes) /\ <<s>> # <<>> /\ {r} \in SUBSET Packages /\ "Add" \in Ops
    BY DEF Ops
  <1>2a. PICK n \in SUBSET Packages, w \in Seq(Scopes) : n = {r} /\ w = <<s>>
    BY <1>2
  <1>3. PICK i \in Job : i = Starting("Add", s, n, w)
    BY <1>2, StartingIs
  <1>4. /\ i.op = "Add" /\ i.names = {r} /\ i.want = <<s>>
        /\ i.n = 1 /\ ~i.torn /\ i.arts = <<>> /\ i.old = Nothing
    <2>1. /\ i.op = "Add" /\ i.names = n /\ i.want = w
          /\ i.n = 1 /\ ~i.torn /\ i.arts = <<>> /\ i.old = Nothing
      BY <1>2, <1>3, StartingIs
    <2> QED
      BY <1>2a, <2>1
  <1>5. PICK j \in Job : j = [i EXCEPT !.ref = ref, !.force = f]
    BY DEF Job
  <1>6. /\ j.op = "Add" /\ j.names = {r} /\ j.want = <<s>> /\ j.ref = ref
        /\ j.n = 1 /\ ~j.torn /\ j.arts = <<>> /\ j.old = Nothing
    BY <1>4, <1>5 DEF Job
  <1>7. j = [NoJob EXCEPT !.op = "Add", !.scope = s, !.names = {r}, !.ref = ref,
                          !.force = f, !.want = <<s>>]
    BY <1>2a, <1>3, <1>5 DEF Starting, NoJob
  <1>8. /\ job' = [job EXCEPT ![p] = j] /\ pc' = [pc EXCEPT ![p] = step]
        /\ reply' = [reply EXCEPT ![p] = "none"] /\ step \in Steps
    BY <1>1, <1>7 DEF Add, Goto, Steps
  <1>9. Shaped(step, j)
    BY <1>2, <1>6, Empties DEF Shaped, Moving
  <1>10. ProcsOK'
    BY <1>8, <1>9, Moves DEF Typed, Replies
  <1>11. DiskOK' /\ LocksOK' /\ RestOK'
    BY DiskSame, LocksSame, RestSame DEF Typed, Add, diskVars, Bounded
  <1> QED
    BY <1>10, <1>11 DEF Typed

\* The locks a call may ask for.
LEMMA WantsAre ==
    /\ \A g : ScopeFor(g) \in Scopes
    /\ \A s \in Scopes : <<s>> \in Seq(Scopes) /\ <<s>> # <<>>
    /\ AllScopes \in Seq(Scopes) /\ AllScopes # <<>>
  <1>1. \A g : ScopeFor(g) \in Scopes
    BY DEF ScopeFor, Scopes
  <1>2. \A s \in Scopes : <<s>> \in Seq(Scopes) /\ <<s>> # <<>>
    OBVIOUS
  <1>3. LockOrder \in Seq(Scopes) /\ LockOrder # <<>>
    <2>1. CASE LockOrder = <<>>
      <3>1. ToSet(LockOrder) = {}
        BY <2>1, Empties DEF ToSet
      <3> QED
        BY <3>1, LockOrderAssumption DEF Scopes
    <2> QED
      BY <2>1, LockOrderAssumption
  <1>4. "global" \in Scopes
    BY DEF Scopes
  <1>5. <<"global">> \in Seq(Scopes) /\ <<"global">> # <<>>
    BY <1>2, <1>4
  <1> QED
    BY <1>1, <1>2, <1>3, <1>5 DEF AllScopes

LEMMA CallTyped == ASSUME Typed, NEW p \in Procs, Call(p) PROVE Typed'
  <1> USE WantsAre
  <1>0. "project" \in Scopes /\ "global" \in Scopes /\ Flags \subseteq BOOLEAN
    BY FaultAssumption DEF Scopes
  <1>1. CASE \E g \in Flags, r \in Packages, ref \in Refs, f \in BOOLEAN, step \in {"lookup", "wait"} :
                Add(p, g, r, ref, f, step)
    BY <1>0, <1>1, AddTyped
  <1>2. ASSUME NEW g \in Flags, LockAll(p, g) PROVE Typed'
    <2>1. PICK s \in Scopes : s = ScopeFor(g)
      OBVIOUS
    <2>2. PICK ns \in SUBSET Packages, step \in {"lookup", "wait"} :
             Begin(p, "LockAll", s, ns, step, <<s>>)
      BY <1>2, <2>1 DEF LockAll
    <2> QED
      BY <2>2, BeginTyped DEF Ops
  <1>3. ASSUME NEW g \in Flags, Sync(p, g) PROVE Typed'
    <2>1. PICK s \in Scopes : s = ScopeFor(g)
      OBVIOUS
    <2>2. Begin(p, "Sync", s, {}, "wait", <<s>>) /\ "Sync" \in Ops \ {"Add"}
      BY <1>3, <2>1 DEF Sync, Ops
    <2> QED
      BY <2>2, BeginTyped
  <1>4. ASSUME NEW g \in Flags, NEW ns \in SUBSET Packages, Update(p, g, ns) PROVE Typed'
    <2>1. PICK s \in Scopes : s = ScopeFor(g)
      OBVIOUS
    <2>2. Begin(p, "Update", s, ns, "wait", <<s>>) /\ "Update" \in Ops \ {"Add"}
      BY <1>4, <2>1 DEF Update, Ops
    <2> QED
      BY <2>2, BeginTyped
  <1>5. ASSUME NEW g \in Flags, NEW r \in Packages, RemoveRecipe(p, g, r) PROVE Typed'
    <2>1. PICK s \in Scopes : s = ScopeFor(g)
      OBVIOUS
    <2>2. Begin(p, "Remove", s, {r}, "wait", <<s>>) /\ "Remove" \in Ops \ {"Add"}
      BY <1>5, <2>1 DEF RemoveRecipe, Ops
    <2> QED
      BY <2>2, BeginTyped
  <1>6. CASE SyncProject(p)
    <2>1. Begin(p, "SyncProject", "project", {}, "wait", <<"project">>)
          /\ "SyncProject" \in Ops \ {"Add"}
      BY <1>6 DEF SyncProject, Ops
    <2> QED
      BY <1>0, <2>1, BeginTyped
  <1>7. CASE ListSnapshot(p)
    BY <1>0, <1>7, BeginTyped DEF ListSnapshot, Ops
  <1>8. CASE RepairSnapshot(p)
    BY <1>0, <1>8, BeginTyped DEF RepairSnapshot, Ops
  <1>9. CASE SearchIndex(p)
    BY <1>0, <1>9, Empties, BeginTyped DEF SearchIndex, Ops
  <1> QED
    BY <1>1, <1>2, <1>3, <1>4, <1>5, <1>6, <1>7, <1>8, <1>9 DEF Call

-----------------------------------------------------------------------------
(* What each operation publishes *)

\* stoat.toml and .gitignore are published in a project, where stoat.toml is
\* and stays.
Fitting(S, s) ==
    \A a \in S : /\ a.target = "toml" => s = "project" /\ InProject /\ a.new # None
                 /\ a.target = "ignore" => s = "project"

Separate(S, T) == \A a \in S, b \in T : a.target # b.target

\* Artifacts a command may publish in scope s: one for a target.
Publishable(A, s) == \E S \in SUBSET Artifact : Enumerates(A, S) /\ Fitting(S, s)

LEMMA ListsTwo ==
    ASSUME NEW a, NEW b, a.target # b.target
    PROVE  Enumerates(<<a, b>>, {a, b})
  <1>1. <<a, b>> \in Seq({a, b}) /\ Len(<<a, b>>) = 2 /\ <<a, b>>[1] = a /\ <<a, b>>[2] = b
    OBVIOUS
  <1>2. \A i \in 1 .. 2 : i = 1 \/ i = 2
    OBVIOUS
  <1>3. 1 \in 1 .. 2 /\ 2 \in 1 .. 2
    OBVIOUS
  <1> QED
    BY <1>1, <1>2, <1>3 DEF Enumerates

LEMMA ArtIs ==
    ASSUME NEW t \in Targets, NEW v \in Content(t)
    PROVE  Art(t, v) \in Artifact /\ Art(t, v).target = t /\ Art(t, v).new = v
  BY TargetsAre DEF Art, Artifact

\* Two lists of what a scope may publish, one behind the other.
LEMMA PublishableBoth ==
    ASSUME NEW s, NEW A, NEW S \in SUBSET Artifact, Enumerates(A, S),
           NEW B, NEW T \in SUBSET Artifact, Enumerates(B, T),
           Separate(S, T), Fitting(S \cup T, s)
    PROVE  Publishable(A \o B, s)
  <1>1. Enumerates(A \o B, S \cup T)
    BY ListsConcat DEF Separate
  <1>2. S \cup T \in SUBSET Artifact
    OBVIOUS
  <1> QED
    BY <1>1, <1>2 DEF Publishable

\* A package's checkout and the strays, as artifacts.
LEMMA TreeArts ==
    ASSUME NEW tree, DOMAIN tree \subseteq Packages,
           \A r \in DOMAIN tree : tree[r] \in {None} \cup Tree
    PROVE  /\ Enumerates(ArtsOf(tree), ArtsAt(tree, DOMAIN tree))
           /\ ArtsAt(tree, DOMAIN tree) \in SUBSET Artifact
           /\ \A a \in ArtsAt(tree, DOMAIN tree) :
                 /\ a.target \in DOMAIN tree /\ a.target \in Packages
                 /\ a.target \notin {"lock", "toml", "ignore"}
                 /\ a.new = tree[a.target]
  <1>1. Enumerates(ArtsOf(tree), ArtsAt(tree, DOMAIN tree))
    BY ArtsOfLists
  <1>2. ASSUME NEW r \in DOMAIN tree
        PROVE  Art(r, tree[r]) \in Artifact /\ Art(r, tree[r]).target = r /\ Art(r, tree[r]).new = tree[r]
    <2>1. r \in Targets /\ tree[r] \in Content(r)
      BY ContentIs, TargetsAre
    <2> QED
      BY <2>1, ArtIs
  <1> QED
    BY <1>1, <1>2, TargetsAre DEF ArtsAt

LEMMA CleanIs ==
    ASSUME NEW c \in Commits
    PROVE  Clean(c) \in Tree /\ Clean(c) # None /\ Clean(c).commit = c
  <1>1. Clean(c) \in Tree /\ Clean(c).commit = c
    BY DEF Clean, Tree
  <1> QED
    BY <1>1, NoneAssumption

LEMMA AskedAre ==
    ASSUME Typed, NEW p \in Procs
    PROVE  Asked(p) \subseteq Packages /\ job[p].scope \in Scopes
  <1>1. job[p] \in Job
    BY DEF Typed, ProcsOK
  <1>2. job[p].scope \in Scopes /\ job[p].names \subseteq Packages
    BY <1>1 DEF Job
  <1> QED
    BY <1>2, PinsAre DEF Asked, Typed

LEMMA EntryIs ==
    ASSUME NEW v \in Refs, NEW c \in Commits
    PROVE  [ref |-> v, commit |-> c] \in Entry
  BY DEF Entry

LEMMA AddArtsAre ==
    ASSUME Typed, NEW p \in Procs, job[p].op = "Add", ~Refused(p), NEW cs \in [Packages -> Commits]
    PROVE  Publishable(AddArts(p, cs), job[p].scope)
  <1>1. PICK s \in Scopes : s = job[p].scope
    BY AskedAre
  <1>1a. s = "project" => InProject
    BY <1>1 DEF Refused
  <1>2. PICK r \in Packages : r = CHOOSE x \in job[p].names : TRUE
    BY DEF Typed, ProcsOK, Shaped
  <1>3. PICK v \in Refs : v = job[p].ref
    BY DEF Typed, ProcsOK, Shaped
  <1>4. PICK pins \in [Packages -> Entry \cup {None}] :
           pins = [Pins(s) EXCEPT ![r] = [ref |-> v, commit |-> cs[r]]]
    BY PinsAre, EntryIs DEF Typed
  <1>5. PICK decls \in [Packages -> Refs \cup {None}] : decls = [Decls(s) EXCEPT ![r] = v]
    BY PinsAre DEF Typed
  <1>6. PICK a \in Artifact : a = Art("lock", pins) /\ a.target = "lock"
    BY ArtIs, ContentIs, TargetsAre
  <1>7. PICK b \in Artifact : b = Art("toml", decls) /\ b.target = "toml" /\ b.new # None
    BY ArtIs, ContentIs, TargetsAre, NoneAssumption
  <1>8. PICK c \in Artifact : c = Art("ignore", "stoat") /\ c.target = "ignore"
    BY ArtIs, ContentIs, TargetsAre
  <1>9. PICK d \in Artifact : d = Art(r, Clean(cs[r])) /\ d.target = r
    BY ArtIs, ContentIs, TargetsAre, CleanIs
  <1>10. d.target \notin {"lock", "toml", "ignore"}
    BY <1>9, TargetsAre
  <1>11. Enumerates(<<a>>, {a}) /\ Enumerates(<<b>>, {b}) /\ Enumerates(<<c>>, {c}) /\ Enumerates(<<d>>, {d})
    BY ListsOne
  <1> DEFINE ign == IF disk[s]["ignore"] = None THEN <<c>> ELSE <<>>
             mid == IF s = "project" THEN <<b>> \o ign ELSE <<>>
  <1>12. AddArts(p, cs) = <<a>> \o mid \o <<d>>
    <2>1. AddArts(p, cs) =
            <<Art("lock", [Pins(s) EXCEPT ![r] = [ref |-> v, commit |-> cs[r]]])>> \o
            (IF s = "project"
             THEN <<Art("toml", [Decls(s) EXCEPT ![r] = v])>> \o
                  (IF disk[s]["ignore"] = None THEN <<Art("ignore", "stoat")>> ELSE <<>>)
             ELSE <<>>) \o
            <<Art(r, Clean(cs[r]))>>
      BY <1>1, <1>2, <1>3 DEF AddArts
    <2> QED
      BY <2>1, <1>4, <1>5, <1>6, <1>7, <1>8, <1>9
  <1>13. \E I \in SUBSET {c} : Enumerates(ign, I)
    BY <1>11, ListsNone
  <1>14. PICK M \in SUBSET {b, c} : Enumerates(mid, M) /\ (s # "project" => M = {})
    <2>1. CASE s = "project"
      <3>1. PICK I \in SUBSET {c} : Enumerates(ign, I)
        BY <1>13
      <3> HIDE DEF ign
      <3>2. Enumerates(<<b>> \o ign, {b} \cup I)
        BY <1>7, <1>8, <1>11, <3>1, ListsConcat
      <3> QED
        BY <2>1, <3>2
    <2>2. CASE s # "project"
      BY <2>2, ListsNone
    <2> QED
      BY <2>1, <2>2
  <1> HIDE DEF mid, ign
  <1>15. Enumerates(<<a>> \o mid, {a} \cup M)
    BY <1>6, <1>7, <1>8, <1>11, <1>14, ListsConcat
  <1>16. /\ Separate({a} \cup M, {d})
         /\ {a} \cup M \in SUBSET Artifact /\ {d} \in SUBSET Artifact
    BY <1>6, <1>7, <1>8, <1>10, <1>14 DEF Separate
  <1>17. Fitting(({a} \cup M) \cup {d}, s)
    BY <1>1a, <1>6, <1>7, <1>8, <1>10, <1>14 DEF Fitting
  <1>18. Publishable((<<a>> \o mid) \o <<d>>, s)
    <2>0. PICK A, B : A = <<a>> \o mid /\ B = <<d>>
      OBVIOUS
    <2>1. PICK S \in SUBSET Artifact : S = {a} \cup M
      BY <1>16
    <2>2. PICK T \in SUBSET Artifact : T = {d}
      BY <1>16
    <2>2a. Enumerates(A, S) /\ Enumerates(B, T) /\ Separate(S, T)
      BY <1>11, <1>15, <1>16, <2>0, <2>1, <2>2
    <2>2b. Fitting(S \cup T, s)
      BY <1>17, <2>1, <2>2
    <2>3. Publishable(A \o B, s)
      BY <2>1, <2>2, <2>2a, <2>2b, PublishableBoth
    <2> QED
      BY <2>0, <2>3
  <1> QED
    BY <1>1, <1>12, <1>18

LEMMA UpdateArtsAre ==
    ASSUME Typed, NEW p \in Procs, job[p].op = "Update", ~Refused(p),
           NEW cs \in [Packages -> Commits]
    PROVE  Publishable(UpdateArts(p, cs), job[p].scope)
  <1>1. PICK s \in Scopes : s = job[p].scope
    BY AskedAre
  <1>2. PICK R \in SUBSET Packages : R = Asked(p) /\ R \subseteq Pinned(s)
    BY <1>1, AskedAre DEF Refused
  <1>3. PICK P \in [Packages -> Entry \cup {None}] : P = Pins(s) /\ \A r \in R : P[r] \in Entry
    BY <1>2, PinsAre DEF Typed
  <1>4. \A r \in R : [ref |-> P[r].ref, commit |-> cs[r]] \in Entry
    BY <1>2, <1>3 DEF Entry
  <1>5. PICK pins \in [Packages -> Entry \cup {None}] :
           pins = [r \in Packages |-> IF r \in R THEN [ref |-> P[r].ref, commit |-> cs[r]] ELSE P[r]]
    BY <1>3, <1>4
  <1>6. PICK a \in Artifact : a = Art("lock", pins) /\ a.target = "lock"
    BY ArtIs, ContentIs, TargetsAre
  <1>7. PICK tree : tree = [r \in R |-> Clean(cs[r])]
    OBVIOUS
  <1>8. DOMAIN tree = R /\ \A r \in R : tree[r] \in {None} \cup Tree
    BY <1>2, <1>7, CleanIs
  <1>9. Enumerates(ArtsOf(tree), ArtsAt(tree, R)) /\ ArtsAt(tree, R) \in SUBSET Artifact
        /\ \A x \in ArtsAt(tree, R) : x.target \notin {"lock", "toml", "ignore"}
    BY <1>2, <1>8, TreeArts
  <1>10. UpdateArts(p, cs) = ArtsOf(tree) \o <<a>>
    BY <1>1, <1>2, <1>3, <1>5, <1>6, <1>7, Zenon DEF UpdateArts
  <1>11. Enumerates(<<a>>, {a}) /\ {a} \in SUBSET Artifact
    BY ListsOne
  <1>12. Publishable(ArtsOf(tree) \o <<a>>, s)
    <2>1. Separate(ArtsAt(tree, R), {a}) /\ Fitting(ArtsAt(tree, R) \cup {a}, s)
      BY <1>6, <1>9 DEF Separate, Fitting
    <2> QED
      BY <1>9, <1>11, <2>1, PublishableBoth
  <1> QED
    BY <1>1, <1>10, <1>12

LEMMA RemoveArtsAre ==
    ASSUME Typed, NEW p \in Procs, job[p].op = "Remove", ~Refused(p)
    PROVE  Publishable(RemoveArts(p), job[p].scope)
  <1>1. PICK s \in Scopes : s = job[p].scope
    BY AskedAre
  <1>1a. s = "project" => InProject
    BY <1>1 DEF Refused
  <1>2. PICK r \in Packages : r = CHOOSE x \in job[p].names : TRUE
    BY DEF Typed, ProcsOK, Shaped
  <1>3. PICK pins \in [Packages -> Entry \cup {None}] : pins = [Pins(s) EXCEPT ![r] = None]
    BY PinsAre DEF Typed
  <1>4. PICK decls \in [Packages -> Refs \cup {None}] : decls = [Decls(s) EXCEPT ![r] = None]
    BY PinsAre DEF Typed
  <1>5. PICK a \in Artifact : a = Art("lock", pins) /\ a.target = "lock"
    BY ArtIs, ContentIs, TargetsAre
  <1>6. PICK b \in Artifact : b = Art("toml", decls) /\ b.target = "toml" /\ b.new # None
    BY ArtIs, ContentIs, TargetsAre, NoneAssumption
  <1>7. PICK d \in Artifact : d = Art(r, None) /\ d.target = r
    BY ArtIs, TargetsAre
  <1>8. d.target \notin {"lock", "toml", "ignore"}
    BY <1>7, TargetsAre
  <1> DEFINE rest == IF s = "project" THEN <<b>> ELSE <<>>
  <1>9. RemoveArts(p) = <<a, d>> \o rest
    <2>1. RemoveArts(p) =
            <<Art("lock", [Pins(s) EXCEPT ![r] = None]), Art(r, None)>> \o
            (IF s = "project" THEN <<Art("toml", [Decls(s) EXCEPT ![r] = None])>> ELSE <<>>)
      BY <1>1, <1>2 DEF RemoveArts
    <2> QED
      BY <2>1, <1>3, <1>4, <1>5, <1>6, <1>7
  <1>10. Enumerates(<<a, d>>, {a, d}) /\ {a, d} \in SUBSET Artifact
    BY <1>5, <1>8, ListsTwo
  <1>11. PICK M \in SUBSET {b} : Enumerates(rest, M) /\ (s # "project" => M = {})
    BY ListsOne, ListsNone
  <1> HIDE DEF rest
  <1>12. Separate({a, d}, M)
    BY <1>5, <1>6, <1>8, <1>11 DEF Separate
  <1>13. Fitting({a, d} \cup M, s)
    BY <1>1a, <1>5, <1>6, <1>8, <1>11 DEF Fitting
  <1>14. M \in SUBSET Artifact
    BY <1>11
  <1>15. Publishable(<<a, d>> \o rest, s)
    <2>1. PICK A, B : A = <<a, d>> /\ B = rest
      OBVIOUS
    <2>2. PICK S \in SUBSET Artifact : S = {a, d}
      BY <1>10
    <2>2c. PICK T \in SUBSET Artifact : T = M
      BY <1>14
    <2>2a. Enumerates(A, S) /\ Enumerates(B, T) /\ Separate(S, T)
      BY <1>10, <1>11, <1>12, <2>1, <2>2, <2>2c
    <2>2b. Fitting(S \cup T, s)
      BY <1>13, <2>2, <2>2c
    <2>3. Publishable(A \o B, s)
      BY <2>2, <2>2c, <2>2a, <2>2b, PublishableBoth
    <2> QED
      BY <2>1, <2>3
  <1> QED
    BY <1>1, <1>9, <1>15

\* What a scope's lock says a package's checkout should be.
DueOf(pins, r) == IF pins[r] # None THEN Clean(pins[r].commit) ELSE None

\* A sync publishes checkouts only, each the one that is due, and in a project
\* all those that are not in place.
LEMMA SyncArtsAre ==
    ASSUME Typed, NEW s \in Scopes
    PROVE  \E S \in SUBSET Artifact :
              /\ Enumerates(SyncArts(s), S)
              /\ \A a \in S : a.target \in Packages /\ a.new = DueOf(Pins(s), a.target)
              /\ s = "project" => \A r \in Packages :
                    disk[s][r] # DueOf(Pins(s), r) => \E a \in S : a.target = r
  <1>1. PICK P \in [Packages -> Entry \cup {None}] :
           P = Pins(s) /\ \A r \in Pinned(s) : P[r] # None /\ P[r] \in Entry
    BY PinsAre DEF Typed, Pinned
  <1>2. \A r \in Packages \ Pinned(s) : P[r] = None
    BY <1>1 DEF Pinned
  <1> DEFINE wrong == {r \in Pinned(s) : disk[s][r] # Clean(P[r].commit)}
             stray == IF s # "project" THEN {} ELSE {r \in Packages \ Pinned(s) : disk[s][r] # None}
  <1>3. wrong \subseteq Packages /\ stray \subseteq Packages /\ wrong \cap stray = {}
    BY DEF Pinned
  <1>4. PICK f : f = [r \in wrong |-> Clean(P[r].commit)]
    OBVIOUS
  <1>5. PICK g : g = [r \in stray |-> None]
    OBVIOUS
  <1>6. SyncArts(s) = ArtsOf(f) \o ArtsOf(g)
    BY <1>1, <1>4, <1>5, Zenon DEF SyncArts
  <1>7. DOMAIN f = wrong /\ \A r \in wrong : f[r] \in {None} \cup Tree /\ f[r] = DueOf(P, r)
    <2>1. \A r \in wrong : P[r] # None /\ P[r].commit \in Commits
      BY <1>1 DEF Entry
    <2> QED
      BY <1>4, <2>1, CleanIs DEF DueOf
  <1>8. DOMAIN g = stray /\ \A r \in stray : g[r] \in {None} \cup Tree /\ g[r] = DueOf(P, r)
    BY <1>2, <1>3, <1>5 DEF DueOf
  <1>9. \A r \in Packages : s = "project" /\ disk[s][r] # DueOf(P, r) => r \in wrong \cup stray
    BY <1>1, <1>2 DEF DueOf
  <1> HIDE DEF wrong, stray
  <1>10. /\ Enumerates(ArtsOf(f), ArtsAt(f, wrong)) /\ ArtsAt(f, wrong) \in SUBSET Artifact
         /\ \A x \in ArtsAt(f, wrong) : x.target \in wrong /\ x.target \in Packages /\ x.new = f[x.target]
    BY <1>3, <1>7, TreeArts
  <1>11. /\ Enumerates(ArtsOf(g), ArtsAt(g, stray)) /\ ArtsAt(g, stray) \in SUBSET Artifact
         /\ \A x \in ArtsAt(g, stray) : x.target \in stray /\ x.target \in Packages /\ x.new = g[x.target]
    BY <1>3, <1>8, TreeArts
  <1>12. Enumerates(SyncArts(s), ArtsAt(f, wrong) \cup ArtsAt(g, stray))
    <2>1. \A x \in ArtsAt(f, wrong), y \in ArtsAt(g, stray) : x.target # y.target
      BY <1>3, <1>10, <1>11
    <2> QED
      BY <1>6, <1>10, <1>11, <2>1, ListsConcat
  <1>13. \A a \in ArtsAt(f, wrong) \cup ArtsAt(g, stray) :
            a.target \in Packages /\ a.new = DueOf(P, a.target)
    BY <1>7, <1>8, <1>10, <1>11
  <1>14. \A r \in wrong \cup stray : \E a \in ArtsAt(f, wrong) \cup ArtsAt(g, stray) : a.target = r
    <2>1. \A r \in wrong : Art(r, f[r]) \in ArtsAt(f, wrong)
      BY DEF ArtsAt
    <2>2. \A r \in stray : Art(r, g[r]) \in ArtsAt(g, stray)
      BY DEF ArtsAt
    <2>3. \A r, v : Art(r, v).target = r
      BY DEF Art
    <2> QED
      BY <2>1, <2>2, <2>3, Zenon
  <1>15. ArtsAt(f, wrong) \cup ArtsAt(g, stray) \in SUBSET Artifact
    BY <1>10, <1>11
  <1> QED
    BY <1>1, <1>9, <1>12, <1>13, <1>14, <1>15

LEMMA SyncPublishable ==
    ASSUME Typed, NEW s \in Scopes
    PROVE  Publishable(SyncArts(s), s)
  BY SyncArtsAre, TargetsAre DEF Publishable, Fitting

LEMMA PublishableIs ==
    ASSUME NEW A, NEW s, Publishable(A, s)
    PROVE  /\ A \in Seq(Artifact)
           /\ \A i, k \in 1 .. Len(A) : A[i].target = A[k].target => i = k
           /\ \A i \in 1 .. Len(A) : /\ A[i] \in Artifact
                                     /\ A[i].target = "toml" => s = "project" /\ InProject /\ A[i].new # None
                                     /\ A[i].target = "ignore" => s = "project"
  <1>1. PICK S \in SUBSET Artifact : Enumerates(A, S) /\ Fitting(S, s)
    BY DEF Publishable
  <1>2. A \in Seq(S)
    BY <1>1 DEF Enumerates
  <1>3. \A i \in 1 .. Len(A) : A[i] \in S
    BY <1>2
  <1>4. A \in Seq(Artifact)
    BY <1>2, SeqMonotonic
  <1> QED
    <2>1. \A i, k \in 1 .. Len(A) : A[i].target = A[k].target => i = k
      BY <1>1 DEF Enumerates
    <2>2. \A a \in S : /\ a.target = "toml" => s = "project" /\ InProject /\ a.new # None
                       /\ a.target = "ignore" => s = "project"
      BY <1>1, Zenon DEF Fitting
    <2>3. \A a \in S : a \in Artifact
      BY <1>1
    <2> QED
      BY <1>3, <1>4, <2>1, <2>2, <2>3, Zenon

-----------------------------------------------------------------------------
(* Every step keeps the types *)

LEMMA JobIs ==
    ASSUME Typed, NEW p \in Procs
    PROVE  job[p] \in Job /\ Shaped(pc[p], job[p]) /\ pc[p] \in Steps
  BY DEF Typed, ProcsOK

\* The artifact a process is at.
LEMMA CurrentIs ==
    ASSUME Typed, NEW p \in Procs, pc[p] \in {"backup", "install", "undo", "restore"}
    PROVE  /\ job[p].n \in 1 .. Len(job[p].arts) /\ Current(p) = job[p].arts[job[p].n]
           /\ Current(p) \in Artifact /\ Current(p).target \in Targets
           /\ Current(p).new \in Content(Current(p).target)
           /\ job[p].scope \in Scopes
           /\ job[p].scope = "global" => Current(p).target \notin {"toml", "ignore"}
  <1>1. job[p] \in Job /\ Shaped(pc[p], job[p])
    BY JobIs
  <1>2. job[p].arts \in Seq(Artifact) /\ job[p].scope \in Scopes
    BY <1>1 DEF Job
  <1>3. job[p].n \in 1 .. Len(job[p].arts)
    BY <1>1, <1>2 DEF Shaped
  <1>4. job[p].arts[job[p].n] \in Artifact
    BY <1>2, <1>3
  <1>5. job[p].scope = "global" => Current(p).target \notin {"toml", "ignore"}
    BY <1>1, <1>3 DEF Shaped, Current
  <1> QED
    BY <1>2, <1>3, <1>4, <1>5 DEF Current, Artifact

\* A return that changes the files of no scope but those its caller edits.
LEMMA ReturnTyped ==
    ASSUME Typed, NEW p \in Procs, NEW r \in Replies, Return(p, r), DiskOK', RestOK'
    PROVE  Typed'
  BY Returning DEF Typed

LEMMA PlainReturnTyped ==
    ASSUME Typed, NEW p \in Procs, NEW r \in Replies, Return(p, r),
           UNCHANGED <<diskVars, count>>
    PROVE  Typed'
  <1>1. DiskOK' /\ RestOK'
    BY DiskSame, RestSame DEF Typed, diskVars
  <1> QED
    BY <1>1, ReturnTyped

LEMMA IndexTyped ==
    ASSUME Typed, NEW p \in Procs, IndexLock(p) \/ IndexLookup(p) \/ IndexFails(p)
    PROVE  Typed'
  <1>0. job[p] \in Job /\ Shaped(pc[p], job[p]) /\ pc[p] \in Steps
    BY JobIs
  <1>j. job' = job => job' = [job EXCEPT ![p] = job[p]]
    BY DEF Typed, ProcsOK
  <1>1. CASE IndexLock(p)
    <2>1. Shaped("indexed", job[p])
      BY <1>0, <1>1 DEF IndexLock, Shaped, Moving
    <2>2. ProcsOK'
      BY <1>0, <1>j, <1>1, <2>1, MovesQuietly DEF IndexLock, Goto, Typed, Steps
    <2>3. LocksOK'
      BY <1>1 DEF IndexLock, Typed, LocksOK
    <2> QED
      BY <1>1, <2>2, <2>3, DiskSame, RestSame DEF IndexLock, Typed, diskVars
  <1>2. CASE IndexLookup(p) /\ job[p].op = "SearchIndex"
    BY <1>2, PlainReturnTyped DEF IndexLookup, Replies
  <1>3. CASE IndexLookup(p) /\ job[p].op # "SearchIndex"
    <2>1. Shaped("wait", job[p])
      BY <1>0, <1>3 DEF IndexLookup, Shaped, Moving
    <2>2. ProcsOK'
      BY <1>0, <1>j, <1>3, <2>1, MovesQuietly DEF IndexLookup, Goto, Typed, Steps
    <2>3. LocksOK'
      BY <1>3 DEF IndexLookup, Typed, LocksOK
    <2> QED
      BY <1>3, <2>2, <2>3, DiskSame, RestSame DEF IndexLookup, Typed, diskVars
  <1>4. CASE IndexFails(p)
    BY <1>4, PlainReturnTyped DEF IndexFails, Replies
  <1> QED
    BY <1>1, <1>2, <1>3, <1>4

\* The next scope's lock is taken off the list.
LEMMA TailJob ==
    ASSUME NEW j \in Job, j.want # <<>>
    PROVE  /\ Head(j.want) \in Scopes
           /\ [j EXCEPT !.want = Tail(@)] \in Job
           /\ \A step \in {"wait", "work"} :
                Shaped("wait", j) /\ (step = "wait" => Len(j.want) > 1) =>
                   Shaped(step, [j EXCEPT !.want = Tail(@)])
  <1>1. PICK w \in Seq(Scopes) : w = j.want /\ w # <<>>
    BY DEF Job
  <1>2. Head(w) \in Scopes /\ Tail(w) \in Seq(Scopes) /\ Len(Tail(w)) = Len(w) - 1
    BY <1>1
  <1>3. PICK k \in Job : k = [j EXCEPT !.want = Tail(w)]
    BY <1>2 DEF Job
  <1>4. /\ k.want = Tail(w) /\ k.op = j.op /\ k.scope = j.scope /\ k.names = j.names /\ k.ref = j.ref
        /\ k.arts = j.arts /\ k.n = j.n /\ k.old = j.old /\ k.torn = j.torn
    BY <1>3 DEF Job
  <1>5. Len(w) > 1 => Tail(w) # <<>>
    <2>0. Len(Tail(w)) \in Nat
      BY <1>2
    <2>1. PICK m \in Nat : m = Len(Tail(w))
      BY <2>0
    <2>2. Len(w) > 1 => m # 0
      BY <1>2, <2>1
    <2>3. Tail(w) = <<>> => m = 0
      BY <2>1, Empties
    <2> QED
      BY <2>2, <2>3
  <1>6. \A step \in {"wait", "work"} :
           Shaped("wait", j) /\ (step = "wait" => Len(w) > 1) => Shaped(step, k)
    BY <1>4, <1>5 DEF Shaped, Moving
  <1> QED
    BY <1>1, <1>2, <1>3, <1>6

LEMMA LockScopeTyped == ASSUME Typed, NEW p \in Procs, LockScope(p) PROVE Typed'
  <1>0. job[p] \in Job /\ Shaped(pc[p], job[p]) /\ pc[p] = "wait"
    BY JobIs DEF LockScope
  <1>1. job[p].want # <<>>
    BY <1>0 DEF Shaped
  <1>2. PICK s \in Scopes : s = Head(job[p].want)
    BY <1>0, <1>1, TailJob
  <1>3. PICK step \in {"wait", "work"} : step = IF Len(job[p].want) > 1 THEN "wait" ELSE "work"
    OBVIOUS
  <1>4. PICK k \in Job : k = [job[p] EXCEPT !.want = Tail(@)] /\ Shaped(step, k)
    BY <1>0, <1>1, <1>3, TailJob
  <1>5. job' = [job EXCEPT ![p] = k] /\ pc' = [pc EXCEPT ![p] = step] /\ reply' = reply
    BY <1>3, <1>4 DEF LockScope, Goto
  <1>6. ProcsOK'
    <2>1. step \in Steps
      BY DEF Steps
    <2> QED
      BY <1>4, <1>5, <2>1, MovesQuietly DEF Typed
  <1>7. LocksOK'
    BY <1>2 DEF LockScope, Typed, LocksOK
  <1> QED
    BY <1>6, <1>7, DiskSame, RestSame DEF LockScope, Typed, diskVars

\* The job a publication starts with.
Staged(j, arts, swept, before) ==
    [j EXCEPT !.arts = arts, !.swept = swept, !.before = before]

LEMMA StagedIs ==
    ASSUME NEW j \in Job, NEW A \in Seq(Artifact), NEW sw \in BOOLEAN, NEW d \in Holdings
    PROVE  /\ Staged(j, A, sw, d) \in Job
           /\ Staged(j, A, sw, d).arts = A /\ Staged(j, A, sw, d).swept = sw
           /\ Staged(j, A, sw, d).before = d
           /\ Staged(j, A, sw, d).op = j.op /\ Staged(j, A, sw, d).scope = j.scope
           /\ Staged(j, A, sw, d).names = j.names /\ Staged(j, A, sw, d).ref = j.ref
           /\ Staged(j, A, sw, d).want = j.want
           /\ Staged(j, A, sw, d).n = j.n /\ Staged(j, A, sw, d).old = j.old
           /\ Staged(j, A, sw, d).torn = j.torn
  BY DEF Staged, Job

LEMMA PublishTyped ==
    ASSUME Typed, NEW p \in Procs, pc[p] = "work", NEW A, Publishable(A, job[p].scope),
           NEW sw \in BOOLEAN, Publish(p, A, sw), count' = count \/ \E b \in Bounded : Spend(b)
    PROVE  Typed'
  <1>0. job[p] \in Job /\ Shaped("work", job[p]) /\ job[p].scope \in Scopes
    BY JobIs, AskedAre
  <1>1. A \in Seq(Artifact) /\ disk[job[p].scope] \in Holdings
    BY <1>0, PublishableIs DEF Typed, DiskOK
  <1>2. PICK k \in Job : k = Staged(job[p], A, sw, disk[job[p].scope])
    BY <1>0, <1>1, StagedIs
  <1>3. /\ k.arts = A /\ k.op = job[p].op /\ k.scope = job[p].scope /\ k.names = job[p].names
        /\ k.ref = job[p].ref /\ k.want = job[p].want
        /\ k.n = job[p].n /\ k.old = job[p].old /\ k.torn = job[p].torn
    BY <1>0, <1>1, <1>2, StagedIs
  <1>4. PICK step \in {"sweep", "backup"} : step = IF A = <<>> THEN "sweep" ELSE "backup"
    OBVIOUS
  <1>5. step \in Steps /\ step \in Moving /\ step \notin {"lookup", "indexed", "wait"}
    BY DEF Steps, Moving
  <1>6. job' = [job EXCEPT ![p] = k] /\ pc' = [pc EXCEPT ![p] = step] /\ reply' = reply
    BY <1>2, <1>4 DEF Publish, Goto, Staged
  <1>7. Len(A) \in Nat /\ (A # <<>> => Len(A) # 0)
    BY <1>1
  <1>8. k.n \in 1 .. Len(A) + 1 /\ (step = "backup" => k.n <= Len(A))
    <2>1. k.n = 1
      BY <1>0, <1>3 DEF Shaped, Moving
    <2> QED
      BY <1>4, <1>7, <2>1
  <1>9. k.scope = "global" => \A i \in 1 .. Len(k.arts) : k.arts[i].target \notin {"toml", "ignore"}
    <2>1. \A i \in 1 .. Len(A) : A[i].target \in {"toml", "ignore"} => job[p].scope = "project"
      BY PublishableIs, Zenon
    <2> QED
      BY <1>3, <2>1
  <1>10. k.op \in {"Add", "Remove"} => \E r \in Packages : k.names = {r}
    BY <1>0, <1>3 DEF Shaped
  <1>11. (k.op = "Add" => k.ref \in Refs) /\ (k.op = "RepairSnapshot" => k.scope = "project")
    BY <1>0, <1>3 DEF Shaped
  <1>12. Shaped(step, k)
    BY <1>3, <1>4, <1>5, <1>8, <1>9, <1>10, <1>11 DEF Shaped
  <1>13. ProcsOK'
    BY <1>5, <1>6, <1>12, MovesQuietly DEF Typed
  <1> QED
    BY <1>13, DiskSame, LocksSame, RestSame DEF Publish, Typed, diskVars

LEMMA LockAllWorkTyped ==
    ASSUME Typed, NEW p \in Procs, NEW cs \in [Packages -> Commits], LockAllWork(p, cs),
           count' = count \/ \E b \in Bounded : Spend(b)
    PROVE  Typed'
  <1>1. PICK s \in Scopes : s = job[p].scope
    BY AskedAre
  <1>2. PICK refs : refs = [r \in Packages |->
                   IF s = "project" THEN Decls(s)[r]
                   ELSE IF Pins(s)[r] = None THEN None ELSE Pins(s)[r].ref]
    OBVIOUS
  <1>3. \A r \in Packages : refs[r] # None => refs[r] \in Refs
    <2>1. \A r \in Packages : Pins(s)[r] # None => Pins(s)[r].ref \in Refs
      BY PinsAre DEF Typed, Pinned, Entry
    <2>2. \A r \in Packages : Decls(s)[r] # None => Decls(s)[r] \in Refs
      BY PinsAre DEF Typed
    <2> QED
      BY <1>2, <2>1, <2>2
  <1>4. PICK v : v = [r \in Packages |-> IF refs[r] = None THEN None
                                         ELSE [ref |-> refs[r], commit |-> cs[r]]]
    OBVIOUS
  <1>5. v \in [Packages -> Entry \cup {None}]
    <2>1. \A r \in Packages : refs[r] # None => [ref |-> refs[r], commit |-> cs[r]] \in Entry
      BY <1>3, EntryIs
    <2> QED
      BY <1>4, <2>1
  <1>6. disk' = [disk EXCEPT ![s]["lock"] = v]
    BY <1>1, <1>2, <1>4 DEF LockAllWork
  <1>7. DiskOK'
    BY <1>5, <1>6, ContentIs, TargetsAre, DiskEdit DEF Typed
  <1> QED
    BY <1>7, RestSame, ReturnTyped DEF LockAllWork, Typed, Replies

LEMMA WorkTyped ==
    ASSUME Typed, NEW p \in Procs, NEW cs \in [Packages -> Commits], Work(p, cs)
    PROVE  Typed'
  <1>0. pc[p] = "work" /\ job[p] \in Job /\ Shaped("work", job[p]) /\ job[p].scope \in Scopes
    BY JobIs, AskedAre DEF Work
  <1>1. count' = count \/ \E b \in Bounded : Spend(b)
    BY DEF Work, Bounded
  <1>2. CASE job[p].op = "Add"
    BY <1>0, <1>1, <1>2, AddArtsAre, PublishTyped DEF Work
  <1>3. CASE job[p].op = "Update"
    BY <1>0, <1>1, <1>3, UpdateArtsAre, PublishTyped DEF Work
  <1>4. CASE job[p].op = "Remove"
    BY <1>0, <1>1, <1>4, RemoveArtsAre, PublishTyped DEF Work
  <1>5. CASE job[p].op \in {"Sync", "SyncProject"}
    <2>1. PICK sw \in BOOLEAN : sw = (job[p].scope = "project")
      OBVIOUS
    <2>2. Publish(p, SyncArts(job[p].scope), sw)
      BY <1>5, <2>1 DEF Work
    <2> QED
      BY <1>0, <1>1, <2>2, SyncPublishable, PublishTyped
  <1>6. CASE job[p].op = "RepairSnapshot" /\ InProject
    <2>1. Publish(p, SyncArts("project"), TRUE)
      BY <1>6 DEF Work
    <2>2. Publishable(SyncArts("project"), "project")
      BY SyncPublishable DEF Scopes
    <2>3. job[p].scope = "project"
      BY <1>0, <1>6 DEF Shaped
    <2> QED
      BY <1>0, <1>1, <2>1, <2>2, <2>3, PublishTyped
  <1>7. CASE job[p].op = "LockAll"
    BY <1>1, <1>7, LockAllWorkTyped DEF Work
  <1>8. CASE /\ job[p].op \notin {"Add", "Update", "Remove", "Sync", "SyncProject", "LockAll"}
             /\ ~(job[p].op = "RepairSnapshot" /\ InProject)
    <2>1. Goto(p, "snapshot") /\ UNCHANGED <<diskVars, lockVars, job, reply>>
      BY <1>8 DEF Work
    <2>2. Shaped("snapshot", job[p])
      BY <1>0 DEF Shaped, Moving
    <2>3. job' = [job EXCEPT ![p] = job[p]] /\ pc' = [pc EXCEPT ![p] = "snapshot"] /\ reply' = reply
      BY <2>1 DEF Goto, Typed, ProcsOK
    <2>4. ProcsOK'
      BY <1>0, <2>2, <2>3, MovesQuietly DEF Typed, Steps
    <2> QED
      BY <1>1, <2>1, <2>4, DiskSame, LocksSame, RestSame DEF Typed, diskVars
  <1> QED
    BY <1>2, <1>3, <1>4, <1>5, <1>6, <1>7, <1>8


\* The job j of p after a step that moves files: n, old and torn may change.
Moved(j, k) ==
    /\ k \in Job
    /\ k.arts = j.arts /\ k.scope = j.scope /\ k.op = j.op /\ k.names = j.names
    /\ k.ref = j.ref /\ k.want = j.want /\ k.before = j.before /\ k.swept = j.swept

LEMMA MovedShape ==
    ASSUME NEW j, NEW k, Moved(j, k), NEW from \in Moving, Shaped(from, j),
           NEW step \in Moving \cup {"snapshot"},
           k.n \in 1 .. Len(k.arts) + 1,
           step \in {"backup", "install", "undo", "restore"} => k.n <= Len(k.arts),
           step = "snapshot" => k.old = Nothing
    PROVE  Shaped(step, k)
  BY DEF Moved, Shaped, Moving

LEMMA MovingTyped ==
    ASSUME Typed, NEW p \in Procs, pc[p] \in Moving, NEW step \in Moving \cup {"snapshot"},
           NEW k, Moved(job[p], k), k.n \in 1 .. Len(k.arts) + 1,
           step \in {"backup", "install", "undo", "restore"} => k.n <= Len(k.arts),
           step = "snapshot" => k.old = Nothing,
           pc' = [pc EXCEPT ![p] = step], job' = [job EXCEPT ![p] = k], reply' = reply
    PROVE  ProcsOK'
  <1>1. Shaped(step, k)
    BY JobIs, MovedShape
  <1>2. step \in Steps /\ k \in Job
    BY DEF Steps, Moving, Moved
  <1> QED
    BY <1>1, <1>2, MovesQuietly DEF Typed

LEMMA SameMoved == ASSUME Typed, NEW p \in Procs PROVE Moved(job[p], job[p])
  BY JobIs DEF Moved

LEMMA BackupTyped == ASSUME Typed, NEW p \in Procs, Backup(p) PROVE Typed'
  <1>0. pc[p] = "backup" /\ job[p] \in Job
    BY JobIs DEF Backup
  <1>1. PICK s \in Scopes : s = job[p].scope
    BY AskedAre
  <1>2. PICK t \in Targets : t = Current(p).target /\ (s = "global" => t \notin {"toml", "ignore"})
    BY <1>0, <1>1, CurrentIs
  <1>3. PICK v \in Content(t) : v = disk[s][t]
    BY <1>1, HoldingIs DEF Typed, DiskOK
  <1>4. DiskOK'
    BY <1>1, <1>2, DiskEdit, TargetsAre DEF Backup, Typed
  <1>5. PICK o \in Holdings : o = [job[p].old EXCEPT ![t] = v]
    BY <1>0, <1>3, HoldingEdit DEF Job
  <1>6. job' = [job EXCEPT ![p] = [job[p] EXCEPT !.old = o]]
    BY <1>1, <1>2, <1>3, <1>5 DEF Backup
  <1>7. PICK k : k = [job[p] EXCEPT !.old = o]
    OBVIOUS
  <1>8. Moved(job[p], k) /\ k.n = job[p].n
    BY <1>0, <1>7 DEF Job, Moved
  <1>9. k.n \in 1 .. Len(k.arts) + 1 /\ k.n <= Len(k.arts)
    BY <1>0, <1>8, JobIs DEF Moved, Shaped
  <1>10. ProcsOK'
    BY <1>0, <1>6, <1>7, <1>8, <1>9, MovingTyped DEF Backup, Goto, Moving
  <1> QED
    BY <1>4, <1>10, LocksSame, RestSame DEF Backup, Typed

LEMMA InstallTyped == ASSUME Typed, NEW p \in Procs, Install(p) PROVE Typed'
  <1>0. pc[p] = "install" /\ job[p] \in Job
    BY JobIs DEF Install
  <1>1. PICK s \in Scopes : s = job[p].scope
    BY AskedAre
  <1>2. PICK t \in Targets : t = Current(p).target /\ (s = "global" => t \notin {"toml", "ignore"})
    BY <1>0, <1>1, CurrentIs
  <1>3. PICK v \in Content(t) : v = Current(p).new
    BY <1>0, <1>2, CurrentIs
  <1>4. DiskOK'
    BY <1>1, <1>2, <1>3, DiskEdit DEF Install, Typed
  <1>5. PICK k : k = [job[p] EXCEPT !.n = @ + 1]
    OBVIOUS
  <1>6. job[p].n \in 1 .. Len(job[p].arts) /\ Len(job[p].arts) \in Nat
    <2>1. job[p].arts \in Seq(Artifact)
      BY <1>0 DEF Job
    <2> QED
      BY <1>0, <2>1, CurrentIs
  <1>7. Moved(job[p], k) /\ k.n = job[p].n + 1
    BY <1>0, <1>5, <1>6 DEF Job, Moved
  <1>8. PICK step \in {"sweep", "backup"} :
           step = IF job[p].n = Len(job[p].arts) THEN "sweep" ELSE "backup"
    OBVIOUS
  <1>9. k.n \in 1 .. Len(k.arts) + 1 /\ (step = "backup" => k.n <= Len(k.arts))
    BY <1>6, <1>7, <1>8 DEF Moved
  <1>10. ProcsOK'
    BY <1>0, <1>5, <1>7, <1>8, <1>9, MovingTyped DEF Install, Goto, Moving
  <1> QED
    BY <1>4, <1>10, LocksSame, RestSame DEF Install, Typed

\* The job goes back to the artifact before.
SteppedBack(j, o, b) == [j EXCEPT !.n = @ - 1, !.old = o, !.torn = b]

LEMMA StepBack ==
    ASSUME Typed, NEW p \in Procs, pc[p] \in {"backup", "install", "undo", "restore"},
           NEW o \in Holdings, NEW b \in BOOLEAN, job[p].n > 1,
           NEW k, k = SteppedBack(job[p], o, b)
    PROVE  Moved(job[p], k) /\ k.n = job[p].n - 1 /\ k.old = o /\ k.torn = b
           /\ k.n \in 1 .. Len(k.arts) + 1 /\ k.n <= Len(k.arts)
  <1>0. job[p] \in Job
    BY JobIs
  <1>1. job[p].n \in 1 .. Len(job[p].arts) /\ Len(job[p].arts) \in Nat
    <2>1. job[p].arts \in Seq(Artifact)
      BY <1>0 DEF Job
    <2> QED
      BY <2>1, CurrentIs
  <1>2. PICK m \in Nat : m = job[p].n - 1
    BY <1>1
  <1>3. k = [job[p] EXCEPT !.n = m, !.old = o, !.torn = b]
    BY <1>2 DEF SteppedBack
  <1>4. Moved(job[p], k) /\ k.n = m /\ k.old = o /\ k.torn = b
    BY <1>0, <1>2, <1>3 DEF Job, Moved
  <1> QED
    BY <1>1, <1>2, <1>4 DEF Moved

LEMMA StepBackPlain ==
    ASSUME Typed, NEW p \in Procs, pc[p] \in {"backup", "install", "undo", "restore"}, job[p].n > 1,
           NEW k, k = [job[p] EXCEPT !.n = @ - 1]
    PROVE  Moved(job[p], k) /\ k.n = job[p].n - 1 /\ k.old = job[p].old /\ k.torn = job[p].torn
           /\ k.n \in 1 .. Len(k.arts) + 1 /\ k.n <= Len(k.arts)
  <1>0. job[p] \in Job
    BY JobIs
  <1>1. job[p].n \in 1 .. Len(job[p].arts) /\ Len(job[p].arts) \in Nat
    <2>1. job[p].arts \in Seq(Artifact)
      BY <1>0 DEF Job
    <2> QED
      BY <2>1, CurrentIs
  <1>2. PICK m \in Nat : m = job[p].n - 1
    BY <1>1
  <1>3. Moved(job[p], k) /\ k.n = m /\ k.old = job[p].old /\ k.torn = job[p].torn
    BY <1>0, <1>2 DEF Job, Moved
  <1> QED
    BY <1>1, <1>2, <1>3 DEF Moved

LEMMA PublishFailsTyped == ASSUME Typed, NEW p \in Procs, PublishFails(p) PROVE Typed'
  <1>0. DiskOK' /\ RestOK'
    BY DiskSame, RestSame DEF PublishFails, Typed, diskVars
  <1>1. CASE pc[p] = "backup" /\ job[p].n = 1 /\ Return(p, "error")
    BY <1>0, <1>1, ReturnTyped DEF Replies
  <1>2. CASE /\ pc[p] = "backup" /\ job[p].n > 1
             /\ job' = [job EXCEPT ![p].n = @ - 1]
             /\ Goto(p, "undo")
             /\ UNCHANGED <<lockVars, reply>>
    <2>1. PICK k : k = [job[p] EXCEPT !.n = @ - 1]
      OBVIOUS
    <2>2. Moved(job[p], k) /\ k.n \in 1 .. Len(k.arts) + 1 /\ k.n <= Len(k.arts)
      BY <1>2, <2>1, StepBackPlain
    <2>3. ProcsOK'
      BY <1>2, <2>1, <2>2, MovingTyped DEF Goto, Moving
    <2> QED
      BY <1>0, <1>2, <2>3, LocksSame DEF Typed
  <1>3. CASE /\ pc[p] = "install" /\ Current(p).new # None
             /\ Goto(p, "restore")
             /\ UNCHANGED <<lockVars, job, reply>>
    <2>1. job' = [job EXCEPT ![p] = job[p]]
      BY <1>3 DEF Typed, ProcsOK
    <2>2. job[p].n \in 1 .. Len(job[p].arts) + 1 /\ job[p].n <= Len(job[p].arts)
      BY <1>3, JobIs DEF Shaped
    <2>3. ProcsOK'
      BY <1>3, <2>1, <2>2, SameMoved, MovingTyped DEF Goto, Moving
    <2> QED
      BY <1>0, <1>3, <2>3, LocksSame DEF Typed
  <1> QED
    BY <1>1, <1>2, <1>3 DEF PublishFails

LEMMA UndoTyped == ASSUME Typed, NEW p \in Procs, Undo(p) PROVE Typed'
  <1>0. pc[p] = "undo" /\ job[p] \in Job
    BY JobIs DEF Undo
  <1>1. PICK s \in Scopes : s = job[p].scope
    BY AskedAre
  <1>2. PICK t \in Targets : t = Current(p).target /\ (s = "global" => t \notin {"toml", "ignore"})
    BY <1>0, <1>1, CurrentIs
  <1>3. DiskOK'
    BY <1>1, <1>2, DiskEdit, TargetsAre DEF Undo, Typed
  <1>4. job' = [job EXCEPT ![p] = job[p]]
    BY DEF Undo, Typed, ProcsOK
  <1>5. job[p].n \in 1 .. Len(job[p].arts) + 1 /\ job[p].n <= Len(job[p].arts)
    BY <1>0, JobIs DEF Shaped
  <1>6. ProcsOK'
    BY <1>0, <1>4, <1>5, SameMoved, MovingTyped DEF Undo, Goto, Moving
  <1> QED
    BY <1>3, <1>6, LocksSame, RestSame DEF Undo, Typed

\* What a step of the rollback leaves in the job's record of old versions.
LEMMA RestoredOld ==
    ASSUME Typed, NEW p \in Procs, pc[p] \in {"undo", "restore"}, NEW ok \in BOOLEAN
    PROVE  (IF ok THEN [job[p].old EXCEPT ![Current(p).target] = None] ELSE job[p].old) \in Holdings
  <1>1. job[p].old \in Holdings
    BY JobIs DEF Job
  <1>2. Current(p).target \in Targets
    BY CurrentIs
  <1> QED
    BY <1>1, <1>2, HoldingEdit, TargetsAre

LEMMA RestoreTyped == ASSUME Typed, NEW p \in Procs, Restore(p) \/ UndoFails(p) PROVE Typed'
  <1>0. pc[p] \in {"undo", "restore"} /\ job[p] \in Job /\ job[p].old \in Holdings /\ job[p].torn \in BOOLEAN
    BY JobIs DEF Restore, UndoFails, Job
  <1>1. PICK s \in Scopes : s = job[p].scope
    BY AskedAre
  <1>2. PICK t \in Targets : t = Current(p).target /\ (s = "global" => t \notin {"toml", "ignore"})
    BY <1>0, <1>1, CurrentIs
  <1>3. PICK ok \in BOOLEAN, o \in Holdings, b \in BOOLEAN :
           /\ disk' = IF ok THEN [disk EXCEPT ![s][t] = job[p].old[t]] ELSE disk
           /\ IF job[p].n > 1
              THEN /\ job' = [job EXCEPT ![p].n = @ - 1, ![p].old = o, ![p].torn = b]
                   /\ Goto(p, "undo")
                   /\ UNCHANGED <<junk, saved, lockVars, reply>>
              ELSE LeaveBackups(p, o) /\ Return(p, IF b THEN "torn" ELSE "error")
    <2>1. PICK ok \in BOOLEAN :
            /\ disk' = IF ok THEN [disk EXCEPT ![s][t] = job[p].old[t]] ELSE disk
            /\ RollOn(p, IF ok THEN [job[p].old EXCEPT ![t] = None] ELSE job[p].old,
                      job[p].torn \/ ~ok)
      <3>1. CASE Restore(p)
        BY <1>1, <1>2, <3>1 DEF Restore
      <3>2. CASE UndoFails(p)
        BY <3>2 DEF UndoFails
      <3> QED
        BY <3>1, <3>2
    <2>2. PICK o \in Holdings : o = IF ok THEN [job[p].old EXCEPT ![t] = None] ELSE job[p].old
      BY <1>0, <1>2, RestoredOld
    <2>3. PICK b \in BOOLEAN : b = (job[p].torn \/ ~ok)
      OBVIOUS
    <2> QED
      BY <2>1, <2>2, <2>3 DEF RollOn
  <1>4. DiskOK'
    <2>1. job[p].old[t] \in Content(t)
      BY <1>0, HoldingIs
    <2> QED
      BY <1>1, <1>2, <1>3, <2>1, DiskEdit, DiskSame DEF Typed
  <1>5. CASE job[p].n > 1
    <2>1. PICK k : k = SteppedBack(job[p], o, b)
      OBVIOUS
    <2>2. Moved(job[p], k) /\ k.n \in 1 .. Len(k.arts) + 1 /\ k.n <= Len(k.arts)
      <3>1. pc[p] \in {"backup", "install", "undo", "restore"}
        BY <1>0
      <3>2. o \in Holdings /\ b \in BOOLEAN
        BY <1>3
      <3> QED
        BY <1>5, <2>1, <3>1, <3>2, StepBack
    <2>3. job' = [job EXCEPT ![p] = k] /\ pc' = [pc EXCEPT ![p] = "undo"] /\ reply' = reply
      BY <1>3, <1>5, <2>1 DEF Goto, SteppedBack
    <2>4. ProcsOK'
      BY <1>0, <2>2, <2>3, MovingTyped DEF Moving
    <2> QED
      BY <1>3, <1>4, <1>5, <2>4, LocksSame, RestSame DEF Typed, Restore, UndoFails
  <1>6. CASE ~(job[p].n > 1)
    <2>1. PICK r \in Replies : r = IF b THEN "torn" ELSE "error"
      BY DEF Replies
    <2>2. LeaveBackups(p, o) /\ Return(p, r) /\ count' = count
      BY <1>3, <1>6, <2>1 DEF Restore, UndoFails
    <2>3. RestOK'
      BY <2>2, LeavesBackups DEF Typed
    <2> QED
      BY <1>4, <2>2, <2>3, ReturnTyped
  <1> QED
    BY <1>5, <1>6

LEMMA SweepTyped == ASSUME Typed, NEW p \in Procs, Sweep(p) PROVE Typed'
  <1>0. pc[p] = "sweep" /\ job[p] \in Job
    BY JobIs DEF Sweep
  <1>1. DiskOK'
    BY DiskSame DEF Sweep, Typed
  <1>2. RestOK'
    BY DEF Sweep, Typed, RestOK
  <1>3. CASE job[p].op = "RepairSnapshot"
    <2>1. PICK k : k = [job[p] EXCEPT !.old = Nothing]
      OBVIOUS
    <2>2. Moved(job[p], k) /\ k.n = job[p].n /\ k.old = Nothing
      BY <1>0, <2>1, NothingIs DEF Job, Moved
    <2>3. k.n \in 1 .. Len(k.arts) + 1
      BY <1>0, <2>2, JobIs DEF Moved, Shaped
    <2>4. ProcsOK'
      BY <1>0, <1>3, <2>1, <2>2, <2>3, MovingTyped DEF Sweep, Goto, Moving
    <2> QED
      BY <1>1, <1>2, <1>3, <2>4, LocksSame DEF Sweep, Typed
  <1>4. CASE job[p].op # "RepairSnapshot"
    BY <1>1, <1>2, <1>4, ReturnTyped DEF Sweep, Replies
  <1> QED
    BY <1>3, <1>4

LEMMA SweepFailsTyped == ASSUME Typed, NEW p \in Procs, SweepFails(p) PROVE Typed'
  <1>1. DiskOK' /\ RestOK'
    BY DiskSame, LeavesBackups DEF SweepFails, Typed
  <1> QED
    BY <1>1, ReturnTyped DEF SweepFails, Replies

LEMMA KillTyped == ASSUME Typed, NEW p \in Procs, Kill(p) PROVE Typed'
  <1>1. DiskOK' /\ RestOK'
    BY DiskSame, LeavesBackups DEF Kill, Typed, Bounded
  <1> QED
    BY <1>1, ReturnTyped DEF Kill, Replies

LEMMA StepTyped == ASSUME Typed, NEW p \in Procs, Step(p) PROVE Typed'
  <1>1. CASE WorkFails(p)
    BY <1>1, PlainReturnTyped DEF WorkFails, Replies
  <1>2. CASE Snapshot(p)
    <2>1. PICK r \in Replies : Return(p, r) /\ UNCHANGED <<diskVars, count>>
      BY <1>2 DEF Snapshot, Replies
    <2> QED
      BY <2>1, PlainReturnTyped
  <1> QED
    BY <1>1, <1>2, IndexTyped, LockScopeTyped, WorkTyped, BackupTyped, InstallTyped,
       PublishFailsTyped, UndoTyped, RestoreTyped, SweepTyped, SweepFailsTyped DEF Step

LEMMA UserTyped == ASSUME Typed, User PROVE Typed'
  <1>0. ASSUME UNCHANGED <<junk, saved, lockVars, pc, job, reply>>, Spend("edits")
        PROVE  LocksOK' /\ ProcsOK' /\ RestOK'
    BY <1>0, LocksSame, RestSame DEF Typed, ProcsOK, Bounded
  <1>1. CASE \E r \in Packages, ref \in Refs \cup {None} : EditDecl(r, ref)
    <2>1. PICK r \in Packages, ref \in Refs \cup {None} : EditDecl(r, ref)
      BY <1>1
    <2>2. PICK v \in [Packages -> Refs \cup {None}] : v = [disk["project"]["toml"] EXCEPT ![r] = ref]
      <3>1. disk["project"]["toml"] \in [Packages -> Refs \cup {None}]
        BY <2>1, HoldingIs DEF EditDecl, InProject, Typed, DiskOK, Scopes
      <3> QED
        BY <3>1
    <2>3. disk' = [disk EXCEPT !["project"]["toml"] = v]
      BY <2>1, <2>2 DEF EditDecl
    <2>4. DiskOK'
      <3>1. v \in Content("toml") /\ "project" \in Scopes
        BY <2>2, ContentIs DEF Scopes
      <3> QED
        BY <2>3, <3>1, TargetsAre, DiskEdit DEF Typed
    <2> QED
      BY <1>0, <2>1, <2>4 DEF EditDecl, Typed
  <1>2. CASE \E s \in Scopes, r \in Packages : EditTree(s, r)
    <2>1. PICK s \in Scopes, r \in Packages : EditTree(s, r)
      BY <1>2
    <2>2. PICK v \in Tree : v = [disk[s][r] EXCEPT !.dirty = ~@]
      <3>1. disk[s][r] \in Tree
        BY <2>1, HoldingIs DEF EditTree, Typed, DiskOK
      <3> QED
        BY <3>1 DEF Tree
    <2>3. disk' = [disk EXCEPT ![s][r] = v]
      BY <2>1, <2>2 DEF EditTree
    <2>4. DiskOK'
      <3>1. v \in Content(r) /\ r \in Targets /\ r \notin {"toml", "ignore"}
        BY <2>2, ContentIs, TargetsAre
      <3> QED
        BY <2>3, <3>1, DiskEdit DEF Typed
    <2> QED
      BY <1>0, <2>1, <2>4 DEF EditTree, Typed
  <1> QED
    BY <1>1, <1>2 DEF User

LEMMA NextTyped == Typed /\ [PkgNext]_pkgVars => Typed'
  <1> SUFFICES ASSUME Typed, [PkgNext]_pkgVars PROVE Typed'
    OBVIOUS
  <1>1. CASE UNCHANGED pkgVars
    BY <1>1 DEF pkgVars, Typed, DiskOK, LocksOK, ProcsOK, RestOK
  <1>2. CASE PkgNext
    BY <1>2, UserTyped, CallTyped, StepTyped, KillTyped DEF PkgNext
  <1> QED
    BY <1>1, <1>2

\* The types the specification states follow from the invariant.
LEMMA TypedIsTypeOK == Typed => PkgTypeOK
  <1> SUFFICES ASSUME Typed PROVE PkgTypeOK
    OBVIOUS
  <1>1. \A s \in Scopes : \A t \in Targets : disk[s][t] \in Content(t)
    BY HoldingIs DEF Typed, DiskOK
  <1>2. \A p \in Procs : job[p].op \in Ops \cup {"none"} /\ job[p].n \in 1 .. Len(job[p].arts) + 1
    BY JobIs DEF Job, Shaped
  <1>3. \A b \in Bounded : count[b] \in 0 .. Limit[b]
    <2>1. \A b \in Bounded : count[b] \in Nat /\ Limit[b] \in Nat /\ count[b] <= Limit[b]
      BY FaultAssumption DEF Typed, RestOK
    <2> QED
      BY <2>1
  <1> QED
    BY <1>1, <1>2, <1>3 DEF Typed, DiskOK, LocksOK, ProcsOK, RestOK, Replies, PkgTypeOK

\* Whatever the commands, users and kills do, every file of a scope is what its
\* kind of file may be, and every process is at a step its job allows.
THEOREM PackagesTypes == PkgSpec => []PkgTypeOK
  <1>1. PkgSpec => []Typed
    BY InitTyped, NextTyped, PTL DEF PkgSpec
  <1> QED
    BY <1>1, TypedIsTypeOK, PTL

-----------------------------------------------------------------------------
(* Publishing, step by step *)

Direct == {"Add", "LockAll", "Sync", "SyncProject", "Update", "Remove"}

\* A process that publishes holds the lock of its scope, and one that is to
\* publish waits for that lock and no other.
Held(step, j, x, q) ==
    /\ j.op \in Direct /\ step \in {"lookup", "indexed", "wait"} => j.want = <<j.scope>>
    /\ j.op \in Direct /\ step = "work" => x[j.scope] = q
    /\ step \in Moving => x[j.scope] = q

Quiet(step, r) == step # "idle" => r = "none"

\* The target is as the operation found it,
Kept(j, d, t) == d[t] = j.before[t] /\ j.old[t] = None

\* its old version is aside,
Aside(j, d, t) == d[t] = None /\ j.old[t] = j.before[t]

\* or the new one is in place as well.
Placed(j, d, i) == d[j.arts[i].target] = j.arts[i].new /\ j.old[j.arts[i].target] = j.before[j.arts[i].target]

\* The rollback is past the target: it is back, or a step failed and the old
\* version is still in its backup.
Back(j, d, t) == Kept(j, d, t) \/ (j.torn /\ j.old[t] = j.before[t])

IsTarget(j, t) == \E i \in 1 .. Len(j.arts) : j.arts[i].target = t

\* How far a process is with its artifacts.
Progress(step, j, d) ==
    step \in Moving =>
       /\ \A i \in 1 .. Len(j.arts) : i < j.n => Placed(j, d, i)
       /\ step = "undo" => Placed(j, d, j.n)
       /\ step \in {"install", "restore"} => Aside(j, d, j.arts[j.n].target)
       /\ step = "backup" => Kept(j, d, j.arts[j.n].target)
       /\ \A i \in 1 .. Len(j.arts) : i > j.n => Back(j, d, j.arts[i].target)
       /\ \A t \in Targets : ~IsTarget(j, t) => Kept(j, d, t)
       /\ step \in {"backup", "install", "sweep"} => ~j.torn
       /\ step = "sweep" => j.n = Len(j.arts) + 1

PinsOf(d) == IF d["lock"] = None THEN NoPins ELSE d["lock"]

\* What is published: one artifact for a target, stoat.toml only where there is
\* one, and in a sweeping sync each checkout that is not the one due.
Plan(step, j) ==
    step \in Moving =>
       /\ \A i, k \in 1 .. Len(j.arts) : j.arts[i].target = j.arts[k].target => i = k
       /\ \A i \in 1 .. Len(j.arts) : j.arts[i].target = "toml" =>
             j.scope = "project" /\ j.arts[i].new # None /\ j.before["toml"] # None
       /\ j.swept =>
             /\ j.scope = "project"
             /\ \A i \in 1 .. Len(j.arts) :
                   /\ j.arts[i].target \in Packages
                   /\ j.arts[i].new = DueOf(PinsOf(j.before), j.arts[i].target)
             /\ \A r \in Packages :
                   j.before[r] # DueOf(PinsOf(j.before), r) => IsTarget(j, r)

Sound(q) ==
    /\ Held(pc[q], job[q], excl, q)
    /\ Quiet(pc[q], reply[q])
    /\ Progress(pc[q], job[q], disk[job[q].scope])
    /\ Plan(pc[q], job[q])

PublishInv == Typed /\ \A q \in Procs : Sound(q)

-----------------------------------------------------------------------------
(* A process leaves the others alone *)

\* The locks of other processes and the files under them do not change,
Spares(p) ==
    \A s \in Scopes, q \in Procs \ {p} : excl[s] = q => excl'[s] = q /\ disk'[s] = disk[s]

\* nor do their steps and their jobs.
Alone(p) ==
    /\ \A q \in Procs \ {p} : pc'[q] = pc[q] /\ job'[q] = job[q] /\ reply'[q] = reply[q]
    /\ Spares(p)

LEMMA OthersSound ==
    ASSUME PublishInv, NEW p, Alone(p), NEW q \in Procs \ {p}
    PROVE  Sound(q)'
  <1>1. pc'[q] = pc[q] /\ job'[q] = job[q] /\ reply'[q] = reply[q]
    BY DEF Alone
  <1>2. job[q].scope \in Scopes
    BY AskedAre DEF PublishInv
  <1>3. Sound(q)
    BY DEF PublishInv
  <1>4. \A s \in Scopes : excl[s] = q => excl'[s] = q /\ disk'[s] = disk[s]
    BY DEF Alone, Spares
  <1>5. Held(pc'[q], job'[q], excl', q)
    BY <1>1, <1>2, <1>3, <1>4 DEF Sound, Held
  <1>6. Quiet(pc'[q], reply'[q]) /\ Plan(pc'[q], job'[q])
    BY <1>1, <1>3 DEF Sound
  <1>7. Progress(pc'[q], job'[q], disk'[job'[q].scope])
    <2>1. CASE pc[q] \in Moving
      <3>1. excl[job[q].scope] = q
        BY <1>3, <2>1 DEF Sound, Held
      <3>2. disk'[job[q].scope] = disk[job[q].scope]
        BY <1>2, <1>4, <3>1
      <3> QED
        BY <1>1, <1>3, <3>2 DEF Sound
    <2>2. CASE pc[q] \notin Moving
      BY <1>1, <2>2 DEF Progress
    <2> QED
      BY <2>1, <2>2
  <1> QED
    BY <1>5, <1>6, <1>7 DEF Sound

\* One process moves on, with its locks and files.
LEMMA MovesAlone ==
    ASSUME Typed, NEW p \in Procs, NEW step, NEW j, NEW r,
           pc' = [pc EXCEPT ![p] = step], job' = [job EXCEPT ![p] = j],
           reply' = [reply EXCEPT ![p] = r],
           Spares(p)
    PROVE  Alone(p) /\ pc'[p] = step /\ job'[p] = j /\ reply'[p] = r
  BY DEF Typed, ProcsOK, Alone

LEMMA MovesAloneQuietly ==
    ASSUME Typed, NEW p \in Procs, NEW step, NEW j,
           pc' = [pc EXCEPT ![p] = step], job' = [job EXCEPT ![p] = j], reply' = reply,
           Spares(p)
    PROVE  Alone(p) /\ pc'[p] = step /\ job'[p] = j /\ reply'[p] = reply[p]
  BY DEF Typed, ProcsOK, Alone

\* No other process has its lock on the one scope whose files change.
LEMMA FilesAlone ==
    ASSUME Typed, NEW p \in Procs, NEW s \in Scopes, excl[s] = p,
           \A x \in Scopes \ {s} : disk'[x] = disk[x]
    PROVE  \A x \in Scopes, q \in Procs \ {p} : excl[x] = q => disk'[x] = disk[x]
  OBVIOUS

LEMMA IdleSound ==
    ASSUME NEW x, NEW q, NEW d, NEW r
    PROVE  Held("idle", NoJob, x, q) /\ Quiet("idle", r) /\ Progress("idle", NoJob, d) /\ Plan("idle", NoJob)
  BY DEF Held, Quiet, Progress, Plan, Moving, NoJob, Direct

LEMMA ReturnSound ==
    ASSUME Typed, NEW p \in Procs, NEW r, Return(p, r),
           \A s \in Scopes, q \in Procs \ {p} : excl[s] = q => disk'[s] = disk[s]
    PROVE  Alone(p) /\ Sound(p)' /\ pc'[p] = "idle" /\ job'[p] = NoJob /\ reply'[p] = r
  <1>1. \A s \in Scopes, q \in Procs \ {p} : excl[s] = q => excl'[s] = q
    BY UnlockKeeps DEF Return, Typed
  <1>2. Alone(p) /\ pc'[p] = "idle" /\ job'[p] = NoJob /\ reply'[p] = r
    <2>1. /\ pc' = [pc EXCEPT ![p] = "idle"] /\ job' = [job EXCEPT ![p] = NoJob]
          /\ reply' = [reply EXCEPT ![p] = r]
      BY DEF Return, Goto
    <2>2. Spares(p)
      BY <1>1 DEF Spares
    <2> QED
      BY <2>1, <2>2, MovesAlone
  <1> QED
    BY <1>2, IdleSound DEF Sound

\* A process that has nothing published.
LEMMA RestingSound ==
    ASSUME NEW p, pc'[p] \notin Moving, Held(pc'[p], job'[p], excl', p), Quiet(pc'[p], reply'[p])
    PROVE  Sound(p)'
  BY DEF Sound, Progress, Plan

LEMMA BeginSound ==
    ASSUME PublishInv, NEW p \in Procs, NEW o \in Ops \ {"Add"}, NEW s \in Scopes,
           NEW ns \in SUBSET Packages, NEW step \in {"lookup", "wait"}, NEW want \in Seq(Scopes),
           o \in Direct => want = <<s>>,
           Begin(p, o, s, ns, step, want)
    PROVE  Alone(p) /\ Sound(p)' /\ reply'[p] = "none" /\ job'[p].old = Nothing
  <1>1. PICK j \in Job : j = Starting(o, s, ns, want)
    BY StartingIs
  <1>2. j.op = o /\ j.scope = s /\ j.want = want /\ j.old = Nothing
    BY <1>1, StartingIs
  <1>3. /\ job' = [job EXCEPT ![p] = j] /\ pc' = [pc EXCEPT ![p] = step]
        /\ reply' = [reply EXCEPT ![p] = "none"]
    BY <1>1 DEF Begin, Starting, Goto
  <1>4. Spares(p)
    BY DEF Spares, Begin, diskVars, lockVars
  <1>5. Alone(p) /\ pc'[p] = step /\ job'[p] = j /\ reply'[p] = "none"
    BY <1>3, <1>4, MovesAlone DEF PublishInv
  <1>6. Held(step, j, excl', p) /\ step \notin Moving /\ Quiet(step, "none")
    BY <1>2 DEF Held, Moving, Quiet
  <1> QED
    BY <1>2, <1>5, <1>6, RestingSound

LEMMA AddSound ==
    ASSUME PublishInv, NEW p \in Procs, NEW g \in BOOLEAN, NEW r \in Packages, NEW ref \in Refs,
           NEW f \in BOOLEAN, NEW step \in {"lookup", "wait"}, Add(p, g, r, ref, f, step)
    PROVE  Alone(p) /\ Sound(p)' /\ reply'[p] = "none" /\ job'[p].old = Nothing
  <1>1. PICK j : j = [NoJob EXCEPT !.op = "Add", !.scope = ScopeFor(g), !.names = {r}, !.ref = ref,
                                   !.force = f, !.want = <<ScopeFor(g)>>]
    OBVIOUS
  <1>2. j.op = "Add" /\ j.want = <<j.scope>> /\ j.old = Nothing
    BY <1>1 DEF NoJob
  <1>3. /\ job' = [job EXCEPT ![p] = j] /\ pc' = [pc EXCEPT ![p] = step]
        /\ reply' = [reply EXCEPT ![p] = "none"]
    BY <1>1 DEF Add, Goto
  <1>4. Spares(p)
    BY DEF Spares, Add, diskVars, lockVars
  <1>5. Alone(p) /\ pc'[p] = step /\ job'[p] = j /\ reply'[p] = "none"
    BY <1>3, <1>4, MovesAlone DEF PublishInv
  <1>6. Held(step, j, excl', p) /\ step \notin Moving /\ Quiet(step, "none")
    BY <1>2 DEF Held, Moving, Quiet
  <1> QED
    BY <1>2, <1>5, <1>6, RestingSound

LEMMA CallSound ==
    ASSUME PublishInv, NEW p \in Procs, Call(p)
    PROVE  Alone(p) /\ Sound(p)' /\ reply'[p] = "none" /\ job'[p].old = Nothing
  <1> DEFINE Goal == Alone(p) /\ Sound(p)' /\ reply'[p] = "none" /\ job'[p].old = Nothing
  <1> USE WantsAre
  <1>0. "project" \in Scopes /\ "global" \in Scopes /\ Flags \subseteq BOOLEAN
    BY FaultAssumption DEF Scopes
  <1>1. CASE \E g \in Flags, r \in Packages, ref \in Refs, f \in BOOLEAN, step \in {"lookup", "wait"} :
                Add(p, g, r, ref, f, step)
    BY <1>0, <1>1, AddSound
  <1>2. ASSUME NEW o \in Ops \ {"Add"}, NEW s \in Scopes, NEW ns \in SUBSET Packages,
               NEW step \in {"lookup", "wait"}, Begin(p, o, s, ns, step, <<s>>)
        PROVE  Goal
    <2>1. PICK want \in Seq(Scopes) : want = <<s>>
      OBVIOUS
    <2>2. Begin(p, o, s, ns, step, want)
      BY <1>2, <2>1
    <2> QED
      BY <2>1, <2>2, BeginSound
  <1>3. ASSUME NEW o \in Ops \ Direct, NEW s \in Scopes, NEW want \in Seq(Scopes),
               NEW step \in {"lookup", "wait"}, Begin(p, o, s, {}, step, want)
        PROVE  Goal
    BY <1>3, BeginSound DEF Direct
  <1> HIDE DEF Goal
  <1>4. ASSUME NEW g \in Flags, LockAll(p, g) PROVE Goal
    <2>1. PICK s \in Scopes : s = ScopeFor(g)
      OBVIOUS
    <2>2. PICK ns \in SUBSET Packages, step \in {"lookup", "wait"} :
             Begin(p, "LockAll", s, ns, step, <<s>>)
      BY <1>4, <2>1 DEF LockAll
    <2> QED
      BY <1>2, <2>2 DEF Ops
  <1>5. ASSUME NEW g \in Flags, Sync(p, g) PROVE Goal
    <2>1. Begin(p, "Sync", ScopeFor(g), {}, "wait", <<ScopeFor(g)>>) /\ "Sync" \in Ops \ {"Add"}
      BY <1>5 DEF Sync, Ops
    <2> QED
      BY <1>2, <2>1
  <1>6. ASSUME NEW g \in Flags, NEW ns \in SUBSET Packages, Update(p, g, ns) PROVE Goal
    <2>1. Begin(p, "Update", ScopeFor(g), ns, "wait", <<ScopeFor(g)>>) /\ "Update" \in Ops \ {"Add"}
      BY <1>6 DEF Update, Ops
    <2> QED
      BY <1>2, <2>1
  <1>7. ASSUME NEW g \in Flags, NEW r \in Packages, RemoveRecipe(p, g, r) PROVE Goal
    <2>1. Begin(p, "Remove", ScopeFor(g), {r}, "wait", <<ScopeFor(g)>>) /\ "Remove" \in Ops \ {"Add"}
      BY <1>7 DEF RemoveRecipe, Ops
    <2> QED
      BY <1>2, <2>1
  <1>8. ASSUME SyncProject(p) PROVE Goal
    <2>1. PICK s \in Scopes : s = "project"
      BY <1>0
    <2>2. Begin(p, "SyncProject", s, {}, "wait", <<s>>) /\ "SyncProject" \in Ops \ {"Add"}
      BY <1>8, <2>1 DEF SyncProject, Ops
    <2> QED
      BY <1>2, <2>2
  <1>9. ASSUME ListSnapshot(p) PROVE Goal
    <2>1. "ListSnapshot" \in Ops \ Direct
      BY DEF Ops, Direct
    <2>2. Begin(p, "ListSnapshot", "project", {}, "wait", AllScopes)
      BY <1>9 DEF ListSnapshot
    <2> QED
      BY <1>0, <1>3, <2>1, <2>2
  <1>10. ASSUME RepairSnapshot(p) PROVE Goal
    <2>1. "RepairSnapshot" \in Ops \ Direct
      BY DEF Ops, Direct
    <2>2. Begin(p, "RepairSnapshot", "project", {}, "wait", AllScopes)
      BY <1>10 DEF RepairSnapshot
    <2> QED
      BY <1>0, <1>3, <2>1, <2>2
  <1>11. ASSUME SearchIndex(p) PROVE Goal
    <2>1. "SearchIndex" \in Ops \ Direct /\ <<>> \in Seq(Scopes)
      BY Empties DEF Ops, Direct
    <2>2. Begin(p, "SearchIndex", "global", {}, "lookup", <<>>)
      BY <1>11 DEF SearchIndex
    <2> QED
      BY <1>0, <1>3, <2>1, <2>2
  <1>12. Goal
    BY <1>1, <1>4, <1>5, <1>6, <1>7, <1>8, <1>9, <1>10, <1>11 DEF Call, Goal
  <1> QED
    BY <1>12 DEF Goal

LEMMA IndexSound ==
    ASSUME PublishInv, NEW p \in Procs, IndexLock(p) \/ IndexLookup(p) \/ IndexFails(p)
    PROVE  Alone(p) /\ Sound(p)'
  <1>0. Typed /\ Sound(p) /\ job[p] \in Job
    BY JobIs DEF PublishInv
  <1>1. disk' = disk
    BY DEF IndexLock, IndexLookup, IndexFails, diskVars
  <1>2. ASSUME NEW from \in {"lookup", "indexed"}, NEW step \in {"indexed", "wait"}, pc[p] = from,
               Goto(p, step), UNCHANGED <<excl, job, reply>>
        PROVE  Alone(p) /\ Sound(p)'
    <2>1. job' = [job EXCEPT ![p] = job[p]] /\ pc' = [pc EXCEPT ![p] = step]
      BY <1>0, <1>2 DEF Goto, Typed, ProcsOK
    <2>2. Alone(p) /\ pc'[p] = step /\ job'[p] = job[p] /\ reply'[p] = reply[p]
      BY <1>0, <1>1, <1>2, <2>1, MovesAloneQuietly DEF Spares
    <2>3. Held(step, job[p], excl', p) /\ Quiet(step, reply[p]) /\ step \notin Moving
      BY <1>0, <1>2 DEF Sound, Held, Quiet, Moving
    <2> QED
      BY <2>2, <2>3, RestingSound
  <1>3. ASSUME NEW r, Return(p, r) PROVE Alone(p) /\ Sound(p)'
    BY <1>0, <1>1, <1>3, ReturnSound
  <1>4. CASE IndexLock(p)
    BY <1>2, <1>4 DEF IndexLock
  <1>5. CASE IndexLookup(p)
    BY <1>2, <1>3, <1>5 DEF IndexLookup
  <1>6. CASE IndexFails(p)
    BY <1>3, <1>6 DEF IndexFails
  <1> QED
    BY <1>4, <1>5, <1>6

LEMMA LockScopeSound ==
    ASSUME PublishInv, NEW p \in Procs, LockScope(p)
    PROVE  Alone(p) /\ Sound(p)'
  <1>0. Typed /\ Sound(p) /\ job[p] \in Job /\ Shaped("wait", job[p]) /\ pc[p] = "wait"
    BY JobIs DEF PublishInv, LockScope
  <1>1. job[p].want # <<>>
    BY <1>0 DEF Shaped
  <1>2. PICK s \in Scopes : s = Head(job[p].want)
    BY <1>0, <1>1, TailJob
  <1>3. PICK step \in {"wait", "work"} : step = IF Len(job[p].want) > 1 THEN "wait" ELSE "work"
    OBVIOUS
  <1>4. PICK k : k = [job[p] EXCEPT !.want = Tail(@)]
    OBVIOUS
  <1>5. k.op = job[p].op /\ k.scope = job[p].scope
    BY <1>0, <1>4 DEF Job
  <1>6. job' = [job EXCEPT ![p] = k] /\ pc' = [pc EXCEPT ![p] = step] /\ reply' = reply /\ disk' = disk
    BY <1>3, <1>4 DEF LockScope, Goto, diskVars
  <1>7. excl[s] = NoProc /\ (excl' = excl \/ excl' = [excl EXCEPT ![s] = p])
    BY <1>2 DEF LockScope
  <1>8. Spares(p)
    BY <1>0, <1>6, <1>7, NamesAssumption DEF Typed, LocksOK, Spares
  <1>9. Alone(p) /\ pc'[p] = step /\ job'[p] = k /\ reply'[p] = reply[p]
    BY <1>0, <1>6, <1>8, MovesAloneQuietly
  <1>10. job[p].op \in Direct => step = "work" /\ excl'[k.scope] = p
    <2> SUFFICES ASSUME job[p].op \in Direct PROVE step = "work" /\ excl'[k.scope] = p
      OBVIOUS
    <2>1. job[p].want = <<job[p].scope>>
      BY <1>0 DEF Sound, Held
    <2>2. Len(job[p].want) = 1 /\ Head(job[p].want) = job[p].scope
      BY <2>1
    <2>3. job[p].op # "ListSnapshot"
      BY DEF Direct
    <2>4. excl' = [excl EXCEPT ![s] = p]
      BY <1>2, <2>3 DEF LockScope
    <2> QED
      BY <1>0, <1>2, <1>3, <1>5, <2>2, <2>4 DEF Typed, LocksOK
  <1>11. Held(step, k, excl', p) /\ Quiet(step, reply[p]) /\ step \notin Moving
    BY <1>0, <1>5, <1>10 DEF Sound, Held, Quiet, Moving
  <1> QED
    BY <1>9, <1>11, RestingSound

\* What a sync of a project publishes: every checkout that is not the one due.
SweepList(A, s) ==
    /\ s = "project"
    /\ \A i \in 1 .. Len(A) : A[i].target \in Packages /\ A[i].new = DueOf(Pins(s), A[i].target)
    /\ \A r \in Packages :
          disk[s][r] # DueOf(Pins(s), r) => \E i \in 1 .. Len(A) : A[i].target = r

LEMMA SyncSweeps == ASSUME Typed PROVE SweepList(SyncArts("project"), "project")
  <1>1. "project" \in Scopes
    BY DEF Scopes
  <1>2. PICK A : A = SyncArts("project")
    OBVIOUS
  <1>3. PICK S \in SUBSET Artifact :
           /\ Enumerates(A, S)
           /\ \A a \in S : a.target \in Packages /\ a.new = DueOf(Pins("project"), a.target)
           /\ \A r \in Packages :
                 disk["project"][r] # DueOf(Pins("project"), r) => \E a \in S : a.target = r
    BY <1>1, <1>2, SyncArtsAre
  <1>4. (\A i \in 1 .. Len(A) : A[i] \in S) /\ \A a \in S : \E i \in 1 .. Len(A) : A[i] = a
    BY <1>3 DEF Enumerates
  <1>5. \A i \in 1 .. Len(A) : A[i].target \in Packages /\ A[i].new = DueOf(Pins("project"), A[i].target)
    BY <1>3, <1>4
  <1>6. \A r \in Packages :
           disk["project"][r] # DueOf(Pins("project"), r) => \E i \in 1 .. Len(A) : A[i].target = r
    BY <1>3, <1>4
  <1> QED
    BY <1>2, <1>5, <1>6 DEF SweepList

LEMMA PublishSound ==
    ASSUME PublishInv, NEW p \in Procs, pc[p] = "work", excl[job[p].scope] = p,
           NEW A, Publishable(A, job[p].scope),
           NEW sw \in BOOLEAN, sw => SweepList(A, job[p].scope), Publish(p, A, sw)
    PROVE  Alone(p) /\ Sound(p)'
  <1>0. Typed /\ Sound(p) /\ job[p] \in Job /\ Shaped("work", job[p])
    BY JobIs DEF PublishInv
  <1>1. PICK s \in Scopes : s = job[p].scope
    BY <1>0, AskedAre
  <1>2. PICK d \in Holdings : d = disk[s]
    BY <1>0 DEF Typed, DiskOK
  <1>3. /\ A \in Seq(Artifact)
        /\ \A i, k \in 1 .. Len(A) : A[i].target = A[k].target => i = k
        /\ \A i \in 1 .. Len(A) : /\ A[i].target \in Targets
                                  /\ A[i].target = "toml" => s = "project" /\ d["toml"] # None /\ A[i].new # None
    <2>1. \A i \in 1 .. Len(A) : /\ A[i] \in Artifact
                                 /\ A[i].target = "toml" => s = "project" /\ InProject /\ A[i].new # None
      BY <1>1, PublishableIs
    <2>2. \A a \in Artifact : a.target \in Targets
      BY DEF Artifact
    <2> QED
      BY <1>2, <2>1, <2>2, PublishableIs DEF InProject
  <1>4. PICK k \in Job : k = Staged(job[p], A, sw, d)
    BY <1>0, <1>3, StagedIs
  <1>5. /\ k.arts = A /\ k.swept = sw /\ k.before = d /\ k.op = job[p].op /\ k.scope = s
        /\ k.n = job[p].n /\ k.old = job[p].old /\ k.torn = job[p].torn
    BY <1>0, <1>1, <1>3, <1>4, StagedIs
  <1>6. k.n = 1 /\ k.old = Nothing /\ ~k.torn
    BY <1>0, <1>5 DEF Shaped, Moving
  <1>7. PICK step \in {"sweep", "backup"} : step = IF A = <<>> THEN "sweep" ELSE "backup"
    OBVIOUS
  <1>8. job' = [job EXCEPT ![p] = k] /\ pc' = [pc EXCEPT ![p] = step] /\ reply' = reply
        /\ disk' = disk /\ excl' = excl
    BY <1>1, <1>2, <1>4, <1>7 DEF Publish, Goto, Staged, diskVars, lockVars
  <1>9. Alone(p) /\ pc'[p] = step /\ job'[p] = k /\ reply'[p] = reply[p]
    BY <1>0, <1>8, MovesAloneQuietly DEF Spares
  <1>10. Held(step, k, excl', p)
    BY <1>1, <1>5, <1>8 DEF Held
  <1>11. Quiet(step, reply[p])
    BY <1>0 DEF Sound, Quiet
  <1>12. \A t \in Targets : Kept(k, d, t)
    BY <1>5, <1>6, NothingIs DEF Kept
  <1>13. Progress(step, k, d)
    <2>1. Len(A) \in Nat /\ (A = <<>> => Len(A) = 0) /\ (A # <<>> => 1 \in 1 .. Len(A))
      BY <1>3
    <2>2. \A i \in 1 .. Len(k.arts) : ~(i < k.n)
      BY <1>6
    <2>3. \A i \in 1 .. Len(k.arts) : Kept(k, d, k.arts[i].target)
      BY <1>3, <1>5, <1>12
    <2>4. step = "backup" => Kept(k, d, k.arts[k.n].target)
      BY <1>5, <1>6, <1>7, <2>1, <2>3
    <2>5. step = "sweep" => k.n = Len(k.arts) + 1
      BY <1>5, <1>6, <1>7, <2>1
    <2> QED
      BY <1>6, <1>7, <1>12, <2>2, <2>3, <2>4, <2>5 DEF Progress, Back
  <1>14. Plan(step, k)
    <2>1. PinsOf(d) = Pins(s)
      BY <1>2 DEF PinsOf, Pins
    <2>2. sw => /\ s = "project"
                /\ \A i \in 1 .. Len(A) : A[i].target \in Packages /\ A[i].new = DueOf(PinsOf(d), A[i].target)
                /\ \A r \in Packages : d[r] # DueOf(PinsOf(d), r) => IsTarget(k, r)
      BY <1>1, <1>2, <1>5, <2>1 DEF SweepList, IsTarget
    <2> QED
      BY <1>3, <1>5, <2>2 DEF Plan
  <1>15. disk'[k.scope] = d
    BY <1>2, <1>5, <1>8
  <1> QED
    BY <1>9, <1>10, <1>11, <1>13, <1>14, <1>15 DEF Sound

LEMMA NoSpend ==
    ASSUME Typed, Limit["intrusions"] = 0
    PROVE  ~Spend("intrusions")
  BY DEF Typed, RestOK, Spend, Bounded

LEMMA WorkSound ==
    ASSUME PublishInv, Limit["intrusions"] = 0,
           NEW p \in Procs, NEW cs \in [Packages -> Commits], Work(p, cs)
    PROVE  Alone(p) /\ Sound(p)'
  <1>0. Typed /\ Sound(p) /\ pc[p] = "work" /\ job[p] \in Job /\ Shaped("work", job[p]) /\ job[p].scope \in Scopes
    BY JobIs, AskedAre DEF PublishInv, Work
  <1>1. job[p].op \in Direct => excl[job[p].scope] = p
    BY <1>0 DEF Sound, Held
  <1>2. CASE job[p].op = "Add"
    <2>1. excl[job[p].scope] = p
      BY <1>1, <1>2 DEF Direct
    <2>2. Publish(p, AddArts(p, cs), FALSE) /\ Publishable(AddArts(p, cs), job[p].scope)
      BY <1>0, <1>2, AddArtsAre DEF Work
    <2> QED
      BY <1>0, <2>1, <2>2, PublishSound
  <1>3. CASE job[p].op = "Update"
    <2>1. excl[job[p].scope] = p
      BY <1>1, <1>3 DEF Direct
    <2>2. Publish(p, UpdateArts(p, cs), FALSE) /\ Publishable(UpdateArts(p, cs), job[p].scope)
      BY <1>0, <1>3, UpdateArtsAre DEF Work
    <2> QED
      BY <1>0, <2>1, <2>2, PublishSound
  <1>4. CASE job[p].op = "Remove"
    <2>1. excl[job[p].scope] = p
      BY <1>1, <1>4 DEF Direct
    <2>2. Publish(p, RemoveArts(p), FALSE) /\ Publishable(RemoveArts(p), job[p].scope)
      BY <1>0, <1>4, RemoveArtsAre DEF Work
    <2> QED
      BY <1>0, <2>1, <2>2, PublishSound
  <1>5. CASE job[p].op \in {"Sync", "SyncProject"}
    <2>1. excl[job[p].scope] = p
      BY <1>1, <1>5 DEF Direct
    <2>2. PICK sw \in BOOLEAN : sw = (job[p].scope = "project")
      OBVIOUS
    <2>3. Publish(p, SyncArts(job[p].scope), sw)
      BY <1>5, <2>2 DEF Work
    <2>4. sw => SweepList(SyncArts(job[p].scope), job[p].scope)
      BY <1>0, <2>2, SyncSweeps
    <2> QED
      BY <1>0, <2>1, <2>3, <2>4, SyncPublishable, PublishSound
  <1>6. CASE job[p].op = "RepairSnapshot" /\ InProject
    <2>1. job[p].scope = "project"
      BY <1>0, <1>6 DEF Shaped
    <2>2. excl["project"] = p
      BY <1>0, <1>6, NoSpend DEF Work, Intrudes
    <2>3. Publish(p, SyncArts("project"), TRUE)
      BY <1>6 DEF Work
    <2>4. Publishable(SyncArts("project"), "project") /\ SweepList(SyncArts("project"), "project")
      BY <1>0, SyncPublishable, SyncSweeps DEF Scopes
    <2> QED
      BY <1>0, <2>1, <2>2, <2>3, <2>4, PublishSound
  <1>7. CASE job[p].op = "LockAll"
    <2>1. excl[job[p].scope] = p
      BY <1>1, <1>7 DEF Direct
    <2>2. PICK v : disk' = [disk EXCEPT ![job[p].scope]["lock"] = v]
      BY <1>7 DEF Work, LockAllWork
    <2>3. Return(p, "ok")
      BY <1>7 DEF Work, LockAllWork
    <2>4. \A x \in Scopes \ {job[p].scope} : disk'[x] = disk[x]
      BY <1>0, <2>2 DEF Typed, DiskOK
    <2>5. \A x \in Scopes, q \in Procs \ {p} : excl[x] = q => disk'[x] = disk[x]
      BY <2>1, <2>4
    <2> QED
      BY <1>0, <2>3, <2>5, ReturnSound
  <1>8. CASE /\ job[p].op \notin {"Add", "Update", "Remove", "Sync", "SyncProject", "LockAll"}
             /\ ~(job[p].op = "RepairSnapshot" /\ InProject)
    <2>1. Goto(p, "snapshot") /\ UNCHANGED <<diskVars, lockVars, job, reply>>
      BY <1>8 DEF Work
    <2>2. job' = [job EXCEPT ![p] = job[p]] /\ pc' = [pc EXCEPT ![p] = "snapshot"]
      BY <1>0, <2>1 DEF Goto, Typed, ProcsOK
    <2>3. Alone(p) /\ pc'[p] = "snapshot" /\ job'[p] = job[p] /\ reply'[p] = reply[p]
      BY <1>0, <2>1, <2>2, MovesAloneQuietly DEF Spares, diskVars, lockVars
    <2>4. Held("snapshot", job[p], excl', p) /\ Quiet("snapshot", reply[p]) /\ "snapshot" \notin Moving
      BY <1>0 DEF Sound, Held, Quiet, Moving
    <2> QED
      BY <2>3, <2>4, RestingSound
  <1> QED
    BY <1>2, <1>3, <1>4, <1>5, <1>6, <1>7, <1>8

\* From j to k and from d to e only what is about the target t has changed.
SameOff(j, k, d, e, t) ==
    /\ \A u \in Targets \ {t} : e[u] = d[u] /\ k.old[u] = j.old[u]
    /\ j.torn => k.torn

LEMMA OffTarget ==
    ASSUME NEW j, NEW k, Moved(j, k), NEW d, NEW e, NEW t, SameOff(j, k, d, e, t)
    PROVE  /\ \A u \in Targets \ {t} : Kept(j, d, u) => Kept(k, e, u)
           /\ \A u \in Targets \ {t} : Back(j, d, u) => Back(k, e, u)
           /\ \A i \in 1 .. Len(j.arts) :
                 j.arts[i].target \in Targets \ {t} /\ Placed(j, d, i) => Placed(k, e, i)
  BY DEF Moved, SameOff, Kept, Back, Aside, Placed

\* From the artifact n a publication goes on, or its rollback goes back.
NextStop(j, k, e, n, t, step) ==
    /\ \/ k.n = n - 1 /\ n > 1 /\ step = "undo" /\ Back(k, e, t)
       \/ k.n = n /\ step \in {"install", "restore"} /\ Aside(k, e, t)
       \/ /\ k.n = n + 1 /\ Placed(k, e, n)
          /\ (step = "backup" /\ n # Len(j.arts)) \/ (step = "sweep" /\ n = Len(j.arts))
    /\ step \in {"backup", "install", "sweep"} => ~k.torn

\* A step of a publication or a rollback, at the artifact n.
LEMMA ProgressOn ==
    ASSUME NEW j \in Job, NEW k, Moved(j, k), NEW d, NEW e,
           NEW from \in Moving, Progress(from, j, d), Plan(from, j),
           NEW n \in 1 .. Len(j.arts), n = j.n,
           NEW t, t = j.arts[n].target, SameOff(j, k, d, e, t),
           NEW step \in Moving,
           NextStop(j, k, e, n, t, step)
    PROVE  Progress(step, k, e) /\ Plan(step, k)
  <1>1. PICK m \in Nat : m = Len(j.arts) /\ n \in 1 .. m /\ k.arts = j.arts
    BY DEF Job, Moved
  <1>2. \A i \in 1 .. m : j.arts[i].target \in Targets
    <2>1. j.arts \in Seq(Artifact)
      BY DEF Job
    <2>2. \A i \in 1 .. m : j.arts[i] \in Artifact
      BY <1>1, <2>1
    <2> QED
      BY <2>2 DEF Artifact
  <1>3. \A i \in 1 .. m : i # n => j.arts[i].target \in Targets \ {t}
    BY <1>1, <1>2 DEF Plan
  <1>4. \A i \in 1 .. m : i < n => Placed(k, e, i)
    <2>1. \A i \in 1 .. m : i < n => i # n /\ Placed(j, d, i)
      BY <1>1 DEF Progress
    <2> QED
      BY <1>1, <1>3, <2>1, OffTarget
  <1>5. \A i \in 1 .. m : i > n => Back(k, e, j.arts[i].target)
    <2>1. \A i \in 1 .. m : i > n => i # n /\ Back(j, d, j.arts[i].target)
      BY <1>1 DEF Progress
    <2> QED
      BY <1>1, <1>3, <2>1, OffTarget
  <1>6. \A u \in Targets : ~IsTarget(k, u) => Kept(k, e, u)
    <2>1. \A u \in Targets : ~IsTarget(k, u) => ~IsTarget(j, u) /\ u # t
      BY <1>1 DEF IsTarget
    <2>2. \A u \in Targets : ~IsTarget(j, u) => Kept(j, d, u)
      BY DEF Progress
    <2> QED
      BY <2>1, <2>2, OffTarget
  <1>7. Plan(step, k)
    BY DEF Plan, Moved, IsTarget
  <1>8. CASE k.n = n - 1
    <2>0. n - 1 # n /\ n - 1 # n + 1
      BY <1>1
    <2>1. step = "undo" /\ Back(k, e, t) /\ n - 1 \in 1 .. m /\ n - 1 < n
      BY <1>1, <1>8, <2>0 DEF NextStop
    <2>2. \A i \in 1 .. m : i < k.n => i < n
      BY <1>1, <1>8
    <2>3. \A i \in 1 .. m : i > k.n => i > n \/ i = n
      BY <1>1, <1>8
    <2>4. Placed(k, e, k.n)
      BY <1>4, <1>8, <2>1
    <2>5. \A i \in 1 .. m : i < k.n => Placed(k, e, i)
      BY <1>4, <2>2
    <2>6. \A i \in 1 .. m : i > k.n => Back(k, e, j.arts[i].target)
      BY <1>5, <2>1, <2>3
    <2> QED
      BY <1>1, <1>6, <1>7, <2>1, <2>4, <2>5, <2>6 DEF Progress
  <1>9. CASE k.n = n
    <2>1. n # n - 1 /\ n # n + 1
      BY <1>1
    <2>2. step \in {"install", "restore"} /\ Aside(k, e, t) /\ (step = "install" => ~k.torn)
      BY <1>9, <2>1 DEF NextStop
    <2> QED
      BY <1>1, <1>4, <1>5, <1>6, <1>7, <1>9, <2>2 DEF Progress
  <1>10. CASE k.n = n + 1
    <2>0. n + 1 # n - 1 /\ n + 1 # n
      BY <1>1
    <2>1. step \in {"backup", "sweep"} /\ Placed(k, e, n) /\ ~k.torn
          /\ (step = "backup" => n # m) /\ (step = "sweep" => n = m)
      BY <1>1, <1>10, <2>0 DEF NextStop
    <2>2. \A i \in 1 .. m : i < k.n => i < n \/ i = n
      BY <1>1, <1>10
    <2>3. \A i \in 1 .. m : i > k.n => i > n
      BY <1>1, <1>10
    <2>4. \A i \in 1 .. m : i < k.n => Placed(k, e, i)
      BY <1>4, <2>1, <2>2
    <2>5. \A i \in 1 .. m : i > k.n => Back(k, e, j.arts[i].target)
      BY <1>5, <2>3
    <2>6. step = "backup" => Kept(k, e, k.arts[k.n].target)
      <3> SUFFICES ASSUME step = "backup" PROVE Kept(k, e, k.arts[k.n].target)
        OBVIOUS
      <3>1. n + 1 \in 1 .. m /\ n + 1 > n
        BY <1>1, <2>1
      <3>2. Back(k, e, j.arts[n + 1].target)
        BY <1>5, <3>1
      <3> QED
        BY <1>1, <1>10, <2>1, <3>2 DEF Back
    <2>7. step = "sweep" => k.n = m + 1
      BY <1>1, <1>10, <2>1
    <2> QED
      BY <1>1, <1>6, <1>7, <2>1, <2>4, <2>5, <2>6, <2>7 DEF Progress
  <1> QED
    BY <1>8, <1>9, <1>10 DEF NextStop

\* The files of the other scope stay.
Elsewhere(s) == \A x \in Scopes \ {s} : disk'[x] = disk[x]

\* p goes on from j to the step of another, with k, and e is in its scope then.
GoesOn(p, step, k, e) ==
    /\ pc[p] \in Moving /\ step \in Moving /\ Moved(job[p], k) /\ excl' = excl
    /\ Elsewhere(job[p].scope) /\ e = disk'[job[p].scope]
    /\ Progress(step, k, e) /\ Plan(step, k)
    /\ pc' = [pc EXCEPT ![p] = step] /\ job' = [job EXCEPT ![p] = k] /\ reply' = reply

LEMMA MovingSound ==
    ASSUME PublishInv, NEW p \in Procs, pc[p] \in Moving, NEW step \in Moving,
           NEW k, Moved(job[p], k), excl' = excl,
           Elsewhere(job[p].scope), NEW e, e = disk'[job[p].scope],
           Progress(step, k, e), Plan(step, k),
           pc' = [pc EXCEPT ![p] = step], job' = [job EXCEPT ![p] = k], reply' = reply
    PROVE  Alone(p) /\ Sound(p)' /\ pc'[p] = step /\ job'[p] = k /\ reply'[p] = "none"
  <1>0. Typed /\ Sound(p) /\ job[p].scope \in Scopes
    BY AskedAre DEF PublishInv
  <1>1. excl[job[p].scope] = p
    BY <1>0 DEF Sound, Held
  <1>2. Spares(p)
    BY <1>1 DEF Spares, Elsewhere
  <1>3. Alone(p) /\ pc'[p] = step /\ job'[p] = k /\ reply'[p] = reply[p]
    BY <1>0, <1>2, MovesAloneQuietly
  <1>4. Held(step, k, excl', p)
    BY <1>1 DEF Held, Moved, Moving
  <1>5. reply[p] = "none"
    BY <1>0 DEF Sound, Quiet, Moving
  <1>6. Progress(step, k, disk'[k.scope])
    BY DEF Moved
  <1> QED
    BY <1>3, <1>4, <1>5, <1>6 DEF Sound, Quiet

LEMMA GoingOnSound ==
    ASSUME PublishInv, NEW p \in Procs, NEW step, NEW k, NEW e, GoesOn(p, step, k, e)
    PROVE  Alone(p) /\ Sound(p)' /\ pc'[p] = step /\ job'[p] = k /\ reply'[p] = "none"
  BY MovingSound DEF GoesOn

\* Where a process that moves files stands.
LEMMA Standing ==
    ASSUME PublishInv, NEW p \in Procs, pc[p] \in {"backup", "install", "undo", "restore"}
    PROVE  /\ Typed /\ Sound(p) /\ job[p] \in Job /\ pc[p] \in Moving
           /\ job[p].n \in 1 .. Len(job[p].arts)
           /\ Current(p) = job[p].arts[job[p].n]
           /\ Current(p).target \in Targets /\ Current(p).new \in Content(Current(p).target)
           /\ job[p].scope \in Scopes /\ disk[job[p].scope] \in Holdings
           /\ job[p].old \in Holdings /\ job[p].before \in Holdings
           /\ job[p].scope = "global" => Current(p).target \notin {"toml", "ignore"}
           /\ excl[job[p].scope] = p
           /\ Progress(pc[p], job[p], disk[job[p].scope]) /\ Plan(pc[p], job[p])
  <1>1. Typed /\ Sound(p) /\ pc[p] \in Moving
    BY DEF PublishInv, Moving
  <1>2. job[p] \in Job
    BY <1>1, JobIs
  <1>3. job[p].old \in Holdings /\ job[p].before \in Holdings
    BY <1>2 DEF Job
  <1>4. job[p].scope \in Scopes /\ disk[job[p].scope] \in Holdings
    BY <1>1, AskedAre DEF Typed, DiskOK
  <1> QED
    BY <1>1, <1>2, <1>3, <1>4, CurrentIs DEF Sound, Held

\* The declarations are in place, or in a backup of p or of an earlier process.
DeclOf(q) == InProject \/ saved \/ job[q].old["toml"] # None

\* While a process has nothing published its files are not aside.
LEMMA DeclRests ==
    ASSUME Typed, NEW p \in Procs, pc[p] \notin Moving, saved' = saved,
           disk'["project"]["toml"] = disk["project"]["toml"]
    PROVE  DeclOf(p) => DeclOf(p)'
  <1>1. job[p].old = Nothing
    BY JobIs DEF Shaped
  <1>2. job[p].old["toml"] = None
    BY <1>1, NothingIs, TargetsAre
  <1> QED
    BY <1>2 DEF DeclOf, InProject

LEMMA BackupSound ==
    ASSUME PublishInv, NEW p \in Procs, Backup(p)
    PROVE  Alone(p) /\ Sound(p)' /\ (DeclOf(p) => DeclOf(p)') /\ reply'[p] = "none"
  <1>a. pc[p] = "backup"
    BY DEF Backup
  <1>0. /\ Typed /\ Sound(p) /\ job[p] \in Job /\ pc[p] = "backup"
        /\ job[p].n \in 1 .. Len(job[p].arts)
        /\ Current(p) = job[p].arts[job[p].n] /\ Current(p).target \in Targets
        /\ job[p].scope \in Scopes /\ disk[job[p].scope] \in Holdings /\ job[p].old \in Holdings
        /\ job[p].scope = "global" => Current(p).target \notin {"toml", "ignore"}
        /\ Progress("backup", job[p], disk[job[p].scope]) /\ Plan("backup", job[p])
    BY <1>a, Standing
  <1>1. PICK s \in Scopes : s = job[p].scope
    BY <1>0
  <1>2. PICK n \in 1 .. Len(job[p].arts) : n = job[p].n
    BY <1>0
  <1>3. PICK t \in Targets : t = Current(p).target /\ t = job[p].arts[n].target
    BY <1>0, <1>2
  <1>4. PICK j \in Job, d \in Holdings :
           /\ j = job[p] /\ d = disk[s] /\ j.old \in Holdings
           /\ Progress("backup", j, d) /\ Plan("backup", j)
    BY <1>0, <1>1
  <1>5. PICK e \in Holdings : e = [d EXCEPT ![t] = None]
    BY HoldingEdit, TargetsAre
  <1>6. e[t] = None /\ \A u \in Targets \ {t} : e[u] = d[u]
    BY <1>5, HoldingEdit, TargetsAre
  <1>7. PICK o \in Holdings : o = [j.old EXCEPT ![t] = d[t]]
    BY <1>4, HoldingIs, HoldingEdit
  <1>8. o[t] = d[t] /\ \A u \in Targets \ {t} : o[u] = j.old[u]
    BY <1>4, <1>7, HoldingIs, HoldingEdit
  <1>9. PICK k : k = [j EXCEPT !.old = o]
    OBVIOUS
  <1>10. Moved(j, k) /\ k.n = n /\ k.old = o /\ k.torn = j.torn
    BY <1>2, <1>4, <1>9 DEF Job, Moved
  <1>11. /\ disk' = [disk EXCEPT ![s] = e] /\ job' = [job EXCEPT ![p] = k]
         /\ pc' = [pc EXCEPT ![p] = "install"] /\ reply' = reply /\ excl' = excl /\ saved' = saved
    BY <1>1, <1>3, <1>4, <1>5, <1>7, <1>9 DEF Backup, Goto, lockVars
  <1>12. disk'[s] = e /\ \A x \in Scopes \ {s} : disk'[x] = disk[x]
    BY <1>0, <1>11 DEF Typed, DiskOK
  <1>13. Kept(j, d, t) /\ ~j.torn
    BY <1>2, <1>3, <1>4 DEF Progress, Moving
  <1>14. SameOff(j, k, d, e, t) /\ Aside(k, e, t)
    BY <1>6, <1>8, <1>10, <1>13 DEF SameOff, Aside, Kept, Moved
  <1>15. Progress("install", k, e) /\ Plan("install", k)
    <2>1. "install" \in Moving /\ "backup" \in Moving
      BY DEF Moving
    <2>2. NextStop(j, k, e, n, t, "install")
      BY <1>10, <1>13, <1>14 DEF NextStop
    <2> QED
      BY <1>2, <1>3, <1>4, <1>10, <1>14, <2>1, <2>2, ProgressOn
  <1>16. Alone(p) /\ Sound(p)' /\ job'[p] = k /\ reply'[p] = "none"
    <2>1. "install" \in Moving /\ pc[p] \in Moving /\ Elsewhere(job[p].scope)
          /\ e = disk'[job[p].scope] /\ Moved(job[p], k)
      BY <1>0, <1>1, <1>4, <1>10, <1>12 DEF Moving, Elsewhere
    <2> QED
      BY <1>11, <1>15, <2>1, MovingSound
  <1>17. DeclOf(p) => DeclOf(p)'
    <2>1. CASE s = "project" /\ t = "toml"
      <3>1. j.old["toml"] = None
        BY <1>13, <2>1 DEF Kept
      <3>2. d["toml"] = disk["project"]["toml"] /\ k.old["toml"] = d["toml"]
        BY <1>4, <1>8, <1>10, <2>1
      <3> QED
        BY <1>4, <1>11, <1>16, <3>1, <3>2 DEF DeclOf, InProject
    <2>2. CASE s # "project"
      <3>1. s = "global" /\ "project" \in Scopes \ {s}
        BY <2>2 DEF Scopes
      <3>2. t # "toml" /\ "toml" \in Targets
        BY <1>0, <1>1, <1>3, <3>1, TargetsAre
      <3>3. k.old["toml"] = j.old["toml"] /\ disk'["project"] = disk["project"]
        BY <1>8, <1>10, <1>12, <3>1, <3>2
      <3> QED
        BY <1>4, <1>11, <1>16, <3>3 DEF DeclOf, InProject
    <2>3. CASE s = "project" /\ t # "toml"
      <3>1. k.old["toml"] = j.old["toml"] /\ e["toml"] = d["toml"]
        BY <1>6, <1>8, <1>10, <2>3, TargetsAre
      <3> QED
        BY <1>4, <1>11, <1>12, <1>16, <2>3, <3>1 DEF DeclOf, InProject
    <2> QED
      BY <2>1, <2>2, <2>3
  <1> QED
    BY <1>16, <1>17

LEMMA InstallSound ==
    ASSUME PublishInv, NEW p \in Procs, Install(p)
    PROVE  Alone(p) /\ Sound(p)' /\ (DeclOf(p) => DeclOf(p)') /\ reply'[p] = "none"
  <1>a. pc[p] = "install"
    BY DEF Install
  <1>0. /\ Typed /\ Sound(p) /\ job[p] \in Job /\ pc[p] = "install"
        /\ job[p].n \in 1 .. Len(job[p].arts)
        /\ Current(p) = job[p].arts[job[p].n] /\ Current(p).target \in Targets
        /\ Current(p).new \in Content(Current(p).target)
        /\ job[p].scope \in Scopes /\ disk[job[p].scope] \in Holdings /\ job[p].old \in Holdings
        /\ job[p].scope = "global" => Current(p).target \notin {"toml", "ignore"}
        /\ Progress("install", job[p], disk[job[p].scope]) /\ Plan("install", job[p])
    BY <1>a, Standing
  <1>1. PICK s \in Scopes : s = job[p].scope
    BY <1>0
  <1>2. PICK n \in 1 .. Len(job[p].arts) : n = job[p].n
    BY <1>0
  <1>3. PICK t \in Targets : t = Current(p).target /\ t = job[p].arts[n].target
    BY <1>0, <1>2
  <1>4. PICK j \in Job, d \in Holdings :
           /\ j = job[p] /\ d = disk[s] /\ j.old \in Holdings
           /\ Progress("install", j, d) /\ Plan("install", j)
    BY <1>0, <1>1
  <1>5. PICK v \in Content(t) : v = j.arts[n].new
    BY <1>0, <1>2, <1>3, <1>4
  <1>6. PICK e \in Holdings : e = [d EXCEPT ![t] = v]
    BY HoldingEdit
  <1>7. e[t] = v /\ \A u \in Targets \ {t} : e[u] = d[u]
    BY <1>6, HoldingEdit
  <1>8. PICK k : k = [j EXCEPT !.n = @ + 1]
    OBVIOUS
  <1>9. Moved(j, k) /\ k.n = n + 1 /\ k.old = j.old /\ k.torn = j.torn
    BY <1>2, <1>4, <1>8 DEF Job, Moved
  <1>10. PICK step \in {"sweep", "backup"} : step = IF n = Len(j.arts) THEN "sweep" ELSE "backup"
    OBVIOUS
  <1>11. /\ disk' = [disk EXCEPT ![s] = e] /\ job' = [job EXCEPT ![p] = k]
         /\ pc' = [pc EXCEPT ![p] = step] /\ reply' = reply /\ excl' = excl /\ saved' = saved
    <2>1. Current(p).new = v
      BY <1>0, <1>2, <1>4, <1>5
    <2> QED
      BY <1>1, <1>2, <1>3, <1>4, <1>6, <1>8, <1>10, <2>1 DEF Install, Goto, lockVars
  <1>12. disk'[s] = e /\ \A x \in Scopes \ {s} : disk'[x] = disk[x]
    BY <1>0, <1>11 DEF Typed, DiskOK
  <1>13. Aside(j, d, t) /\ ~j.torn
    BY <1>2, <1>3, <1>4 DEF Progress, Moving
  <1>14. SameOff(j, k, d, e, t) /\ Placed(k, e, n)
    BY <1>3, <1>4, <1>5, <1>7, <1>9, <1>13 DEF SameOff, Aside, Placed, Moved
  <1>15. Progress(step, k, e) /\ Plan(step, k)
    <2>1. "install" \in Moving /\ step \in Moving
      BY DEF Moving
    <2>2. NextStop(j, k, e, n, t, step)
      <3>1. (step = "backup" /\ n # Len(j.arts)) \/ (step = "sweep" /\ n = Len(j.arts))
        BY <1>10
      <3>2. ~k.torn
        BY <1>9, <1>13
      <3> QED
        BY <1>9, <1>14, <3>1, <3>2 DEF NextStop
    <2> QED
      BY <1>2, <1>3, <1>4, <1>9, <1>14, <2>1, <2>2, ProgressOn
  <1>16. Alone(p) /\ Sound(p)' /\ job'[p] = k /\ reply'[p] = "none"
    <2>1. step \in Moving /\ pc[p] \in Moving /\ Elsewhere(job[p].scope)
          /\ e = disk'[job[p].scope] /\ Moved(job[p], k)
      BY <1>0, <1>1, <1>4, <1>9, <1>12 DEF Moving, Elsewhere
    <2>2. /\ pc' = [pc EXCEPT ![p] = step] /\ job' = [job EXCEPT ![p] = k]
          /\ reply' = reply /\ excl' = excl
      BY <1>11
    <2> QED
      BY <1>15, <2>1, <2>2, MovingSound
  <1>17. DeclOf(p) => DeclOf(p)'
    <2>1. CASE s = "project" /\ t = "toml"
      <3>1. v # None
        BY <1>3, <1>4, <1>5, <2>1 DEF Plan, Moving
      <3> QED
        BY <1>7, <1>12, <2>1, <3>1 DEF DeclOf, InProject
    <2>2. CASE s # "project"
      <3>1. "project" \in Scopes \ {s}
        BY <2>2 DEF Scopes
      <3>2. disk'["project"] = disk["project"]
        BY <1>12, <3>1
      <3> QED
        BY <1>4, <1>9, <1>11, <1>16, <3>2 DEF DeclOf, InProject
    <2>3. CASE s = "project" /\ t # "toml"
      <3>1. e["toml"] = d["toml"]
        BY <1>7, <2>3, TargetsAre
      <3> QED
        BY <1>4, <1>9, <1>11, <1>12, <1>16, <2>3, <3>1 DEF DeclOf, InProject
    <2> QED
      BY <2>1, <2>2, <2>3
  <1> QED
    BY <1>16, <1>17

\* A failed command leaves its scope as it found it.
Leaves(p) == reply'[p] = "error" => disk'[job[p].scope] = job[p].before

\* Until its first rename an operation has changed nothing.
LEMMA AllKept ==
    ASSUME NEW j \in Job, NEW d \in Holdings, Progress("backup", j, d), j.n = 1,
           1 \in 1 .. Len(j.arts)
    PROVE  d = j.before /\ \A t \in Targets : j.old[t] = None
  <1>1. PICK m \in Nat : m = Len(j.arts)
    BY DEF Job
  <1>2. Kept(j, d, j.arts[1].target) /\ ~j.torn
    BY DEF Progress, Moving
  <1>3. \A i \in 1 .. m : i = 1 \/ i > 1
    BY <1>1
  <1>4. \A i \in 1 .. m : Kept(j, d, j.arts[i].target)
    BY <1>1, <1>2, <1>3 DEF Progress, Moving, Back
  <1>5. \A t \in Targets : ~IsTarget(j, t) => Kept(j, d, t)
    BY DEF Progress, Moving
  <1>6. \A t \in Targets : Kept(j, d, t)
    BY <1>1, <1>4, <1>5 DEF IsTarget
  <1>7. j.before \in Holdings
    BY DEF Job
  <1> QED
    BY <1>6, <1>7, HoldingsEqual DEF Kept

LEMMA PublishFailsSound ==
    ASSUME PublishInv, NEW p \in Procs, PublishFails(p)
    PROVE  Alone(p) /\ Sound(p)' /\ (DeclOf(p) => DeclOf(p)') /\ Leaves(p)
  <1>0. Typed /\ disk' = disk /\ saved' = saved
    BY DEF PublishInv, PublishFails, diskVars
  <1>1. CASE pc[p] = "backup" /\ job[p].n = 1 /\ Return(p, "error")
    <2>1. Alone(p) /\ Sound(p)' /\ job'[p] = NoJob
      BY <1>0, <1>1, ReturnSound
    <2>2. disk[job[p].scope] = job[p].before /\ \A t \in Targets : job[p].old[t] = None
      BY <1>1, Standing, AllKept
    <2>3. DeclOf(p) => DeclOf(p)'
      BY <1>0, <2>2, TargetsAre DEF DeclOf, InProject
    <2> QED
      BY <1>0, <2>1, <2>2, <2>3 DEF Leaves
  <1>2. CASE /\ pc[p] = "backup" /\ job[p].n > 1
             /\ job' = [job EXCEPT ![p].n = @ - 1]
             /\ Goto(p, "undo")
             /\ UNCHANGED <<lockVars, reply>>
    <2>0. /\ Sound(p) /\ job[p] \in Job /\ job[p].n \in 1 .. Len(job[p].arts)
          /\ job[p].scope \in Scopes /\ disk[job[p].scope] \in Holdings
          /\ Progress("backup", job[p], disk[job[p].scope]) /\ Plan("backup", job[p])
      BY <1>2, Standing
    <2>1. PICK j \in Job, d \in Holdings :
             /\ j = job[p] /\ d = disk[job[p].scope]
             /\ Progress("backup", j, d) /\ Plan("backup", j)
      BY <2>0
    <2>2. PICK n \in 1 .. Len(j.arts) : n = j.n /\ n > 1
      BY <1>2, <2>0, <2>1
    <2>3. PICK t : t = j.arts[n].target
      OBVIOUS
    <2>4. PICK k : k = [job[p] EXCEPT !.n = @ - 1]
      OBVIOUS
    <2>5. Moved(j, k) /\ k.n = n - 1 /\ k.old = j.old /\ k.torn = j.torn
      BY <1>0, <1>2, <2>1, <2>2, <2>4, StepBackPlain
    <2>6. SameOff(j, k, d, d, t) /\ Back(k, d, t)
      BY <2>1, <2>2, <2>3, <2>5 DEF SameOff, Progress, Moving, Moved, Back, Kept
    <2>7. NextStop(j, k, d, n, t, "undo")
      BY <2>2, <2>5, <2>6 DEF NextStop
    <2>8. Progress("undo", k, d) /\ Plan("undo", k)
      BY <2>1, <2>2, <2>3, <2>5, <2>6, <2>7, ProgressOn DEF Moving
    <2>9. /\ pc' = [pc EXCEPT ![p] = "undo"] /\ job' = [job EXCEPT ![p] = k]
          /\ reply' = reply /\ excl' = excl
      BY <1>2, <2>4 DEF Goto, lockVars
    <2>10. "undo" \in Moving /\ pc[p] \in Moving /\ Elsewhere(job[p].scope)
           /\ d = disk'[job[p].scope] /\ Moved(job[p], k)
      BY <1>0, <1>2, <2>1, <2>5 DEF Moving, Elsewhere
    <2>11. Alone(p) /\ Sound(p)' /\ job'[p] = k /\ reply'[p] = "none"
      <3>1. GoesOn(p, "undo", k, d)
        BY <2>8, <2>9, <2>10 DEF GoesOn
      <3> QED
        BY <3>1, GoingOnSound
    <2> QED
      BY <1>0, <2>1, <2>5, <2>11 DEF DeclOf, InProject, Leaves
  <1>3. CASE /\ pc[p] = "install" /\ Current(p).new # None
             /\ Goto(p, "restore")
             /\ UNCHANGED <<lockVars, job, reply>>
    <2>0. /\ Sound(p) /\ job[p] \in Job /\ job[p].n \in 1 .. Len(job[p].arts)
          /\ job[p].scope \in Scopes /\ disk[job[p].scope] \in Holdings
          /\ Progress("install", job[p], disk[job[p].scope]) /\ Plan("install", job[p])
      BY <1>3, Standing
    <2>1. PICK j \in Job, d \in Holdings :
             /\ j = job[p] /\ d = disk[job[p].scope]
             /\ Progress("install", j, d) /\ Plan("install", j)
      BY <2>0
    <2>2. PICK n \in 1 .. Len(j.arts) : n = j.n
      BY <2>0, <2>1
    <2>3. PICK t : t = j.arts[n].target
      OBVIOUS
    <2>4. Moved(j, j)
      BY DEF Moved
    <2>5. SameOff(j, j, d, d, t) /\ Aside(j, d, t)
      BY <2>1, <2>2, <2>3 DEF SameOff, Progress, Moving
    <2>6. NextStop(j, j, d, n, t, "restore")
      BY <2>2, <2>5 DEF NextStop
    <2>7. Progress("restore", j, d) /\ Plan("restore", j)
      BY <2>1, <2>2, <2>3, <2>4, <2>5, <2>6, ProgressOn DEF Moving
    <2>8. /\ pc' = [pc EXCEPT ![p] = "restore"] /\ job' = [job EXCEPT ![p] = j]
          /\ reply' = reply /\ excl' = excl
      BY <1>0, <1>3, <2>1 DEF Goto, lockVars, Typed, ProcsOK
    <2>9. "restore" \in Moving /\ pc[p] \in Moving /\ Elsewhere(job[p].scope)
          /\ d = disk'[job[p].scope] /\ Moved(job[p], j)
      BY <1>0, <1>3, <2>1, <2>4 DEF Moving, Elsewhere
    <2>10. Alone(p) /\ Sound(p)' /\ job'[p] = j /\ reply'[p] = "none"
      <3>1. GoesOn(p, "restore", j, d)
        BY <2>7, <2>8, <2>9 DEF GoesOn
      <3> QED
        BY <3>1, GoingOnSound
    <2> QED
      BY <1>0, <2>1, <2>10 DEF DeclOf, InProject, Leaves
  <1> QED
    BY <1>1, <1>2, <1>3 DEF PublishFails

LEMMA UndoSound ==
    ASSUME PublishInv, NEW p \in Procs, Undo(p)
    PROVE  Alone(p) /\ Sound(p)' /\ (DeclOf(p) => DeclOf(p)') /\ reply'[p] = "none"
  <1>a. pc[p] = "undo"
    BY DEF Undo
  <1>0. /\ Typed /\ Sound(p) /\ job[p] \in Job /\ pc[p] = "undo"
        /\ job[p].n \in 1 .. Len(job[p].arts)
        /\ Current(p) = job[p].arts[job[p].n] /\ Current(p).target \in Targets
        /\ job[p].scope \in Scopes /\ disk[job[p].scope] \in Holdings
        /\ job[p].old \in Holdings /\ job[p].before \in Holdings
        /\ job[p].scope = "global" => Current(p).target \notin {"toml", "ignore"}
        /\ excl[job[p].scope] = p
        /\ Progress("undo", job[p], disk[job[p].scope]) /\ Plan("undo", job[p])
    BY <1>a, Standing
  <1>1. PICK s \in Scopes : s = job[p].scope
    BY <1>0
  <1>2. PICK n \in 1 .. Len(job[p].arts) : n = job[p].n
    BY <1>0
  <1>3. PICK t \in Targets : t = Current(p).target /\ t = job[p].arts[n].target
    BY <1>0, <1>2
  <1>4. PICK j \in Job, d \in Holdings :
           /\ j = job[p] /\ d = disk[s] /\ j.old \in Holdings /\ j.before \in Holdings
           /\ Progress("undo", j, d) /\ Plan("undo", j)
    BY <1>0, <1>1
  <1>5. PICK e \in Holdings : e = [d EXCEPT ![t] = None]
    BY HoldingEdit, TargetsAre
  <1>6. e[t] = None /\ \A u \in Targets \ {t} : e[u] = d[u]
    BY <1>5, HoldingEdit, TargetsAre
  <1>7. Moved(j, j)
    BY DEF Moved
  <1>8. /\ disk' = [disk EXCEPT ![s] = e] /\ job' = [job EXCEPT ![p] = j]
        /\ pc' = [pc EXCEPT ![p] = "restore"] /\ reply' = reply /\ excl' = excl /\ saved' = saved
    BY <1>0, <1>1, <1>3, <1>4, <1>5 DEF Undo, Goto, lockVars, Typed, ProcsOK
  <1>9. disk'[s] = e /\ \A x \in Scopes \ {s} : disk'[x] = disk[x]
    BY <1>0, <1>8 DEF Typed, DiskOK
  <1>10. j.old[t] = j.before[t]
    BY <1>2, <1>3, <1>4 DEF Progress, Moving, Placed
  <1>11. SameOff(j, j, d, e, t) /\ Aside(j, e, t)
    BY <1>6, <1>10 DEF SameOff, Aside
  <1>12. Progress("restore", j, e) /\ Plan("restore", j)
    <2>1. "undo" \in Moving /\ "restore" \in Moving
      BY DEF Moving
    <2>2. NextStop(j, j, e, n, t, "restore")
      BY <1>2, <1>4, <1>11 DEF NextStop
    <2> QED
      BY <1>2, <1>3, <1>4, <1>7, <1>11, <2>1, <2>2, ProgressOn
  <1>13. Alone(p) /\ Sound(p)' /\ job'[p] = j /\ reply'[p] = "none"
    <2>1. "restore" \in Moving /\ pc[p] \in Moving /\ Elsewhere(job[p].scope)
          /\ e = disk'[job[p].scope] /\ Moved(job[p], j)
      BY <1>0, <1>1, <1>4, <1>7, <1>9 DEF Moving, Elsewhere
    <2> QED
      BY <1>8, <1>12, <2>1, MovingSound
  <1>14. DeclOf(p) => DeclOf(p)'
    <2>1. CASE t = "toml"
      <3>1. j.before["toml"] # None
        BY <1>2, <1>3, <1>4, <2>1 DEF Plan, Moving
      <3> QED
        BY <1>10, <1>13, <2>1, <3>1 DEF DeclOf
    <2>2. CASE t # "toml"
      <3>1. e["toml"] = d["toml"]
        BY <1>6, <2>2, TargetsAre
      <3>2. disk'["project"]["toml"] = disk["project"]["toml"]
        BY <1>4, <1>9, <3>1 DEF Scopes
      <3> QED
        BY <1>4, <1>8, <1>13, <3>2 DEF DeclOf, InProject
    <2> QED
      BY <2>1, <2>2
  <1> QED
    BY <1>13, <1>14

LEMMA RestoreSound ==
    ASSUME PublishInv, NEW p \in Procs, Restore(p) \/ UndoFails(p)
    PROVE  Alone(p) /\ Sound(p)' /\ (DeclOf(p) => DeclOf(p)') /\ Leaves(p)
  <1>a. PICK from \in {"undo", "restore"} : pc[p] = from
    BY DEF Restore, UndoFails
  <1>0. /\ Typed /\ Sound(p) /\ job[p] \in Job /\ pc[p] = from
        /\ job[p].n \in 1 .. Len(job[p].arts)
        /\ Current(p) = job[p].arts[job[p].n] /\ Current(p).target \in Targets
        /\ job[p].scope \in Scopes /\ disk[job[p].scope] \in Holdings
        /\ job[p].old \in Holdings /\ job[p].before \in Holdings
        /\ job[p].scope = "global" => Current(p).target \notin {"toml", "ignore"}
        /\ excl[job[p].scope] = p
        /\ Progress(from, job[p], disk[job[p].scope]) /\ Plan(from, job[p])
    BY <1>a, Standing
  <1>1. PICK s \in Scopes : s = job[p].scope
    BY <1>0
  <1>2. PICK n \in 1 .. Len(job[p].arts) : n = job[p].n
    BY <1>0
  <1>3. PICK t \in Targets : t = Current(p).target /\ t = job[p].arts[n].target
    BY <1>0, <1>2
  <1>4. PICK j \in Job, d \in Holdings :
           /\ j = job[p] /\ d = disk[s] /\ j.old \in Holdings /\ j.before \in Holdings
           /\ Progress(from, j, d) /\ Plan(from, j)
    BY <1>0, <1>1
  <1>5. j.torn \in BOOLEAN
    BY DEF Job
  <1>6. PICK ok \in BOOLEAN, o \in Holdings, b \in BOOLEAN :
           /\ o = IF ok THEN [j.old EXCEPT ![t] = None] ELSE j.old
           /\ b = (j.torn \/ ~ok)
           /\ disk' = IF ok THEN [disk EXCEPT ![s][t] = j.old[t]] ELSE disk
           /\ IF j.n > 1
              THEN /\ job' = [job EXCEPT ![p].n = @ - 1, ![p].old = o, ![p].torn = b]
                   /\ Goto(p, "undo")
                   /\ UNCHANGED <<junk, saved, lockVars, reply>>
              ELSE LeaveBackups(p, o) /\ Return(p, IF b THEN "torn" ELSE "error")
    <2>1. PICK ok \in BOOLEAN :
            /\ disk' = IF ok THEN [disk EXCEPT ![s][t] = j.old[t]] ELSE disk
            /\ RollOn(p, IF ok THEN [j.old EXCEPT ![t] = None] ELSE j.old, j.torn \/ ~ok)
            /\ from = "undo" => ~ok
      <3>1. CASE Restore(p)
        BY <1>a, <1>1, <1>3, <1>4, <3>1 DEF Restore
      <3>2. CASE UndoFails(p)
        BY <1>4, <3>2 DEF UndoFails
      <3> QED
        BY <3>1, <3>2
    <2>2. PICK o \in Holdings : o = IF ok THEN [j.old EXCEPT ![t] = None] ELSE j.old
      BY <1>4, HoldingEdit, TargetsAre
    <2>3. PICK b \in BOOLEAN : b = (j.torn \/ ~ok)
      OBVIOUS
    <2> QED
      BY <1>4, <2>1, <2>2, <2>3 DEF RollOn
  <1>7. PICK e \in Holdings : e = IF ok THEN [d EXCEPT ![t] = j.old[t]] ELSE d
    <2>1. j.old[t] \in Content(t)
      BY <1>4, HoldingIs
    <2> QED
      BY <2>1, HoldingEdit
  <1>8. disk' = [disk EXCEPT ![s] = e]
    BY <1>0, <1>4, <1>6, <1>7 DEF Typed, DiskOK
  <1>9. disk'[s] = e /\ \A x \in Scopes \ {s} : disk'[x] = disk[x]
    BY <1>0, <1>8 DEF Typed, DiskOK
  <1>10. j.old[t] = j.before[t]
    BY <1>2, <1>3, <1>4 DEF Progress, Moving, Aside, Placed
  <1>11. /\ \A u \in Targets \ {t} : e[u] = d[u] /\ o[u] = j.old[u]
         /\ ok => e[t] = j.before[t] /\ o[t] = None
         /\ ~ok => e = d /\ o = j.old
    <2>1. j.old[t] \in Content(t) /\ None \in Content(t)
      BY <1>4, HoldingIs, TargetsAre
    <2>2. CASE ok
      <3>1. e = [d EXCEPT ![t] = j.old[t]] /\ o = [j.old EXCEPT ![t] = None]
        BY <1>6, <1>7, <2>2
      <3>2. e[t] = j.old[t] /\ \A u \in Targets \ {t} : e[u] = d[u]
        BY <2>1, <3>1, HoldingEdit
      <3>3. o[t] = None /\ \A u \in Targets \ {t} : o[u] = j.old[u]
        BY <1>4, <2>1, <3>1, HoldingEdit
      <3> QED
        BY <1>10, <2>2, <3>2, <3>3
    <2>3. CASE ~ok
      BY <1>6, <1>7, <2>3
    <2> QED
      BY <2>2, <2>3
  <1>12. CASE j.n > 1
    <2>1. PICK k : k = SteppedBack(j, o, b)
      OBVIOUS
    <2>2. Moved(j, k) /\ k.n = n - 1 /\ k.old = o /\ k.torn = b
      <3>1. pc[p] \in {"backup", "install", "undo", "restore"} /\ job[p].n > 1
            /\ k = SteppedBack(job[p], o, b)
        BY <1>0, <1>4, <1>12, <2>1
      <3>2. o \in Holdings /\ b \in BOOLEAN
        BY <1>6
      <3>3. Moved(job[p], k) /\ k.n = job[p].n - 1 /\ k.old = o /\ k.torn = b
        BY <1>0, <3>1, <3>2, StepBack
      <3> QED
        BY <1>2, <1>4, <3>3
    <2>3. SameOff(j, k, d, e, t)
      BY <1>6, <1>11, <2>2 DEF SameOff
    <2>4. Back(k, e, t)
      <3>1. CASE ok
        BY <1>11, <2>2, <3>1 DEF Back, Kept, Moved
      <3>2. CASE ~ok
        BY <1>6, <1>10, <1>11, <2>2, <3>2 DEF Back, Moved
      <3> QED
        BY <3>1, <3>2
    <2>5. NextStop(j, k, e, n, t, "undo")
      BY <1>2, <1>4, <1>12, <2>2, <2>4 DEF NextStop
    <2>6. Progress("undo", k, e) /\ Plan("undo", k)
      <3>1. "undo" \in Moving /\ from \in Moving
        BY DEF Moving
      <3> QED
        BY <1>2, <1>3, <1>4, <2>2, <2>3, <2>5, <3>1, ProgressOn
    <2>7. /\ pc' = [pc EXCEPT ![p] = "undo"] /\ job' = [job EXCEPT ![p] = k]
          /\ reply' = reply /\ excl' = excl /\ saved' = saved
      BY <1>4, <1>6, <1>12, <2>1 DEF Goto, lockVars, SteppedBack
    <2>8. Alone(p) /\ Sound(p)' /\ job'[p] = k /\ reply'[p] = "none"
      <3>1. "undo" \in Moving /\ pc[p] \in Moving /\ Elsewhere(job[p].scope)
            /\ e = disk'[job[p].scope] /\ Moved(job[p], k)
        BY <1>0, <1>1, <1>4, <1>9, <2>2 DEF Moving, Elsewhere
      <3>2. GoesOn(p, "undo", k, e)
        BY <2>6, <2>7, <3>1 DEF GoesOn
      <3> QED
        BY <3>2, GoingOnSound
    <2>9. DeclOf(p) => DeclOf(p)'
      <3>1. CASE t = "toml"
        <4>1. j.before["toml"] # None /\ s = "project"
          BY <1>1, <1>2, <1>3, <1>4, <3>1 DEF Plan, Moving
        <4>2. CASE ok
          BY <1>9, <1>11, <3>1, <4>1, <4>2 DEF DeclOf, InProject
        <4>3. CASE ~ok
          <5>1. k.old["toml"] # None
            BY <1>10, <1>11, <2>2, <3>1, <4>1, <4>3
          <5> QED
            BY <2>8, <5>1 DEF DeclOf
        <4> QED
          BY <4>2, <4>3
      <3>2. CASE t # "toml"
        <4>1. e["toml"] = d["toml"] /\ o["toml"] = j.old["toml"]
          BY <1>11, <3>2, TargetsAre
        <4>2. disk'["project"]["toml"] = disk["project"]["toml"]
          BY <1>4, <1>9, <4>1 DEF Scopes
        <4> QED
          BY <1>4, <2>2, <2>7, <2>8, <4>1, <4>2 DEF DeclOf, InProject
      <3> QED
        BY <3>1, <3>2
    <2> QED
      BY <2>8, <2>9 DEF Leaves
  <1>13. CASE ~(j.n > 1)
    <2>1. PICK r : r = IF b THEN "torn" ELSE "error"
      OBVIOUS
    <2>2. LeaveBackups(p, o) /\ Return(p, r)
      BY <1>6, <1>13, <2>1
    <2>3. Alone(p) /\ Sound(p)' /\ job'[p] = NoJob /\ reply'[p] = r
      <3>1. \A x \in Scopes, q \in Procs \ {p} : excl[x] = q => disk'[x] = disk[x]
        BY <1>0, <1>1, <1>9
      <3> QED
        BY <1>0, <2>2, <3>1, ReturnSound
    <2>4. DeclOf(p) => DeclOf(p)'
      <3>1. saved' = (saved \/ o["toml"] # None)
        BY <2>2 DEF LeaveBackups
      <3>2. CASE t = "toml"
        <4>1. j.before["toml"] # None /\ s = "project"
          BY <1>1, <1>2, <1>3, <1>4, <3>2 DEF Plan, Moving
        <4>2. CASE ok
          BY <1>9, <1>11, <3>2, <4>1, <4>2 DEF DeclOf, InProject
        <4>3. CASE ~ok
          <5>1. o["toml"] # None
            BY <1>10, <1>11, <3>2, <4>1, <4>3
          <5> QED
            BY <3>1, <5>1 DEF DeclOf
        <4> QED
          BY <4>2, <4>3
      <3>3. CASE t # "toml"
        <4>1. e["toml"] = d["toml"] /\ o["toml"] = j.old["toml"]
          BY <1>11, <3>3, TargetsAre
        <4>2. disk'["project"]["toml"] = disk["project"]["toml"]
          BY <1>4, <1>9, <4>1 DEF Scopes
        <4> QED
          BY <1>4, <3>1, <4>1, <4>2 DEF DeclOf, InProject
      <3> QED
        BY <3>2, <3>3
    <2>5. Leaves(p)
      <3> SUFFICES ASSUME reply'[p] = "error" PROVE disk'[job[p].scope] = job[p].before
        BY DEF Leaves
      <3>1. ~b
        BY <2>1, <2>3
      <3>2. ok /\ ~j.torn
        BY <1>6, <3>1
      <3>3. PICK m \in Nat : m = Len(j.arts) /\ n = 1 /\ n \in 1 .. m
        BY <1>2, <1>4, <1>13 DEF Job
      <3>4. \A i \in 1 .. m : i = 1 \/ i > 1
        BY <3>3
      <3>5. \A i \in 1 .. m : i > 1 => Kept(j, d, j.arts[i].target)
        BY <1>2, <1>4, <3>2, <3>3 DEF Progress, Moving, Back
      <3>6. \A u \in Targets : ~IsTarget(j, u) => Kept(j, d, u)
        BY <1>4 DEF Progress, Moving
      <3>7. \A u \in Targets \ {t} : Kept(j, d, u)
        BY <1>3, <1>4, <3>3, <3>4, <3>5, <3>6 DEF IsTarget
      <3>8. \A u \in Targets : e[u] = j.before[u]
        BY <1>11, <3>2, <3>7 DEF Kept
      <3>9. e = j.before
        BY <1>4, <3>8, HoldingsEqual
      <3> QED
        BY <1>1, <1>4, <1>9, <3>9
    <2> QED
      BY <2>3, <2>4, <2>5
  <1> QED
    BY <1>12, <1>13

\* What every step of p does for the others, for its own invariant and for the
\* declarations.
Keeps(p) == Alone(p) /\ Sound(p)' /\ (DeclOf(p) => DeclOf(p)')

\* In the sweep a declaration that is aside has its new version in place.
LEMMA SweptDecl ==
    ASSUME PublishInv, NEW p \in Procs, pc[p] = "sweep", DeclOf(p), disk' = disk, saved => saved'
    PROVE  InProject' \/ saved'
  <1>1. Sound(p) /\ Typed
    BY DEF PublishInv
  <1>2. PICK j : j = job[p]
    OBVIOUS
  <1>3. PICK d : d = disk[job[p].scope]
    OBVIOUS
  <1>4. j \in Job /\ Progress("sweep", j, d) /\ Plan("sweep", j)
    BY <1>1, <1>2, <1>3, JobIs DEF Sound
  <1>5. CASE InProject \/ saved
    BY <1>5 DEF InProject
  <1>6. CASE j.old["toml"] # None
    <2>1. IsTarget(j, "toml")
      BY <1>4, <1>6, TargetsAre DEF Progress, Moving, Kept
    <2>2. PICK i \in 1 .. Len(j.arts) : j.arts[i].target = "toml"
      BY <2>1 DEF IsTarget
    <2>3. PICK m \in Nat : m = Len(j.arts)
      BY <1>4 DEF Job
    <2>4. i < j.n
      BY <1>4, <2>2, <2>3 DEF Progress, Moving
    <2>5. d["toml"] = j.arts[i].new
      BY <1>4, <2>2, <2>4 DEF Progress, Moving, Placed
    <2>6. j.arts[i].new # None /\ j.scope = "project"
      BY <1>4, <2>2 DEF Plan, Moving
    <2> QED
      BY <1>2, <1>3, <2>5, <2>6 DEF InProject
  <1> QED
    BY <1>2, <1>5, <1>6 DEF DeclOf

LEMMA SweepSound == ASSUME PublishInv, NEW p \in Procs, Sweep(p) PROVE Keeps(p)
  <1>0. Typed /\ Sound(p) /\ pc[p] = "sweep" /\ job[p] \in Job /\ disk' = disk /\ saved' = saved
    BY JobIs DEF PublishInv, Sweep
  <1>1. DeclOf(p) => DeclOf(p)'
    BY <1>0, SweptDecl DEF DeclOf
  <1>2. CASE job[p].op = "RepairSnapshot"
    <2>1. PICK k : k = [job[p] EXCEPT !.old = Nothing]
      OBVIOUS
    <2>2. k.op = job[p].op
      BY <1>0, <2>1 DEF Job
    <2>3. job' = [job EXCEPT ![p] = k] /\ pc' = [pc EXCEPT ![p] = "snapshot"] /\ reply' = reply /\ excl' = excl
      BY <1>2, <2>1 DEF Sweep, Goto, lockVars
    <2>4. Alone(p) /\ pc'[p] = "snapshot" /\ job'[p] = k /\ reply'[p] = reply[p]
      BY <1>0, <2>3, MovesAloneQuietly DEF Spares
    <2>5. Held("snapshot", k, excl', p) /\ Quiet("snapshot", reply[p]) /\ "snapshot" \notin Moving
      BY <1>0 DEF Held, Moving, Quiet, Sound
    <2>6. Sound(p)'
      BY <2>4, <2>5, RestingSound
    <2> QED
      BY <1>1, <2>4, <2>6 DEF Keeps
  <1>3. CASE job[p].op # "RepairSnapshot"
    <2>1. Return(p, "ok")
      BY <1>3 DEF Sweep
    <2>2. Alone(p) /\ Sound(p)'
      BY <1>0, <2>1, ReturnSound
    <2> QED
      BY <1>1, <2>2 DEF Keeps
  <1> QED
    BY <1>2, <1>3

\* A process that ends in between leaves its backups where they are.
LEMMA LeavingSound ==
    ASSUME PublishInv, NEW p \in Procs, NEW r, LeaveBackups(p, job[p].old), Return(p, r), disk' = disk
    PROVE  Keeps(p) /\ reply'[p] = r
  <1>1. Alone(p) /\ Sound(p)' /\ reply'[p] = r
    BY ReturnSound DEF PublishInv
  <1>2. DeclOf(p) => DeclOf(p)'
    BY DEF DeclOf, LeaveBackups, InProject
  <1> QED
    BY <1>1, <1>2 DEF Keeps

LEMMA PlainReturnSound ==
    ASSUME PublishInv, NEW p \in Procs, NEW r, pc[p] \notin Moving, Return(p, r), UNCHANGED diskVars
    PROVE  Keeps(p)
  <1>0. Typed /\ disk' = disk /\ saved' = saved
    BY DEF PublishInv, diskVars
  <1>1. Alone(p) /\ Sound(p)'
    BY <1>0, ReturnSound
  <1>2. DeclOf(p) => DeclOf(p)'
    BY <1>0, DeclRests
  <1> QED
    BY <1>1, <1>2 DEF Keeps

\* LockAll is the one that writes in its work, and not to stoat.toml.
LEMMA WorkKeepsDecl ==
    ASSUME Typed, NEW p \in Procs, NEW cs, Work(p, cs)
    PROVE  saved' = saved /\ disk'["project"]["toml"] = disk["project"]["toml"]
  <1>0. pc[p] = "work" /\ job[p] \in Job
    BY JobIs DEF Work
  <1>1. CASE job[p].op = "LockAll"
    <2>1. LockAllWork(p, cs)
      BY <1>1 DEF Work
    <2>2. PICK v : disk' = [disk EXCEPT ![job[p].scope]["lock"] = v]
      BY <2>1 DEF LockAllWork
    <2>3. \A s \in Scopes : disk[s] \in Holdings
      BY DEF Typed, DiskOK
    <2>4. disk \in [Scopes -> Holdings] /\ "project" \in Scopes
      BY DEF Typed, DiskOK, Scopes
    <2>5. disk'["project"]["toml"] = disk["project"]["toml"]
      BY <2>2, <2>4, TargetsAre DEF Holdings
    <2> QED
      BY <2>1, <2>5 DEF LockAllWork
  <1>2. CASE job[p].op # "LockAll"
    <2>1. UNCHANGED diskVars
      BY <1>0, <1>2 DEF Work, Publish
    <2> QED
      BY <2>1 DEF diskVars
  <1> QED
    BY <1>1, <1>2

\* A process that has nothing published yet, whatever it does next.
LEMMA RestKeeps ==
    ASSUME PublishInv, Limit["intrusions"] = 0, NEW p \in Procs,
           \/ IndexLock(p) \/ IndexLookup(p) \/ IndexFails(p) \/ LockScope(p)
           \/ \E cs \in [Packages -> Commits] : Work(p, cs)
    PROVE  Keeps(p)
  <1>0. Typed
    BY DEF PublishInv
  <1>1. CASE IndexLock(p) \/ IndexLookup(p) \/ IndexFails(p)
    <2>1. Alone(p) /\ Sound(p)'
      BY <1>1, IndexSound
    <2>2. pc[p] \notin Moving /\ saved' = saved /\ disk' = disk
      BY <1>1 DEF IndexLock, IndexLookup, IndexFails, diskVars, Moving
    <2> QED
      BY <1>0, <2>1, <2>2, DeclRests DEF Keeps
  <1>2. CASE LockScope(p)
    <2>1. Alone(p) /\ Sound(p)'
      BY <1>2, LockScopeSound
    <2>2. pc[p] \notin Moving /\ saved' = saved /\ disk' = disk
      BY <1>2 DEF LockScope, diskVars, Moving
    <2> QED
      BY <1>0, <2>1, <2>2, DeclRests DEF Keeps
  <1>3. CASE \E cs \in [Packages -> Commits] : Work(p, cs)
    <2>1. PICK cs \in [Packages -> Commits] : Work(p, cs)
      BY <1>3
    <2>2. Alone(p) /\ Sound(p)'
      BY <2>1, WorkSound
    <2>3. pc[p] \notin Moving
      BY <2>1 DEF Work, Moving
    <2>4. saved' = saved /\ disk'["project"]["toml"] = disk["project"]["toml"]
      BY <1>0, <2>1, WorkKeepsDecl
    <2> QED
      BY <1>0, <2>2, <2>3, <2>4, DeclRests DEF Keeps
  <1> QED
    BY <1>1, <1>2, <1>3

LEMMA EndKeeps ==
    ASSUME PublishInv, NEW p \in Procs, WorkFails(p) \/ Snapshot(p)
    PROVE  Keeps(p)
  <1>1. PICK r : Return(p, r) /\ UNCHANGED diskVars /\ pc[p] \in {"work", "snapshot"}
    BY DEF WorkFails, Snapshot
  <1>2. pc[p] \notin Moving
    BY <1>1 DEF Moving
  <1> QED
    BY <1>1, <1>2, PlainReturnSound

LEMMA CallKeeps == ASSUME PublishInv, NEW p \in Procs, Call(p) PROVE Keeps(p) /\ reply'[p] = "none"
  <1>0. pc[p] = "idle" /\ UNCHANGED diskVars
    BY DEF Call, Begin, Add, LockAll, Sync, SyncProject, Update, RemoveRecipe, ListSnapshot,
           RepairSnapshot, SearchIndex
  <1>1. pc[p] \notin Moving /\ saved' = saved /\ disk' = disk
    BY <1>0 DEF Moving, diskVars
  <1>2. DeclOf(p) => DeclOf(p)'
    BY <1>1, DeclRests DEF PublishInv
  <1> QED
    BY <1>2, CallSound DEF Keeps

\* A command either fails with all as it was or does not fail here.
LEMMA PublishKeeps ==
    ASSUME PublishInv, NEW p \in Procs,
           Backup(p) \/ Install(p) \/ PublishFails(p) \/ Undo(p) \/ UndoFails(p) \/ Restore(p)
    PROVE  Keeps(p) /\ Leaves(p)
  BY BackupSound, InstallSound, PublishFailsSound, UndoSound, RestoreSound DEF Keeps, Leaves

LEMMA StepKeeps ==
    ASSUME PublishInv, Limit["intrusions"] = 0, NEW p \in Procs, Step(p) \/ Call(p) \/ Kill(p)
    PROVE  Keeps(p)
  <1>1. CASE SweepFails(p)
    BY <1>1, LeavingSound DEF SweepFails
  <1>2. CASE Kill(p)
    BY <1>2, LeavingSound DEF Kill
  <1> QED
    BY <1>1, <1>2, RestKeeps, EndKeeps, CallKeeps, PublishKeeps, SweepSound DEF Step

\* The user edits a file only of a scope that nobody holds.
LEMMA UserKeeps ==
    ASSUME PublishInv, User
    PROVE  /\ Alone(NoProc) /\ (InProject => InProject')
           /\ UNCHANGED <<saved, pc, job, reply>>
  <1>0. Typed /\ disk \in [Scopes -> Holdings] /\ "project" \in Scopes
    BY DEF PublishInv, Typed, DiskOK, Scopes
  <1>1. ASSUME NEW s \in Scopes, NEW t \in Targets, NEW v, excl[s] = NoProc,
               disk' = [disk EXCEPT ![s][t] = v], UNCHANGED <<saved, lockVars, pc, job, reply>>,
               t = "toml" => v # None
        PROVE  /\ Alone(NoProc) /\ (InProject => InProject')
               /\ UNCHANGED <<saved, pc, job, reply>>
    <2>1. \A x \in Scopes \ {s} : disk'[x] = disk[x]
      BY <1>0, <1>1
    <2>2. Alone(NoProc)
      BY <1>1, <2>1, NamesAssumption DEF Alone, Spares, lockVars
    <2>3. CASE s = "project" /\ t = "toml"
      <3>1. disk'["project"]["toml"] = v
        BY <1>0, <1>1, <2>3, TargetsAre DEF Holdings
      <3> QED
        BY <1>1, <2>2, <2>3, <3>1 DEF InProject
    <2>4. CASE ~(s = "project" /\ t = "toml")
      <3>1. disk'["project"]["toml"] = disk["project"]["toml"]
        BY <1>0, <1>1, <2>4, TargetsAre DEF Holdings
      <3> QED
        BY <1>1, <2>2, <3>1 DEF InProject
    <2> QED
      BY <2>3, <2>4
  <1>2. CASE \E r \in Packages, ref \in Refs \cup {None} : EditDecl(r, ref)
    <2>1. PICK r \in Packages, ref \in Refs \cup {None} : EditDecl(r, ref)
      BY <1>2
    <2>2. PICK v \in [Packages -> Refs \cup {None}] : v = [disk["project"]["toml"] EXCEPT ![r] = ref]
      <3>1. disk["project"]["toml"] \in [Packages -> Refs \cup {None}]
        BY <1>0, <2>1, HoldingIs DEF EditDecl, InProject
      <3> QED
        BY <3>1
    <2>3. v # None
      BY <2>2, NoneAssumption
    <2>4. disk' = [disk EXCEPT !["project"]["toml"] = v]
          /\ UNCHANGED <<saved, lockVars, pc, job, reply>> /\ excl["project"] = NoProc
      BY <2>1, <2>2 DEF EditDecl
    <2> QED
      BY <1>0, <1>1, <2>3, <2>4, TargetsAre
  <1>3. CASE \E s \in Scopes, r \in Packages : EditTree(s, r)
    <2>1. PICK s \in Scopes, r \in Packages : EditTree(s, r)
      BY <1>3
    <2>2. PICK v : v = [disk[s][r] EXCEPT !.dirty = ~@]
      OBVIOUS
    <2>3. disk' = [disk EXCEPT ![s][r] = v]
          /\ UNCHANGED <<saved, lockVars, pc, job, reply>> /\ excl[s] = NoProc
      BY <2>1, <2>2 DEF EditTree
    <2>4. r \in Targets /\ r # "toml"
      BY TargetsAre
    <2> QED
      BY <1>1, <2>3, <2>4
  <1> QED
    BY <1>2, <1>3 DEF User

LEMMA PublishInvInit == PkgInit => PublishInv
  <1> SUFFICES ASSUME PkgInit PROVE PublishInv
    OBVIOUS
  <1>1. \A q \in Procs : pc[q] = "idle" /\ job[q] = NoJob /\ reply[q] = "none"
    BY DEF PkgInit
  <1>2. \A q \in Procs : Sound(q)
    BY <1>1, IdleSound DEF Sound
  <1> QED
    BY <1>2, InitTyped DEF PublishInv

\* The one who moves: a process, the user, or nobody.
LEMMA PublishInvNext ==
    ASSUME PublishInv, Limit["intrusions"] = 0, [PkgNext]_pkgVars
    PROVE  PublishInv'
  <1>0. Typed'
    BY NextTyped DEF PublishInv
  <1>1. CASE User
    <2>1. Alone(NoProc) /\ Procs \ {NoProc} = Procs
      BY <1>1, UserKeeps, NamesAssumption
    <2>2. \A q \in Procs : Sound(q)'
      BY <2>1, OthersSound
    <2> QED
      BY <1>0, <2>2 DEF PublishInv
  <1>2. CASE \E p \in Procs : Call(p) \/ Step(p) \/ Kill(p)
    <2>1. PICK p \in Procs : Call(p) \/ Step(p) \/ Kill(p)
      BY <1>2
    <2>2. Alone(p) /\ Sound(p)'
      BY <2>1, StepKeeps DEF Keeps
    <2>3. \A q \in Procs \ {p} : Sound(q)'
      BY <2>2, OthersSound
    <2> QED
      BY <1>0, <2>2, <2>3 DEF PublishInv
  <1>3. CASE UNCHANGED pkgVars
    BY <1>0, <1>3 DEF pkgVars, PublishInv, Sound
  <1> QED
    BY <1>1, <1>2, <1>3 DEF PkgNext

-----------------------------------------------------------------------------
(* What a step of the system may never do *)

Traceless(p) ==
    pc[p] \in {"backup", "install", "restore"} /\ reply'[p] = "error" =>
        disk'[job[p].scope] = job[p].before

\* A process at a step has not replied yet, and somebody else's step does not
\* make it reply.
LEMMA OthersAreQuiet ==
    ASSUME PublishInv, NEW p, Alone(p), NEW q \in Procs \ {p}
    PROVE  Traceless(q) /\ (pc[q] = "sweep" => reply'[q] = "none" /\ pc'[q] = "sweep")
  BY DEF PublishInv, Alone, Sound, Quiet, Traceless

LEMMA StepTraceless ==
    ASSUME PublishInv, Limit["intrusions"] = 0, NEW p \in Procs, Step(p) \/ Call(p) \/ Kill(p)
    PROVE  Traceless(p)
  <1>1. CASE Backup(p) \/ Install(p) \/ PublishFails(p) \/ Undo(p) \/ UndoFails(p) \/ Restore(p)
    BY <1>1, PublishKeeps DEF Leaves, Traceless
  <1>2. CASE Call(p)
    BY <1>2, CallKeeps DEF Traceless
  <1>3. CASE Kill(p)
    <2>1. reply'[p] = "none"
      BY <1>3, LeavingSound DEF Kill
    <2> QED
      BY <2>1 DEF Traceless
  <1>4. CASE pc[p] \notin {"backup", "install", "restore"}
    BY <1>4 DEF Traceless
  <1> QED
    BY <1>1, <1>2, <1>3, <1>4
    DEF Step, IndexLock, IndexLookup, IndexFails, LockScope, Work, WorkFails, Sweep, SweepFails, Snapshot

LEMMA NextTraceless ==
    ASSUME PublishInv, Limit["intrusions"] = 0, [PkgNext]_pkgVars
    PROVE  \A q \in Procs : Traceless(q)
  <1>1. CASE User
    <2>1. Alone(NoProc) /\ Procs \ {NoProc} = Procs
      BY <1>1, UserKeeps, NamesAssumption
    <2> QED
      BY <2>1, OthersAreQuiet
  <1>2. CASE \E p \in Procs : Call(p) \/ Step(p) \/ Kill(p)
    <2>1. PICK p \in Procs : Call(p) \/ Step(p) \/ Kill(p)
      BY <1>2
    <2>2. Alone(p) /\ Traceless(p)
      BY <2>1, StepKeeps, StepTraceless DEF Keeps
    <2> QED
      BY <2>2, OthersAreQuiet
  <1>3. CASE UNCHANGED pkgVars
    BY <1>3 DEF pkgVars, PublishInv, Sound, Quiet, Traceless
  <1> QED
    BY <1>1, <1>2, <1>3 DEF PkgNext

LEMMA NextDecl ==
    ASSUME PublishInv, Limit["intrusions"] = 0, [PkgNext]_pkgVars
    PROVE  HasDecl => HasDecl'
  <1>1. CASE User
    BY <1>1, UserKeeps DEF HasDecl
  <1>2. CASE \E p \in Procs : Call(p) \/ Step(p) \/ Kill(p)
    <2>1. PICK p \in Procs : Call(p) \/ Step(p) \/ Kill(p)
      BY <1>2
    <2>2. Alone(p) /\ (DeclOf(p) => DeclOf(p)')
      BY <2>1, StepKeeps DEF Keeps
    <2>3. ASSUME HasDecl, ~DeclOf(p) PROVE HasDecl'
      <3>1. PICK q \in Procs \ {p} : job[q].old["toml"] # None
        BY <2>3 DEF HasDecl, DeclOf
      <3>2. job'[q].old["toml"] # None
        BY <2>2, <3>1 DEF Alone
      <3> QED
        BY <3>2 DEF HasDecl
    <2>4. DeclOf(p)' => HasDecl'
      BY DEF HasDecl, DeclOf
    <2> QED
      BY <2>2, <2>3, <2>4
  <1>3. CASE UNCHANGED pkgVars
    BY <1>3 DEF pkgVars, HasDecl, InProject
  <1> QED
    BY <1>1, <1>2, <1>3 DEF PkgNext

\* When RepairSnapshot never finds a project only under its locks (it then
\* publishes in a scope it has not locked), a command that fails leaves no
\* trace and stoat.toml is never lost.
THEOREM PublishingLosesNothing ==
    ASSUME Limit["intrusions"] = 0
    PROVE  PkgSpec => PublishLosesNothing
  <1>1. PublishInv /\ [PkgNext]_pkgVars => PublishInv'
    BY PublishInvNext
  <1>2. PublishInv /\ [PkgNext]_pkgVars =>
            /\ [\A p \in Procs : pc[p] \in {"backup", "install", "restore"} /\ reply'[p] = "error" =>
                   disk'[job[p].scope] = job[p].before]_pkgVars
            /\ [HasDecl => HasDecl']_pkgVars
    BY NextTraceless, NextDecl DEF Traceless
  <1> QED
    BY <1>1, <1>2, PublishInvInit, PTL DEF PkgSpec, PublishLosesNothing, FailedLeavesAll, DeclSurvives

\* A sync has put in place what the lock file asks for, and it asks for the same
\* as when the sync began.
LEMMA SweptIsDue ==
    ASSUME PublishInv, NEW p \in Procs, pc[p] = "sweep", job[p].swept
    PROVE  \A r \in Packages : disk["project"][r] = DueOf(PinsOf(disk["project"]), r)
  <1>1. PICK j : j = job[p]
    OBVIOUS
  <1>2. /\ j \in Job /\ Progress("sweep", j, disk[j.scope]) /\ Plan("sweep", j)
        /\ "sweep" \in Moving /\ j.swept
    BY <1>1, JobIs DEF PublishInv, Sound, Moving
  <1>3. j.scope = "project"
    BY <1>2 DEF Plan
  <1>4. PICK d : d = disk["project"]
    OBVIOUS
  <1>5. PICK m \in Nat : m = Len(j.arts)
    BY <1>2 DEF Job
  <1>6. \A i \in 1 .. m : j.arts[i].target \in Packages
                          /\ j.arts[i].new = DueOf(PinsOf(j.before), j.arts[i].target)
    BY <1>2, <1>5 DEF Plan
  <1>7. \A r \in Packages : j.before[r] # DueOf(PinsOf(j.before), r) => IsTarget(j, r)
    BY <1>2 DEF Plan
  <1>8. \A i \in 1 .. m : d[j.arts[i].target] = j.arts[i].new
    <2>1. \A i \in 1 .. m : i < j.n
      BY <1>2, <1>5 DEF Progress
    <2> QED
      BY <1>2, <1>3, <1>4, <1>5, <2>1 DEF Progress, Placed
  <1>9. \A t \in Targets : ~IsTarget(j, t) => d[t] = j.before[t]
    BY <1>2, <1>3, <1>4 DEF Progress, Kept
  <1>10. d["lock"] = j.before["lock"]
    <2>1. "lock" \in Targets /\ "lock" \notin Packages
      BY NamesAssumption DEF Targets, Files
    <2> QED
      BY <1>5, <1>6, <1>9, <2>1 DEF IsTarget
  <1>11. PinsOf(d) = PinsOf(j.before)
    BY <1>10 DEF PinsOf
  <1>12. ASSUME NEW r \in Packages PROVE d[r] = DueOf(PinsOf(d), r)
    <2>1. r \in Targets
      BY DEF Targets
    <2>2. CASE IsTarget(j, r)
      BY <1>5, <1>6, <1>8, <1>11, <2>2 DEF IsTarget
    <2>3. CASE ~IsTarget(j, r)
      BY <1>7, <1>9, <1>11, <2>1, <2>3
    <2> QED
      BY <2>2, <2>3
  <1> QED
    BY <1>4, <1>12

EndsDue(p) ==
    pc[p] = "sweep" /\ job[p].swept /\ (pc'[p] = "snapshot" \/ reply'[p] = "ok") =>
        /\ junk'["project"] = {}
        /\ \A r \in Packages :
             disk'["project"][r] = IF r \in Pinned("project")' THEN Clean(Pins("project")'[r].commit) ELSE None

LEMMA StepCurrent ==
    ASSUME PublishInv, NEW p \in Procs, Step(p) \/ Call(p) \/ Kill(p)
    PROVE  EndsDue(p)
  <1>1. CASE Sweep(p)
    <2> SUFFICES ASSUME pc[p] = "sweep", job[p].swept
                 PROVE  /\ junk'["project"] = {}
                        /\ \A r \in Packages :
                             disk'["project"][r] = IF r \in Pinned("project")' THEN Clean(Pins("project")'[r].commit) ELSE None
      BY DEF EndsDue
    <2>1. disk' = disk
      BY <1>1 DEF Sweep
    <2>2. Pins("project")' = PinsOf(disk["project"])
      BY <2>1 DEF Pins, PinsOf
    <2>3. ASSUME NEW r \in Packages
          PROVE  disk'["project"][r] = IF r \in Pinned("project")' THEN Clean(Pins("project")'[r].commit) ELSE None
      <3>1. r \in Pinned("project")' <=> PinsOf(disk["project"])[r] # None
        BY <2>2 DEF Pinned
      <3> QED
        BY <2>1, <2>2, <3>1, SweptIsDue DEF DueOf
    <2>4. junk'["project"] = {}
      BY <1>1 DEF Sweep, PublishInv, Typed, RestOK, Scopes
    <2> QED
      BY <2>3, <2>4
  <1>2. CASE SweepFails(p)
    <2>1. reply'[p] = "leftover" /\ pc'[p] = "idle"
      BY <1>2 DEF SweepFails, Return, Goto, PublishInv, Typed, ProcsOK
    <2> QED
      BY <2>1 DEF EndsDue
  <1>3. CASE Kill(p)
    <2>1. reply'[p] = "none" /\ pc'[p] = "idle"
      BY <1>3 DEF Kill, Return, Goto, PublishInv, Typed, ProcsOK
    <2> QED
      BY <2>1 DEF EndsDue
  <1>4. CASE pc[p] # "sweep"
    BY <1>4 DEF EndsDue
  <1>5. Call(p) => pc[p] = "idle"
    BY DEF Call, Begin, Add, LockAll, Sync, SyncProject, Update, RemoveRecipe, ListSnapshot,
           RepairSnapshot, SearchIndex
  <1> QED
    BY <1>1, <1>2, <1>3, <1>4, <1>5
    DEF Step, IndexLock, IndexLookup, IndexFails, LockScope, Work, WorkFails, Snapshot,
        Backup, Install, PublishFails, Undo, UndoFails, Restore

LEMMA NextCurrent ==
    ASSUME PublishInv, Limit["intrusions"] = 0, [PkgNext]_pkgVars
    PROVE  \A q \in Procs : EndsDue(q)
  <1>1. CASE User
    <2>1. Alone(NoProc) /\ Procs \ {NoProc} = Procs
      BY <1>1, UserKeeps, NamesAssumption
    <2> QED
      BY <2>1, OthersAreQuiet DEF EndsDue
  <1>2. CASE \E p \in Procs : Call(p) \/ Step(p) \/ Kill(p)
    <2>1. PICK p \in Procs : Call(p) \/ Step(p) \/ Kill(p)
      BY <1>2
    <2>2. Alone(p) /\ EndsDue(p)
      BY <2>1, StepKeeps, StepCurrent DEF Keeps
    <2>3. \A q \in Procs \ {p} : EndsDue(q)
      BY <2>2, OthersAreQuiet DEF EndsDue
    <2> QED
      BY <2>2, <2>3
  <1>3. CASE UNCHANGED pkgVars
    BY <1>3 DEF pkgVars, PublishInv, Sound, Quiet, EndsDue
  <1> QED
    BY <1>1, <1>2, <1>3 DEF PkgNext

\* Under the same condition a sync that succeeds leaves in the project's cache
\* the pinned commits and nothing else, whatever other commands, edits and
\* kills came before or in between.
THEOREM SyncLeavesThePins ==
    ASSUME Limit["intrusions"] = 0
    PROVE  PkgSpec => SyncedIsCurrent
  <1>1. PublishInv /\ [PkgNext]_pkgVars => PublishInv'
    BY PublishInvNext
  <1>2. PublishInv /\ [PkgNext]_pkgVars =>
            [\A p \in Procs : pc[p] = "sweep" /\ job[p].swept /\ (pc'[p] = "snapshot" \/ reply'[p] = "ok") =>
               /\ junk'["project"] = {}
               /\ \A r \in Packages :
                    disk'["project"][r] = IF r \in Pinned("project")' THEN Clean(Pins("project")'[r].commit) ELSE None
            ]_pkgVars
    BY NextCurrent DEF EndsDue
  <1> QED
    BY <1>1, <1>2, PublishInvInit, PTL DEF PkgSpec, SyncedIsCurrent
=============================================================================
