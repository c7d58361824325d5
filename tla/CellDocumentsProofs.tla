------------------------ MODULE CellDocumentsProofs ------------------------
(***************************************************************************)
(* Proofs about CellDocuments for every cell, tree, recipe, calibration    *)
(* and starter, and every number of edits, undos, saves and openings: what *)
(* is saved, what a report says, and the graph of components and links.    *)
(***************************************************************************)
EXTENDS StudioReadiness, WellFoundedInduction, TLAPS

-----------------------------------------------------------------------------
(* Numbers and sequences. *)

Less == {pair \in Nat \X Nat : pair[1] < pair[2]}

\* Every set of numbers has a least one.
LEMMA Least ==
    ASSUME NEW T, T \subseteq Nat, T # {}
    PROVE  \E x \in T : \A y \in T : x <= y
<1>1. IsWellFoundedOn(Less, Nat)
    BY NatLessThanWellFounded DEF OpToRel, Less
<1>2. PICK x \in T : \A y \in T : ~ (<<y, x>> \in Less)
    BY <1>1, WFMin, Zenon
<1>3. \A a, b \in Nat : a < b => <<a, b>> \in Less
    BY DEF Less
<1>4. ASSUME NEW y \in T PROVE x <= y
    <2>1. x \in Nat /\ y \in Nat /\ ~ (y < x)
        BY <1>2, <1>3
    <2> QED
        BY <2>1
<1> QED
    BY <1>4

LEMMA MinOf ==
    ASSUME NEW T, T \subseteq Nat, T # {}
    PROVE  Min(T) \in T
    BY Least DEF Min

\* A set of numbers up to a bound has a greatest one.
LEMMA MaxOf ==
    ASSUME NEW n \in Nat, NEW T, T \subseteq 0..n, T # {}
    PROVE  Max(T) \in T /\ \A x \in T : Max(T) >= x
<1> DEFINE Bounds == {m \in Nat : \A x \in T : m >= x}
<1>1. n \in Bounds
    OBVIOUS
<1>2. PICK m \in Bounds : \A k \in Bounds : m <= k
    BY <1>1, Least
<1>3. m \in T
    <2> SUFFICES ASSUME m \notin T PROVE FALSE
        OBVIOUS
    <2>1. \A x \in T : x \in Nat /\ x < m
        BY <1>2
    <2>2. m \in Nat /\ m # 0
        <3>1. PICK y \in T : y \in Nat /\ y < m
            BY <2>1
        <3> QED
            BY <1>2, <3>1
    <2>3. m - 1 \in Nat /\ \A x \in T : m - 1 >= x
        BY <2>1, <2>2
    <2> QED
        BY <1>2, <2>2, <2>3
<1> QED
    BY <1>2, <1>3 DEF Max

\* The history is a sequence of whatever it holds.
LEMMA Appended ==
    ASSUME NEW s, s \in Seq(ToSet(s)), NEW x
    PROVE  /\ Append(s, x) \in Seq(ToSet(Append(s, x)))
           /\ ToSet(Append(s, x)) = ToSet(s) \cup {x}
<1> DEFINE t == Append(s, x)
           S == ToSet(s) \cup {x}
<1>1. t \in Seq(S) /\ Len(t) = Len(s) + 1 /\ \A i \in 1..Len(s) : t[i] = s[i]
    OBVIOUS
<1>2. t[Len(s) + 1] = x /\ Len(s) \in Nat /\ DOMAIN s = 1..Len(s) /\ DOMAIN t = 1..(Len(s) + 1)
    BY <1>1
<1>3. ToSet(t) = S
    BY <1>1, <1>2 DEF ToSet
<1> QED
    BY <1>1, <1>3

LEMMA Fronted ==
    ASSUME NEW s, s \in Seq(ToSet(s)), s # <<>>
    PROVE  /\ Front(s) \in Seq(ToSet(Front(s)))
           /\ ToSet(Front(s)) \subseteq ToSet(s)
           /\ Last(s) \in ToSet(s)
<1> DEFINE t == Front(s)
<1>1. Len(s) \in Nat \ {0} /\ DOMAIN s = 1..Len(s)
    OBVIOUS
<1>2. /\ t \in Seq(ToSet(s)) /\ Len(t) = Len(s) - 1 /\ DOMAIN t = 1..(Len(s) - 1)
      /\ \A i \in 1..(Len(s) - 1) : t[i] = s[i]
    BY <1>1 DEF Front
<1>3. ToSet(t) \subseteq ToSet(s)
    BY <1>1, <1>2 DEF ToSet
<1>4. t \in Seq(ToSet(t))
    <2>1. \A i \in 1..(Len(s) - 1) : t[i] \in ToSet(t)
        BY <1>2 DEF ToSet
    <2>2. t = [i \in 1..(Len(s) - 1) |-> t[i]] /\ Len(s) - 1 \in Nat
        BY <1>1, <1>2
    <2> QED
        BY <2>1, <2>2
<1>5. Last(s) \in ToSet(s)
    BY <1>1 DEF Last, ToSet
<1> QED
    BY <1>3, <1>4, <1>5

LEMMA Emptied == <<>> \in Seq(ToSet(<<>>)) /\ ToSet(<<>>) = {}
    BY DEF ToSet

-----------------------------------------------------------------------------
(* Buffers as records. *)

CellOf(components, links, recipes, calibrations) ==
    [components |-> components, links |-> links, recipes |-> recipes,
     calibrations |-> calibrations]

BufferOf(cell, scene, files) == [cell |-> cell, scene |-> scene, files |-> files]

LEMMA CellFields ==
    ASSUME NEW c, NEW l, NEW r, NEW k, NEW x
    PROVE  /\ CellOf(c, l, r, k).components = c /\ CellOf(c, l, r, k).links = l
           /\ CellOf(c, l, r, k).recipes = r /\ CellOf(c, l, r, k).calibrations = k
           /\ [CellOf(c, l, r, k) EXCEPT !.components = x] = CellOf(x, l, r, k)
           /\ [CellOf(c, l, r, k) EXCEPT !.links = x] = CellOf(c, x, r, k)
           /\ [CellOf(c, l, r, k) EXCEPT !.recipes = x] = CellOf(c, l, x, k)
           /\ [CellOf(c, l, r, k) EXCEPT !.calibrations = x] = CellOf(c, l, r, x)
BY DEF CellOf

LEMMA BufferFields ==
    ASSUME NEW cell, NEW scene, NEW files, NEW x
    PROVE  /\ BufferOf(cell, scene, files).cell = cell
           /\ BufferOf(cell, scene, files).scene = scene
           /\ BufferOf(cell, scene, files).files = files
           /\ [BufferOf(cell, scene, files) EXCEPT !.cell = x] = BufferOf(x, scene, files)
           /\ [BufferOf(cell, scene, files) EXCEPT !.scene = x] = BufferOf(cell, x, files)
           /\ [BufferOf(cell, scene, files) EXCEPT !.files = x] = BufferOf(cell, scene, x)
<1>1. [BufferOf(cell, scene, files) EXCEPT !.cell = x] = BufferOf(x, scene, files)
    BY DEF BufferOf
<1>2. [BufferOf(cell, scene, files) EXCEPT !.scene = x] = BufferOf(cell, x, files)
    BY DEF BufferOf
<1>3. [BufferOf(cell, scene, files) EXCEPT !.files = x] = BufferOf(cell, scene, x)
    BY DEF BufferOf
<1>4. /\ BufferOf(cell, scene, files).cell = cell /\ BufferOf(cell, scene, files).scene = scene
      /\ BufferOf(cell, scene, files).files = files
    BY DEF BufferOf
<1> QED
    BY <1>1, <1>2, <1>3, <1>4

LEMMA WithComponents ==
    ASSUME NEW b, NEW c, NEW l, NEW r, NEW k, NEW scene, NEW files, NEW x,
           b = BufferOf(CellOf(c, l, r, k), scene, files)
    PROVE  [b EXCEPT !.cell.components = x] = BufferOf(CellOf(x, l, r, k), scene, files)
<1>1. [b EXCEPT !.cell.components = x] = [b EXCEPT !.cell = [b.cell EXCEPT !.components = x]]
    OBVIOUS
<1>2. b.cell = CellOf(c, l, r, k)
    BY BufferFields
<1>3. [b EXCEPT !.cell = [CellOf(c, l, r, k) EXCEPT !.components = x]] =
          BufferOf(CellOf(x, l, r, k), scene, files)
    BY BufferFields, CellFields
<1> QED
    BY <1>1, <1>2, <1>3

LEMMA WithLinks ==
    ASSUME NEW b, NEW c, NEW l, NEW r, NEW k, NEW scene, NEW files, NEW x,
           b = BufferOf(CellOf(c, l, r, k), scene, files)
    PROVE  [b EXCEPT !.cell.links = x] = BufferOf(CellOf(c, x, r, k), scene, files)
<1>1. [b EXCEPT !.cell.links = x] = [b EXCEPT !.cell = [b.cell EXCEPT !.links = x]]
    OBVIOUS
<1>2. b.cell = CellOf(c, l, r, k)
    BY BufferFields
<1>3. [b EXCEPT !.cell = [CellOf(c, l, r, k) EXCEPT !.links = x]] =
          BufferOf(CellOf(c, x, r, k), scene, files)
    BY BufferFields, CellFields
<1> QED
    BY <1>1, <1>2, <1>3

LEMMA WithRecipes ==
    ASSUME NEW b, NEW c, NEW l, NEW r, NEW k, NEW scene, NEW files, NEW x,
           b = BufferOf(CellOf(c, l, r, k), scene, files)
    PROVE  [b EXCEPT !.cell.recipes = x] = BufferOf(CellOf(c, l, x, k), scene, files)
<1>1. [b EXCEPT !.cell.recipes = x] = [b EXCEPT !.cell = [b.cell EXCEPT !.recipes = x]]
    OBVIOUS
<1>2. b.cell = CellOf(c, l, r, k)
    BY BufferFields
<1>3. [b EXCEPT !.cell = [CellOf(c, l, r, k) EXCEPT !.recipes = x]] =
          BufferOf(CellOf(c, l, x, k), scene, files)
    BY BufferFields, CellFields
<1> QED
    BY <1>1, <1>2, <1>3

LEMMA WithCalibrations ==
    ASSUME NEW b, NEW c, NEW l, NEW r, NEW k, NEW scene, NEW files, NEW x,
           b = BufferOf(CellOf(c, l, r, k), scene, files)
    PROVE  [b EXCEPT !.cell.calibrations = x] = BufferOf(CellOf(c, l, r, x), scene, files)
<1>1. [b EXCEPT !.cell.calibrations = x] = [b EXCEPT !.cell = [b.cell EXCEPT !.calibrations = x]]
    OBVIOUS
<1>2. b.cell = CellOf(c, l, r, k)
    BY BufferFields
<1>3. [b EXCEPT !.cell = [CellOf(c, l, r, k) EXCEPT !.calibrations = x]] =
          BufferOf(CellOf(c, l, r, x), scene, files)
    BY BufferFields, CellFields
<1> QED
    BY <1>1, <1>2, <1>3

-----------------------------------------------------------------------------
(* Every buffer is sound. *)

\* What an edit may put in a file.
Admissible(f, content) ==
    /\ f \in TreeFiles => content = [nodes |-> content.nodes]
    /\ f \in CalibrationFiles => content.until \in Nat
    /\ f \in RecipeFiles(disk) => IsRecipe(content)
    /\ Kept(f, content)

\* The disk has the shape of a project.
LEMMA DiskShape ==
    ASSUME IInv
    PROVE  /\ IsProject(disk)
           /\ TreeFiles \cup CalibrationFiles \subseteq Files
           /\ \A id \in RecipeIds, v \in 1..MaxVersion : RecipePath(id, v) \in RecipeFiles(disk)
           /\ \A text \in CellTexts : IsCell(text, RecipeFiles(disk))
BY StartersAssumption, RecipePathAssumption DEF IInv, Sound, RecipeFiles, Files

\* Buffers that keep what is bound, and stage nothing but what is admissible, are sound.
LEMMA BufferSound ==
    ASSUME IInv, Open, NEW components, NEW links, NEW scene,
           NEW recipes \in Seq(RecipeFiles(disk)), NEW calibrations \in SUBSET CalibrationFiles,
           ToSet(working.cell.recipes) \subseteq ToSet(recipes),
           NEW files, files = [f \in Files |-> files[f]],
           \A f \in Files : \/ files[f] \in {Absent, working.files[f]}
                           \/ Admissible(f, files[f])
    PROVE  Sound(BufferOf(CellOf(components, links, recipes, calibrations), scene, files))
<1> DEFINE cell == CellOf(components, links, recipes, calibrations)
           b == BufferOf(cell, scene, files)
<1>1. /\ b.cell = cell /\ b.scene = scene /\ b.files = files
      /\ cell.components = components /\ cell.links = links /\ cell.recipes = recipes
      /\ cell.calibrations = calibrations
    BY CellFields, BufferFields
<1>2. /\ b = [cell |-> b.cell, scene |-> b.scene, files |-> b.files]
      /\ b.cell = [components |-> b.cell.components, links |-> b.cell.links,
                   recipes |-> b.cell.recipes, calibrations |-> b.cell.calibrations]
    BY <1>1 DEF b, cell, BufferOf, CellOf
<1> HIDE DEF cell, b
<1>3. Sound(working) /\ DOMAIN working.files = Files /\ DOMAIN files = Files
    BY DEF IInv, Buffers, Held, Open, Sound
<1>4. RecipeFiles(b) = RecipeFiles(disk) /\ RecipeFiles(working) = RecipeFiles(disk)
    BY <1>1, <1>3 DEF RecipeFiles, Files
<1>5. IsProject(b)
    <2>1. \A f \in TreeFiles : b.files[f] = Absent \/ b.files[f] = [nodes |-> b.files[f].nodes]
        BY <1>1, <1>3, DiskShape DEF Sound, IsProject, Admissible
    <2>2. \A f \in CalibrationFiles : b.files[f] # Absent => b.files[f].until \in Nat
        BY <1>1, <1>3, DiskShape DEF Sound, IsProject, Admissible
    <2>3. \A f \in Stored(b) : IsRecipe(b.files[f])
        <3> SUFFICES ASSUME NEW f \in Stored(b) PROVE IsRecipe(b.files[f])
            OBVIOUS
        <3>1. f \in RecipeFiles(disk) /\ f \in Files /\ files[f] # Absent
            BY <1>1, <1>4 DEF Stored, RecipeFiles, Files
        <3>2. CASE files[f] = working.files[f]
            <4>1. f \in Stored(working)
                BY <1>4, <3>1, <3>2 DEF Stored
            <4> QED
                BY <1>1, <1>3, <3>2, <4>1 DEF Sound, IsProject
        <3>3. CASE Admissible(f, files[f])
            BY <1>1, <3>1, <3>3 DEF Admissible
        <3> QED
            BY <3>1, <3>2, <3>3
    <2> QED
        BY <1>1, <1>2, <1>3, <1>4, <2>1, <2>2, <2>3 DEF IsProject, IsCell
<1>6. \A f \in Files : b.files[f] = Absent \/ Kept(f, b.files[f])
    BY <1>1, <1>3 DEF Sound, Admissible
<1>7. "cell" \notin typed => ToSet(disk.cell.recipes) \subseteq ToSet(b.cell.recipes)
    BY <1>1, <1>3 DEF Sound
<1>8. Sound(b)
    BY <1>1, <1>3, <1>5, <1>6, <1>7 DEF Sound
<1> QED
    BY <1>8 DEF b, cell

\* While the disk stays, what was sound stays sound.
LEMMA SoundKept ==
    ASSUME disk' = disk, "cell" \notin typed' => "cell" \notin typed, NEW b, Sound(b)
    PROVE  Sound(b)'
BY DEF Sound, Kept, Released, Named, Retires, Files

\* An edit that makes sound buffers keeps the invariant.
LEMMA EditKeeps ==
    ASSUME IInv, Open, \E c, view : Sound(c) /\ Edit(c, view)
    PROVE  IInv'
<1>1. PICK c, view : Sound(c) /\ Edit(c, view)
    OBVIOUS
<1> DEFINE step == [contents |-> working, shown |-> shown]
<1>2. /\ working' = c /\ undo' = Append(undo, step) /\ redo' = <<>>
      /\ disk' = disk /\ now' = now /\ typed' = typed
    BY <1>1 DEF Edit
<1>3. /\ undo' \in Seq(ToSet(undo')) /\ ToSet(undo') = ToSet(undo) \cup {step}
      /\ redo' \in Seq(ToSet(redo')) /\ ToSet(redo') = {}
    <2> HIDE DEF step
    <2> QED
        BY <1>2, Appended, Emptied DEF IInv
<1>4. \A b \in Buffers' : b \in Buffers \cup {c}
    BY <1>2, <1>3 DEF Buffers, Held
<1>5. Sound(disk)' /\ \A b \in Buffers' : b = None \/ Sound(b)'
    BY <1>1, <1>2, <1>4, SoundKept DEF IInv
<1> QED
    BY <1>2, <1>3, <1>5 DEF IInv, Files

\* The buffers an edit starts from.
LEMMA WorkingShape ==
    ASSUME IInv, Open
    PROVE  /\ Sound(working) /\ DOMAIN working.files = Files
           /\ working.files = [f \in Files |-> working.files[f]]
           /\ working = BufferOf(CellOf(working.cell.components, working.cell.links,
                                       working.cell.recipes, working.cell.calibrations),
                                working.scene, working.files)
           /\ working.cell.recipes \in Seq(RecipeFiles(disk))
           /\ working.cell.calibrations \subseteq CalibrationFiles
<1>1. Sound(working) /\ DOMAIN working.files = Files
    BY DEF IInv, Buffers, Held, Open, Sound
<1> QED
    BY <1>1 DEF Sound, IsProject, IsCell, RecipeFiles, Files, BufferOf, CellOf

\* Buffers in which the editor has changed components, links and the scene.
Rearranged(components, links, scene, files) ==
    BufferOf(CellOf(components, links, working.cell.recipes, working.cell.calibrations),
             scene, files)

LEMMA RearrangedKeeps ==
    ASSUME IInv, Open, NEW components, NEW links, NEW scene, NEW view,
           NEW files \in {NoFiles, working.files},
           Edit(Rearranged(components, links, scene, files), view)
    PROVE  IInv'
<1>1. files = [f \in Files |-> files[f]] /\ \A f \in Files : files[f] \in {Absent, working.files[f]}
    BY WorkingShape DEF NoFiles
<1>2. Sound(Rearranged(components, links, scene, files))
    BY <1>1, WorkingShape, BufferSound DEF Rearranged
<1> QED
    BY <1>2, EditKeeps

\* The component that is placed.
Newcomer(i, type, alias, selection) ==
    [type |-> type, alias |-> alias, adapter |-> "target_selected", variants |-> selection,
     configuration |-> None, calibrations |-> {}, prim |-> <<i>>]

PlacedComponents(i, component) ==
    [j \in DOMAIN working.cell.components \cup {i} |->
        IF j \in DOMAIN working.cell.components THEN working.cell.components[j] ELSE component]

LEMMA PlacedIs ==
    ASSUME IInv, Open, NEW i, NEW type, NEW alias, NEW selection
    PROVE  Placed(i, type, alias, selection) =
               Rearranged(PlacedComponents(i, Newcomer(i, type, alias, selection)),
                          working.cell.links, WithPrim(working.scene, i), NoFiles)
<1> DEFINE components == PlacedComponents(i, Newcomer(i, type, alias, selection))
           cell == CellOf(components, working.cell.links, working.cell.recipes,
                          working.cell.calibrations)
<1>1. [working.cell EXCEPT !.components = components] = cell
    <2> HIDE DEF components
    <2> QED
        BY WorkingShape, CellFields, BufferFields
<1> QED
    BY <1>1 DEF Placed, Rearranged, BufferOf, Newcomer, PlacedComponents

LEMMA PlaceKeeps ==
    ASSUME IInv, PlaceComponent
    PROVE  IInv'
<1>1. PICK i, type, alias, selection : \E view : Edit(Placed(i, type, alias, selection), view)
    BY DEF PlaceComponent
<1>2. Open
    BY DEF PlaceComponent, Editable
<1>3. \E components, links, scene :
          Placed(i, type, alias, selection) = Rearranged(components, links, scene, NoFiles)
    BY <1>2, PlacedIs
<1> QED
    BY <1>1, <1>2, <1>3, RearrangedKeeps

RemainingComponents(i) == Restrict(working.cell.components, DOMAIN working.cell.components \ {i})
RemainingLinks(i, cascade) == IF cascade THEN Others(i) ELSE working.cell.links

LEMMA RemovedIs ==
    ASSUME IInv, Open, NEW i, NEW cascade
    PROVE  Removed(i, cascade) =
               Rearranged(RemainingComponents(i), RemainingLinks(i, cascade),
                          WithoutPrim(working.scene, working.cell.components[i].prim), NoFiles)
<1> DEFINE components == RemainingComponents(i)
           links == RemainingLinks(i, cascade)
<1>1. [working.cell EXCEPT !.components = components, !.links = links] =
          CellOf(components, links, working.cell.recipes, working.cell.calibrations)
    <2> HIDE DEF components, links
    <2>1. [working.cell EXCEPT !.components = components] =
              CellOf(components, working.cell.links, working.cell.recipes,
                     working.cell.calibrations)
        BY WorkingShape, CellFields, BufferFields
    <2>2. [working.cell EXCEPT !.components = components, !.links = links]
              = [[working.cell EXCEPT !.components = components] EXCEPT !.links = links]
        OBVIOUS
    <2>3. [CellOf(components, working.cell.links, working.cell.recipes,
                  working.cell.calibrations) EXCEPT !.links = links] =
              CellOf(components, links, working.cell.recipes, working.cell.calibrations)
        BY CellFields
    <2> QED
        BY <2>1, <2>2, <2>3
<1> QED
    BY <1>1 DEF Removed, Rearranged, BufferOf, RemainingComponents, RemainingLinks

LEMMA RemoveKeeps ==
    ASSUME IInv, RemoveComponent
    PROVE  IInv'
<1>1. PICK i, cascade : \E view : Edit(Removed(i, cascade), view)
    BY DEF RemoveComponent
<1>2. Open
    BY DEF RemoveComponent, Editable
<1>3. \E components, links, scene :
          Removed(i, cascade) = Rearranged(components, links, scene, NoFiles)
    BY <1>2, RemovedIs
<1> QED
    BY <1>1, <1>2, <1>3, RearrangedKeeps

\* Linked, and with its target snapped to the source.
SnappedTo(link) == Append(working.cell.components[link.from.component].prim,
                          Last(working.cell.components[link.to.component].prim))
SnappedScene(link) ==
    LET old == working.cell.components[link.to.component].prim
    IN  [Reparented(working.scene, old, SnappedTo(link)) EXCEPT ![SnappedTo(link)].matrix = "snapped"]
SnappedComponents(link) ==
    LET old == working.cell.components[link.to.component].prim
    IN  [i \in DOMAIN working.cell.components |->
            [working.cell.components[i] EXCEPT !.prim = Moved(@, old, SnappedTo(link))]]

LEMMA ConnectedIs ==
    ASSUME IInv, Open, NEW link
    PROVE  Connected(link) =
               IF link.kind = "mechanical"
               THEN Rearranged(SnappedComponents(link), Append(working.cell.links, link),
                               SnappedScene(link), NoFiles)
               ELSE Rearranged(working.cell.components, Append(working.cell.links, link),
                               working.scene, NoFiles)
<1> DEFINE linked == [working EXCEPT !.cell.links = Append(@, link), !.files = NoFiles]
           links == Append(working.cell.links, link)
<1>3. linked = Rearranged(working.cell.components, links, working.scene, NoFiles)
    <2> HIDE DEF links
    <2>1. [working EXCEPT !.cell.links = links] =
              Rearranged(working.cell.components, links, working.scene, working.files)
        BY WorkingShape, WithLinks DEF Rearranged
    <2>2. [Rearranged(working.cell.components, links, working.scene, working.files)
              EXCEPT !.files = NoFiles] =
              Rearranged(working.cell.components, links, working.scene, NoFiles)
        BY BufferFields DEF Rearranged
    <2>3. linked = [[working EXCEPT !.cell.links = links] EXCEPT !.files = NoFiles]
        BY DEF links
    <2> QED
        BY <2>1, <2>2, <2>3
<1>4. ASSUME NEW scene, NEW components
      PROVE  [linked EXCEPT !.scene = scene, !.cell.components = components] =
                 Rearranged(components, links, scene, NoFiles)
    <2> HIDE DEF linked, links
    <2>1. [linked EXCEPT !.scene = scene] =
              Rearranged(working.cell.components, links, scene, NoFiles)
        BY <1>3, BufferFields DEF Rearranged
    <2>2. [Rearranged(working.cell.components, links, scene, NoFiles)
              EXCEPT !.cell.components = components] =
              Rearranged(components, links, scene, NoFiles)
        BY WithComponents DEF Rearranged
    <2>3. [linked EXCEPT !.scene = scene, !.cell.components = components] =
              [[linked EXCEPT !.scene = scene] EXCEPT !.cell.components = components]
        OBVIOUS
    <2> QED
        BY <2>1, <2>2, <2>3
<1>5. linked.cell.components = working.cell.components /\ linked.scene = working.scene
    <2> HIDE DEF linked, links
    <2> QED
        BY <1>3, BufferFields, CellFields DEF Rearranged
<1>6. Snap(linked, link) = [linked EXCEPT !.scene = SnappedScene(link),
                                          !.cell.components = SnappedComponents(link)]
    <2> HIDE DEF linked, links
    <2>1. [linked EXCEPT !.scene = SnappedScene(link)].cell = linked.cell
        BY <1>3, BufferFields DEF Rearranged
    <2>2. \A scene, components :
             [linked EXCEPT !.scene = scene, !.cell.components = components] =
                 [[linked EXCEPT !.scene = scene] EXCEPT !.cell.components = components]
        OBVIOUS
    <2> QED
        BY <1>5, <2>1, <2>2 DEF Snap, SnappedPrim, SnappedScene, SnappedComponents, SnappedTo
<1>7. Connected(link) = IF link.kind = "mechanical" THEN Snap(linked, link) ELSE linked
    BY DEF Connected
<1> HIDE DEF linked
<1> QED
    BY <1>3, <1>4, <1>6, <1>7

LEMMA ConnectKeeps ==
    ASSUME IInv, ConnectPorts
    PROVE  IInv'
<1>1. PICK link : \E view : Edit(Connected(link), view)
    BY DEF ConnectPorts
<1>2. Open
    BY DEF ConnectPorts, Editable
<1>3. \E components, links, scene : Connected(link) = Rearranged(components, links, scene, NoFiles)
    BY <1>2, ConnectedIs
<1> QED
    BY <1>1, <1>2, <1>3, RearrangedKeeps

\* The edits of one component, or of its place in the scene, stage nothing.
LEMMA ComponentEditsKeep ==
    ASSUME IInv, SetTransform \/ SetConfiguration \/ SetVariants
    PROVE  IInv'
<1>1. Open
    BY DEF SetTransform, SetConfiguration, SetVariants, PairEditable, Editable
<1>2. ASSUME NEW scene, NEW view, Edit([working EXCEPT !.scene = scene], view)
      PROVE  IInv'
    <2>1. [working EXCEPT !.scene = scene] =
              Rearranged(working.cell.components, working.cell.links, scene, working.files)
        BY <1>1, WorkingShape, BufferFields DEF Rearranged
    <2> QED
        BY <1>1, <1>2, <2>1, RearrangedKeeps
<1>3. ASSUME NEW i, NEW component, NEW view, Edit(Changed(i, component), view)
      PROVE  IInv'
    <2> DEFINE components == [working.cell.components EXCEPT ![i] = component]
    <2>1. Changed(i, component) = [working EXCEPT !.cell.components = components]
        BY DEF Changed
    <2>2. Changed(i, component) =
              Rearranged(components, working.cell.links, working.scene, working.files)
        <3> HIDE DEF components
        <3> QED
            BY <1>1, <2>1, WorkingShape, WithComponents DEF Rearranged
    <2> QED
        BY <1>1, <1>3, <2>2, RearrangedKeeps
<1>4. CASE SetTransform
    <2>1. PICK i : Edit([working EXCEPT !.scene = WithTransform(@, Component(i).prim, "moved")],
                        shown)
        BY <1>4 DEF SetTransform
    <2> QED
        BY <1>2, <2>1
<1>5. CASE SetConfiguration
    <2>1. \E i, component : Edit(Changed(i, component), shown)
        BY <1>5 DEF SetConfiguration
    <2> QED
        BY <1>3, <2>1
<1>6. CASE SetVariants
    <2>1. \E i, component : Edit(Changed(i, component), shown)
        BY <1>6 DEF SetVariants
    <2> QED
        BY <1>3, <2>1
<1> QED
    BY <1>4, <1>5, <1>6

\* Buffers in which the editor has staged a file.
Staging(components, recipes, calibrations, file, content) ==
    BufferOf(CellOf(components, working.cell.links, recipes, calibrations),
             working.scene, [working.files EXCEPT ![file] = content])

LEMMA StagingKeeps ==
    ASSUME IInv, Open, NEW components, NEW recipes \in Seq(RecipeFiles(disk)),
           NEW calibrations \in SUBSET CalibrationFiles, NEW file \in Files, NEW content, NEW view,
           ToSet(working.cell.recipes) \subseteq ToSet(recipes),
           Admissible(file, content),
           Edit(Staging(components, recipes, calibrations, file, content), view)
    PROVE  IInv'
<1> DEFINE files == [working.files EXCEPT ![file] = content]
<1>1. /\ files = [f \in Files |-> files[f]] /\ files[file] = content
      /\ \A f \in Files : f # file => files[f] = working.files[f]
    BY WorkingShape
<1>2. Sound(BufferOf(CellOf(components, working.cell.links, recipes, calibrations),
                     working.scene, files))
    <2> HIDE DEF files
    <2> QED
        BY <1>1, BufferSound
<1> QED
    BY <1>2, EditKeeps DEF Staging

\* What is staged for a task is no recipe and no calibration.
LEMMA TreeKeeps ==
    ASSUME IInv, SetTaskTree
    PROVE  IInv'
<1>1. PICK task, tree : Edit([working EXCEPT !.files[TreeFile(task)] = [nodes |-> tree]], shown)
    BY DEF SetTaskTree
<1>2. Open
    BY DEF SetTaskTree, Editable
<1> DEFINE file == TreeFile(task)
           content == [nodes |-> tree]
           found == {i \in DOMAIN Tasks : Tasks[i].id = task}
<1>3. file \in TreeFiles
    <2>1. found # {} => Min(found) \in DOMAIN Tasks
        <3>1. DOMAIN Tasks \subseteq Nat
            BY FilesAssumption
        <3> QED
            BY <3>1, MinOf
    <2> QED
        BY <2>1 DEF TreeFile, TreeFiles
<1>4. file \in Files /\ file \notin CalibrationFiles /\ file \notin RecipeFiles(disk)
    BY <1>3, DiskShape, FilesAssumption DEF RecipeFiles
<1>5. Kept(file, content)
    BY <1>4 DEF Kept, Released, Stored
<1>6. Admissible(file, content)
    BY <1>3, <1>4, <1>5 DEF Admissible
<1>7. [working EXCEPT !.files[file] = content] =
          Staging(working.cell.components, working.cell.recipes, working.cell.calibrations,
                  file, content)
    <2> HIDE DEF file, content
    <2>1. [working EXCEPT !.files[file] = content] =
              [working EXCEPT !.files = [working.files EXCEPT ![file] = content]]
        OBVIOUS
    <2> QED
        BY <1>2, <2>1, WorkingShape, BufferFields DEF Staging
<1> QED
    BY <1>1, <1>2, <1>4, <1>6, <1>7, WorkingShape, StagingKeeps

\* The component that refers to one calibration more.
CalibratedComponents(i, file) ==
    [working.cell.components EXCEPT ![i] = [Component(i) EXCEPT !.calibrations = @ \cup {file}]]

LEMMA WithCalibrationIs ==
    ASSUME IInv, Open, NEW i, NEW file, NEW calibration
    PROVE  WithCalibration(i, file, calibration) =
               Staging(CalibratedComponents(i, file), working.cell.recipes,
                       working.cell.calibrations \cup {file}, file, calibration)
<1> DEFINE component == [Component(i) EXCEPT !.calibrations = @ \cup {file}]
           components == [working.cell.components EXCEPT ![i] = component]
           calibrations == working.cell.calibrations \cup {file}
<1> DEFINE cell == CellOf(components, working.cell.links, working.cell.recipes,
                          working.cell.calibrations)
           next == CellOf(components, working.cell.links, working.cell.recipes, calibrations)
           files == [working.files EXCEPT ![file] = calibration]
<1>1. Changed(i, component) = [working EXCEPT !.cell.components = components]
    BY DEF Changed
<1>0. CalibratedComponents(i, file) = components
    BY DEF CalibratedComponents
<1> HIDE DEF component, components
<1>2. Changed(i, component) = BufferOf(cell, working.scene, working.files)
    BY <1>1, WorkingShape, WithComponents
<1>3. [BufferOf(cell, working.scene, working.files) EXCEPT !.cell.calibrations = calibrations] =
          BufferOf(next, working.scene, working.files)
    <2> HIDE DEF calibrations
    <2> QED
        BY WithCalibrations
<1>4. [BufferOf(next, working.scene, working.files) EXCEPT !.files = files] =
          BufferOf(next, working.scene, files)
    <2> HIDE DEF next, files
    <2> QED
        BY BufferFields
<1>5. WithCalibration(i, file, calibration) =
          [[Changed(i, component) EXCEPT !.cell.calibrations = @ \cup {file}]
              EXCEPT !.files[file] = calibration]
    BY DEF WithCalibration, component
<1>6. Changed(i, component).cell.calibrations = working.cell.calibrations
    BY <1>2, BufferFields, CellFields
<1>7. [Changed(i, component) EXCEPT !.cell.calibrations = @ \cup {file}] =
          BufferOf(next, working.scene, working.files)
    <2>1. [Changed(i, component) EXCEPT !.cell.calibrations = @ \cup {file}] =
              [Changed(i, component) EXCEPT
                  !.cell.calibrations = Changed(i, component).cell.calibrations \cup {file}]
        OBVIOUS
    <2> QED
        BY <1>2, <1>3, <1>6, <2>1
<1>8. [BufferOf(next, working.scene, working.files) EXCEPT !.files[file] = calibration] =
          [BufferOf(next, working.scene, working.files) EXCEPT
              !.files = [BufferOf(next, working.scene, working.files).files
                            EXCEPT ![file] = calibration]]
    OBVIOUS
<1>9. BufferOf(next, working.scene, working.files).files = working.files
    BY BufferFields
<1> QED
    BY <1>0, <1>4, <1>5, <1>7, <1>8, <1>9 DEF Staging

\* A calibration that the disk has keeps its contents.
LEMMA CalibrationKeeps ==
    ASSUME IInv, BindCalibration
    PROVE  IInv'
<1>1. PICK i \in DOMAIN working.cell.components, file \in CalibrationFiles,
           until \in Lifetimes, data \in {"first", "second"} :
          /\ Bindable(file, [owner |-> i, until |-> until, data |-> data])
          /\ Edit(WithCalibration(i, file, [owner |-> i, until |-> until, data |-> data]), shown)
    BY DEF BindCalibration
<1>2. Open
    BY DEF BindCalibration, PairEditable, Editable
<1> DEFINE calibration == [owner |-> i, until |-> until, data |-> data]
           component == [Component(i) EXCEPT !.calibrations = @ \cup {file}]
           components == [working.cell.components EXCEPT ![i] = component]
           calibrations == working.cell.calibrations \cup {file}
<1>3. /\ file \in Files /\ file \notin TreeFiles /\ file \notin RecipeFiles(disk)
      /\ calibration.until \in Nat
    BY DiskShape, FilesAssumption, BoundsAssumption DEF RecipeFiles
<1>4. Kept(file, calibration)
    <2>1. disk.files[file] # Absent => working.files[file] \in {Absent, disk.files[file]}
        BY <1>2, <1>3, WorkingShape DEF Sound, Kept
    <2>2. Source(working, file) \in {Absent, calibration}
        BY <1>1 DEF Bindable
    <2>3. disk.files[file] # Absent => calibration = disk.files[file]
        BY <2>1, <2>2 DEF Source
    <2> HIDE DEF calibration
    <2> QED
        BY <1>3, <2>3 DEF Kept, Released, Stored
<1>5. Admissible(file, calibration)
    BY <1>3, <1>4 DEF Admissible
<1>6. WithCalibration(i, file, calibration) =
          Staging(components, working.cell.recipes, calibrations, file, calibration)
    <2> HIDE DEF calibration
    <2> QED
        BY <1>2, WithCalibrationIs DEF CalibratedComponents
<1> QED
    BY <1>1, <1>2, <1>3, <1>5, <1>6, WorkingShape, StagingKeeps

\* The recipe an editor finds may stand for that of the disk.
LEMMA RecipeSource ==
    ASSUME IInv, Open, NEW file \in Summaries(working)
    PROVE  /\ file \in RecipeFiles(disk) /\ file \in Files /\ file \in ToSet(working.cell.recipes)
           /\ file \notin TreeFiles /\ file \notin CalibrationFiles
           /\ IsRecipe(Source(working, file))
           /\ Kept(file, Source(working, file))
<1>1. file \in ToSet(working.cell.recipes) /\ Source(working, file) # Absent
    BY DEF Summaries
<1>2. file \in RecipeFiles(disk)
    BY <1>1, WorkingShape DEF ToSet
<1>3. file \in Files /\ file \notin TreeFiles /\ file \notin CalibrationFiles
    BY <1>2 DEF RecipeFiles, Files
<1>4. RecipeFiles(working) = RecipeFiles(disk)
    BY WorkingShape DEF RecipeFiles, Files
<1>5. IsRecipe(Source(working, file))
    <2>1. CASE working.files[file] # Absent
        BY <1>2, <1>4, <2>1, WorkingShape DEF Source, Stored, Sound, IsProject
    <2>2. CASE working.files[file] = Absent
        BY <1>1, <1>2, <2>2, DiskShape DEF Source, Stored, IsProject
    <2> QED
        BY <2>1, <2>2
<1>6. Kept(file, Source(working, file))
    BY <1>3, WorkingShape DEF Sound, Source, Kept
<1> QED
    BY <1>1, <1>2, <1>3, <1>5, <1>6

\* The three edits of one recipe stage it in a place of its own.
LEMMA RecipeStaged ==
    ASSUME IInv, Open, NEW file, NEW content, NEW recipes, NEW view,
           recipes = working.cell.recipes \/ recipes = Append(working.cell.recipes, file),
           file \in RecipeFiles(disk), file \in ToSet(recipes), IsRecipe(content),
           Kept(file, content),
           Edit(Staging(working.cell.components, recipes, working.cell.calibrations,
                        file, content), view)
    PROVE  IInv'
<1>1. /\ recipes \in Seq(RecipeFiles(disk))
      /\ ToSet(working.cell.recipes) \subseteq ToSet(recipes)
    <2>1. CASE recipes = working.cell.recipes
        BY <2>1, WorkingShape
    <2>2. CASE recipes = Append(working.cell.recipes, file)
        <3>1. /\ recipes \in Seq(RecipeFiles(disk))
              /\ \A n \in DOMAIN working.cell.recipes :
                    n \in DOMAIN recipes /\ recipes[n] = working.cell.recipes[n]
            BY <2>2, WorkingShape
        <3> QED
            BY <3>1 DEF ToSet
    <2> QED
        BY <2>1, <2>2
<1>2. file \in Files /\ file \notin TreeFiles /\ file \notin CalibrationFiles
    BY DEF RecipeFiles, Files
<1>3. Admissible(file, content)
    BY <1>2 DEF Admissible
<1> QED
    BY <1>1, <1>2, <1>3, WorkingShape, StagingKeeps

\* Staging a file of the buffers, and nothing else.
LEMMA StagedFile ==
    ASSUME IInv, Open, NEW file, NEW content
    PROVE  [working EXCEPT !.files[file] = content] =
               Staging(working.cell.components, working.cell.recipes, working.cell.calibrations,
                       file, content)
<1>1. [working EXCEPT !.files[file] = content] =
          [working EXCEPT !.files = [working.files EXCEPT ![file] = content]]
    OBVIOUS
<1> QED
    BY <1>1, WorkingShape, BufferFields DEF Staging

\* Binding a recipe and staging it.
LEMMA StagedVersion ==
    ASSUME IInv, Open, NEW recipes, NEW file, NEW content
    PROVE  [working EXCEPT !.cell.recipes = recipes, !.files[file] = content] =
               Staging(working.cell.components, recipes, working.cell.calibrations, file, content)
<1> DEFINE cell == CellOf(working.cell.components, working.cell.links, recipes,
                          working.cell.calibrations)
           files == [working.files EXCEPT ![file] = content]
           new == BufferOf(cell, working.scene, working.files)
<1>1. [working EXCEPT !.cell.recipes = recipes] = new
    BY WorkingShape, WithRecipes
<1>2. [working EXCEPT !.cell.recipes = recipes, !.files[file] = content] =
          [[working EXCEPT !.cell.recipes = recipes] EXCEPT !.files[file] = content]
    OBVIOUS
<1>3. [new EXCEPT !.files[file] = content] =
          [new EXCEPT !.files = [new.files EXCEPT ![file] = content]]
    OBVIOUS
<1>4. new.files = working.files
    BY BufferFields
<1>5. [new EXCEPT !.files = files] = BufferOf(cell, working.scene, files)
    <2> HIDE DEF cell, files
    <2> QED
        BY BufferFields
<1> HIDE DEF new
<1> QED
    BY <1>1, <1>2, <1>3, <1>4, <1>5 DEF Staging

\* A version that may be edited is none that the disk has released.
LEMMA EditRecipeKeeps ==
    ASSUME IInv, EditRecipe
    PROVE  IInv'
<1>1. PICK file \in Summaries(working) :
          /\ ~Immutable(Source(working, file))
          /\ \E entry \in Entries : \E view :
                Edit([working EXCEPT !.files[file] =
                         [Source(working, file) EXCEPT
                             !.status = IF @ = "DRAFT" THEN entry.status ELSE "DRAFT",
                             !.evidence = entry.evidence, !.body = entry.body]], view)
    BY DEF EditRecipe
<1>2. Open
    BY DEF EditRecipe, Editable
<1> DEFINE recipe == Source(working, file)
<1>3. PICK entry \in Entries : \E view :
          Edit([working EXCEPT !.files[file] =
                   [recipe EXCEPT !.status = IF @ = "DRAFT" THEN entry.status ELSE "DRAFT",
                                  !.evidence = entry.evidence, !.body = entry.body]], view)
    BY <1>1
<1> DEFINE edited == [recipe EXCEPT !.status = IF @ = "DRAFT" THEN entry.status ELSE "DRAFT",
                                    !.evidence = entry.evidence, !.body = entry.body]
<1>4. IsRecipe(edited)
    <2>1. /\ IsRecipe(recipe) /\ entry.evidence \in BOOLEAN
          /\ recipe = [id |-> recipe.id, version |-> recipe.version, status |-> recipe.status,
                       evidence |-> recipe.evidence, body |-> recipe.body]
        BY <1>2, RecipeSource, EntriesAssumption DEF IsRecipe
    <2> HIDE DEF recipe
    <2> DEFINE status == IF recipe.status = "DRAFT" THEN entry.status ELSE "DRAFT"
    <2>2. edited = [id |-> recipe.id, version |-> recipe.version, status |-> status,
                    evidence |-> entry.evidence, body |-> entry.body]
        <3> DEFINE first == [id |-> recipe.id, version |-> recipe.version, status |-> status,
                             evidence |-> recipe.evidence, body |-> recipe.body]
                   second == [id |-> recipe.id, version |-> recipe.version, status |-> status,
                              evidence |-> entry.evidence, body |-> recipe.body]
        <3>1. edited = [[[recipe EXCEPT !.status = status] EXCEPT !.evidence = entry.evidence]
                           EXCEPT !.body = entry.body]
            OBVIOUS
        <3> HIDE DEF status
        <3>2. [recipe EXCEPT !.status = status] = first
            BY <2>1
        <3>3. [first EXCEPT !.evidence = entry.evidence] = second
            OBVIOUS
        <3>4. [second EXCEPT !.body = entry.body] =
                  [id |-> recipe.id, version |-> recipe.version, status |-> status,
                   evidence |-> entry.evidence, body |-> entry.body]
            OBVIOUS
        <3> HIDE DEF first, second
        <3> QED
            BY <3>1, <3>2, <3>3, <3>4
    <2> HIDE DEF edited, status
    <2> QED
        BY <2>1, <2>2 DEF IsRecipe
<1>5. Kept(file, edited)
    <2> SUFFICES ASSUME "cell" \notin typed, file \in Released PROVE FALSE
        BY <1>2, RecipeSource DEF Kept
    <2>1. /\ disk.files[file].status \in {"APPROVED", "RETIRED"}
          /\ IsRecipe(recipe) /\ Kept(file, recipe)
        BY <1>2, RecipeSource DEF Released
    <2>2. recipe.status \in {"APPROVED", "RETIRED"}
        <3>1. CASE recipe = disk.files[file]
            BY <2>1, <3>1
        <3>2. CASE recipe = Retired(disk.files[file])
            <4>1. "status" \in DOMAIN recipe
                BY <2>1 DEF IsRecipe
            <4> HIDE DEF recipe
            <4> QED
                BY <3>2, <4>1 DEF Retired
        <3> QED
            BY <2>1, <3>1, <3>2 DEF Kept, Retires
    <2> QED
        BY <1>1, <2>2 DEF Immutable
<1>6. PICK view :
          Edit(Staging(working.cell.components, working.cell.recipes, working.cell.calibrations,
                       file, edited), view)
    BY <1>2, <1>3, StagedFile
<1> QED
    BY <1>2, <1>4, <1>5, <1>6, RecipeSource, RecipeStaged

\* What a caller lays over a recipe leaves a recipe.
LEMMA MergedIsRecipe ==
    ASSUME NEW recipe, NEW override \in Overrides,
           DOMAIN recipe = {"id", "version", "status", "evidence", "body"},
           recipe.id \in RecipeIds, recipe.version \in 1..MaxVersion, recipe.evidence \in BOOLEAN
    PROVE  IsRecipe(Merged(recipe, override))
<1> DEFINE merged == Merged(recipe, override)
           Pick(field) == IF field \in DOMAIN override THEN override[field] ELSE recipe[field]
<1>1. merged = [id |-> Pick("id"), version |-> Pick("version"), status |-> Pick("status"),
                evidence |-> Pick("evidence"), body |-> Pick("body")]
    BY DEF Merged
<1>2. Pick("id") \in RecipeIds
    <2>1. "id" \in DOMAIN override => override.id \in GivenIds
        BY DEF GivenIds
    <2> QED
        BY <2>1 DEF RecipeIds
<1>3. Pick("version") \in 1..MaxVersion /\ Pick("evidence") \in BOOLEAN
    BY OverridesAssumption
<1> HIDE DEF merged, Pick
<1>4. IsRecipe(merged)
    BY <1>1, <1>2, <1>3 DEF IsRecipe
<1> QED
    BY <1>4 DEF merged

\* A new version finds a new place: one the disk had released would be bound, and counted.
LEMMA CreateRecipeKeeps ==
    ASSUME IInv, CreateRecipeVersion
    PROVE  IInv'
<1> DEFINE recipe(base) == Source(working, base)
           versions(base) == {Source(working, f).version : f \in Versions(working, recipe(base).id)}
           version(base) == 1 + Max(versions(base))
           place(base) == RecipePath(recipe(base).id, version(base))
           draft(base) == [recipe(base) EXCEPT !.version = version(base), !.status = "DRAFT"]
<1>1. PICK base \in Summaries(working), override \in Overrides :
          /\ version(base) <= MaxVersion
          /\ \E view :
                Edit([working EXCEPT
                         !.cell.recipes = Append(working.cell.recipes, place(base)),
                         !.files[place(base)] = Merged(draft(base), override)], view)
    BY DEF CreateRecipeVersion
<1>2. Open
    BY DEF CreateRecipeVersion, Editable
<1> DEFINE content == Merged(draft(base), override)
<1> DEFINE file == place(base)
           recipes == Append(working.cell.recipes, file)
<1>3. /\ IsRecipe(recipe(base)) /\ recipe(base).id \in RecipeIds
      /\ recipe(base) = [id |-> recipe(base).id, version |-> recipe(base).version,
                         status |-> recipe(base).status, evidence |-> recipe(base).evidence,
                         body |-> recipe(base).body]
    BY <1>2, RecipeSource DEF IsRecipe
<1>4. \A f \in Versions(working, recipe(base).id) :
          f \in Summaries(working) /\ Source(working, f).version \in 1..MaxVersion
    BY <1>2, RecipeSource DEF Versions, IsRecipe
<1>5. base \in Versions(working, recipe(base).id)
    BY DEF Versions
<1>6. /\ version(base) \in 1..MaxVersion
      /\ \A v \in versions(base) : v # version(base)
    <2>1. versions(base) \subseteq 0..MaxVersion /\ versions(base) # {} /\ MaxVersion \in Nat
        BY <1>4, <1>5, BoundsAssumption
    <2> HIDE DEF versions
    <2>2. Max(versions(base)) \in versions(base) /\ \A v \in versions(base) : Max(versions(base)) >= v
        BY <2>1, MaxOf
    <2> QED
        BY <1>1, <2>1, <2>2
<1>7. file \in RecipeFiles(disk)
    BY <1>3, <1>6, DiskShape
<1>8. IsRecipe(content)
    <2> HIDE DEF recipe, version
    <2>1. draft(base) = [id |-> recipe(base).id, version |-> version(base), status |-> "DRAFT",
                         evidence |-> recipe(base).evidence, body |-> recipe(base).body]
        <3> DEFINE first == [id |-> recipe(base).id, version |-> version(base),
                             status |-> recipe(base).status, evidence |-> recipe(base).evidence,
                             body |-> recipe(base).body]
        <3>1. draft(base) = [[recipe(base) EXCEPT !.version = version(base)]
                                  EXCEPT !.status = "DRAFT"]
            OBVIOUS
        <3>2. [recipe(base) EXCEPT !.version = version(base)] = first
            BY <1>3
        <3>3. [first EXCEPT !.status = "DRAFT"] =
                  [id |-> recipe(base).id, version |-> version(base), status |-> "DRAFT",
                   evidence |-> recipe(base).evidence, body |-> recipe(base).body]
            OBVIOUS
        <3> HIDE DEF first
        <3> QED
            BY <3>1, <3>2, <3>3
    <2>2. recipe(base).evidence \in BOOLEAN
        BY <1>3 DEF IsRecipe
    <2> HIDE DEF draft
    <2>3. /\ DOMAIN draft(base) = {"id", "version", "status", "evidence", "body"}
          /\ draft(base).id \in RecipeIds /\ draft(base).version \in 1..MaxVersion
          /\ draft(base).evidence \in BOOLEAN
        BY <1>3, <1>6, <2>1, <2>2
    <2> QED
        BY <2>3, MergedIsRecipe
<1>9. Kept(file, content)
    <2> SUFFICES ASSUME "cell" \notin typed, file \in Released PROVE FALSE
        BY <1>7 DEF Kept, RecipeFiles
    <2>1. /\ file \in ToSet(disk.cell.recipes) /\ disk.files[file] # Absent
          /\ disk.files[file].id = recipe(base).id /\ disk.files[file].version = version(base)
        BY <1>3, <1>6 DEF Released, Stored, Named
    <2>2. file \in Summaries(working)
        <3>1. file \in ToSet(working.cell.recipes)
            BY <1>2, <2>1, WorkingShape DEF Sound
        <3>2. Source(working, file) # Absent
            BY <2>1 DEF Source
        <3> QED
            BY <3>1, <3>2 DEF Summaries
    <2>3. Kept(file, Source(working, file)) /\ IsRecipe(Source(working, file))
        BY <1>2, <2>2, RecipeSource
    <2>4. Source(working, file).id = recipe(base).id /\ Source(working, file).version = version(base)
        <3> DEFINE source == Source(working, file)
        <3>1. source = disk.files[file] \/ source = Retired(disk.files[file])
            BY <2>3 DEF Kept, Retires
        <3>2. {"id", "version"} \subseteq DOMAIN source
            BY <2>3 DEF IsRecipe
        <3> HIDE DEF source, recipe, version
        <3>3. CASE source = Retired(disk.files[file])
            <4>1. /\ DOMAIN source = DOMAIN disk.files[file]
                  /\ \A k \in DOMAIN source : k # "status" => source[k] = disk.files[file][k]
                BY <3>3 DEF Retired
            <4>2. source.id = disk.files[file].id /\ source.version = disk.files[file].version
                BY <3>2, <4>1
            <4> QED
                BY <2>1, <4>2 DEF source
        <3> QED
            BY <2>1, <3>1, <3>3 DEF source
    <2>5. version(base) \in versions(base)
        BY <2>2, <2>4 DEF Versions
    <2> QED
        BY <1>6, <2>5
<1>10. file \in ToSet(recipes)
    <2> HIDE DEF file
    <2>1. DOMAIN recipes = 1..(Len(working.cell.recipes) + 1) /\ Len(working.cell.recipes) \in Nat
          /\ recipes[Len(working.cell.recipes) + 1] = file
        BY <1>2, <1>7, WorkingShape
    <2> QED
        BY <2>1 DEF ToSet
<1>11. [working EXCEPT !.cell.recipes = recipes, !.files[file] = content] =
           Staging(working.cell.components, recipes, working.cell.calibrations, file, content)
    <2> HIDE DEF recipes, file, content
    <2> QED
        BY <1>2, StagedVersion
<1>12. PICK view : Edit(Staging(working.cell.components, recipes, working.cell.calibrations,
                                file, content), view)
    BY <1>1, <1>11
<1> HIDE DEF file, recipes, content
<1> QED
    BY <1>2, <1>7, <1>8, <1>9, <1>10, <1>12, RecipeStaged DEF recipes

\* Of a version the disk has released, only the retirement is staged.
LEMMA TransitionKeeps ==
    ASSUME IInv, TransitionRecipe
    PROVE  IInv'
<1> DEFINE moved(file, status, given) ==
               [Source(working, file) EXCEPT
                   !.status = status,
                   !.evidence = @ \/ (status \in {"TESTED", "APPROVED"} /\ given)]
<1>1. PICK file \in Summaries(working), given \in BOOLEAN :
          \E status \in Transitions(Source(working, file).status) : \E view :
              Edit([working EXCEPT !.files[file] = moved(file, status, given)], view)
    BY ZenonT(60) DEF TransitionRecipe
<1>2. Open
    BY DEF TransitionRecipe, Editable
<1> DEFINE recipe == Source(working, file)
<1>3. PICK status \in Transitions(recipe.status) : \E view :
          Edit([working EXCEPT !.files[file] = moved(file, status, given)], view)
    BY <1>1
<1> DEFINE evidence == recipe.evidence \/ (status \in {"TESTED", "APPROVED"} /\ given)
<1>4. /\ IsRecipe(recipe) /\ recipe.evidence \in BOOLEAN
      /\ recipe = [id |-> recipe.id, version |-> recipe.version, status |-> recipe.status,
                   evidence |-> recipe.evidence, body |-> recipe.body]
    BY <1>2, RecipeSource DEF IsRecipe
<1>5. moved(file, status, given) =
          [id |-> recipe.id, version |-> recipe.version, status |-> status,
           evidence |-> evidence, body |-> recipe.body]
    <2> DEFINE first == [id |-> recipe.id, version |-> recipe.version, status |-> status,
                         evidence |-> recipe.evidence, body |-> recipe.body]
    <2>1. moved(file, status, given) =
              [[recipe EXCEPT !.status = status] EXCEPT !.evidence = evidence]
        OBVIOUS
    <2> HIDE DEF recipe, evidence
    <2>2. [recipe EXCEPT !.status = status] = first
        BY <1>4
    <2>3. [first EXCEPT !.evidence = evidence] =
              [id |-> recipe.id, version |-> recipe.version, status |-> status,
               evidence |-> evidence, body |-> recipe.body]
        OBVIOUS
    <2> HIDE DEF first, moved
    <2> QED
        BY <2>1, <2>2, <2>3
<1>6. IsRecipe(moved(file, status, given))
    <2>1. evidence \in BOOLEAN
        OBVIOUS
    <2> HIDE DEF recipe, evidence, moved
    <2> QED
        BY <1>4, <1>5, <2>1 DEF IsRecipe
<1>7. Kept(file, moved(file, status, given))
    <2> SUFFICES ASSUME "cell" \notin typed, file \in Released
                 PROVE  /\ disk.files[file].status = "APPROVED"
                        /\ moved(file, status, given) = Retired(disk.files[file])
        BY <1>2, RecipeSource DEF Kept, Retires
    <2>1. disk.files[file].status \in {"APPROVED", "RETIRED"}
        BY DEF Released
    <2>2. recipe = disk.files[file]
        <3> SUFFICES ASSUME recipe = Retired(disk.files[file]) PROVE FALSE
            BY <1>2, RecipeSource DEF Kept, Retires
        <3>1. recipe.status = "RETIRED"
            <4>1. "status" \in DOMAIN recipe
                BY <1>4
            <4> HIDE DEF recipe
            <4> QED
                BY <4>1 DEF Retired
        <3> QED
            BY <3>1 DEF Transitions
    <2>3. recipe.status = "APPROVED" /\ status = "RETIRED"
        BY <2>1, <2>2 DEF Transitions
    <2>4. moved(file, status, given) =
              [id |-> recipe.id, version |-> recipe.version, status |-> "RETIRED",
               evidence |-> recipe.evidence, body |-> recipe.body]
        <3>1. evidence = recipe.evidence
            BY <1>4, <2>3
        <3> HIDE DEF moved, evidence
        <3> QED
            BY <1>5, <2>3, <3>1
    <2>5. Retired(recipe) =
              [id |-> recipe.id, version |-> recipe.version, status |-> "RETIRED",
               evidence |-> recipe.evidence, body |-> recipe.body]
        <3> HIDE DEF recipe
        <3> QED
            BY <1>4 DEF Retired
    <2> HIDE DEF recipe, moved
    <2> QED
        BY <2>2, <2>3, <2>4, <2>5
<1>8. PICK view :
          Edit(Staging(working.cell.components, working.cell.recipes, working.cell.calibrations,
                       file, moved(file, status, given)), view)
    BY <1>2, <1>3, StagedFile
<1> HIDE DEF moved
<1> QED
    BY <1>2, <1>6, <1>7, <1>8, RecipeSource, RecipeStaged

\* An undo or a redo brings back buffers that the history held.
LEMMA HistoryKeeps ==
    ASSUME IInv, Undo \/ Redo
    PROVE  IInv'
<1> DEFINE step == [contents |-> working, shown |-> shown]
<1>0. step.contents = working
    OBVIOUS
<1>1. ASSUME NEW b \in Buffers' PROVE b \in Buffers
    <2> HIDE DEF step
    <2>1. CASE Undo
        <3>1. /\ undo # <<>> /\ working' = Last(undo).contents /\ undo' = Front(undo)
              /\ redo' = Append(redo, step) /\ disk' = disk
            BY <2>1 DEF Undo, step
        <3>2. /\ Last(undo) \in ToSet(undo) /\ ToSet(undo') \subseteq ToSet(undo)
              /\ ToSet(redo') = ToSet(redo) \cup {step}
            BY <3>1, Fronted, Appended DEF IInv
        <3> QED
            BY <1>0, <3>1, <3>2 DEF Buffers, Held
    <2>2. CASE Redo
        <3>1. /\ redo # <<>> /\ working' = Last(redo).contents /\ redo' = Front(redo)
              /\ undo' = Append(undo, step) /\ disk' = disk
            BY <2>2 DEF Redo, step
        <3>2. /\ Last(redo) \in ToSet(redo) /\ ToSet(redo') \subseteq ToSet(redo)
              /\ ToSet(undo') = ToSet(undo) \cup {step}
            BY <3>1, Fronted, Appended DEF IInv
        <3> QED
            BY <1>0, <3>1, <3>2 DEF Buffers, Held
    <2> QED
        BY <2>1, <2>2
<1>2. undo' \in Seq(ToSet(undo')) /\ redo' \in Seq(ToSet(redo'))
    <2>1. \/ undo # <<>> /\ undo' = Front(undo) /\ redo' = Append(redo, step)
          \/ redo # <<>> /\ redo' = Front(redo) /\ undo' = Append(undo, step)
        BY DEF Undo, Redo
    <2>2. undo \in Seq(ToSet(undo)) /\ redo \in Seq(ToSet(redo))
        BY DEF IInv
    <2> HIDE DEF step
    <2>3. CASE undo # <<>> /\ undo' = Front(undo) /\ redo' = Append(redo, step)
        BY <2>2, <2>3, Fronted, Appended
    <2>4. CASE redo # <<>> /\ redo' = Front(redo) /\ undo' = Append(undo, step)
        BY <2>2, <2>4, Fronted, Appended
    <2> QED
        BY <2>1, <2>3, <2>4
<1>3. disk' = disk /\ now' = now /\ typed' = typed
    BY DEF Undo, Redo
<1>4. Sound(disk)' /\ \A b \in Buffers' : b = None \/ Sound(b)'
    BY <1>1, <1>3, SoundKept DEF IInv
<1> QED
    BY <1>2, <1>3, <1>4 DEF IInv, Files

\* What binds and holds nothing but what the disk does is sound, whatever was typed before.
Plain(b) ==
    /\ IsProject(b) /\ DOMAIN b.files = Files
    /\ \A f \in Files : b.files[f] \in {Absent, disk.files[f]}
    /\ b.cell.recipes = disk.cell.recipes

LEMMA PlainIsSound ==
    ASSUME disk' = disk, NEW b, Plain(b)
    PROVE  Sound(b)'
<1>1. Files' = Files
    BY DEF Files
<1>2. \A f \in Files' : b.files[f] = Absent \/ Kept(f, b.files[f])'
    BY <1>1 DEF Plain, Kept
<1> QED
    BY <1>1, <1>2 DEF Plain, Sound

\* What opening loads: the calibrations that the disk has.
LEMMA LoadedPlain ==
    ASSUME IInv
    PROVE  Plain(Loaded)
<1> DEFINE files == [f \in Files |-> IF f \in disk.cell.calibrations THEN disk.files[f] ELSE Absent]
           loaded == BufferOf(disk.cell, disk.scene, files)
<1>1. Sound(disk) /\ IsProject(disk) /\ TreeFiles \cup CalibrationFiles \subseteq Files
    BY DiskShape DEF IInv
<1>2. Loaded = loaded
    <2>1. disk = BufferOf(disk.cell, disk.scene, disk.files)
        BY <1>1 DEF IsProject, BufferOf
    <2> HIDE DEF files
    <2>2. [disk EXCEPT !.files = files] = loaded
        BY <2>1, BufferFields
    <2> QED
        BY <2>2 DEF Loaded, files
<1>3. loaded.cell = disk.cell /\ loaded.scene = disk.scene /\ loaded.files = files
    BY BufferFields
<1>4. loaded = [cell |-> loaded.cell, scene |-> loaded.scene, files |-> loaded.files]
    BY <1>3 DEF BufferOf
<1>5. DOMAIN files = Files /\ files = [f \in Files |-> files[f]]
    OBVIOUS
<1>6. \A f \in Files : /\ files[f] \in {Absent, disk.files[f]}
                       /\ f \notin CalibrationFiles => files[f] = Absent
    BY <1>1 DEF IsProject, IsCell
<1> HIDE DEF files, loaded
<1>7. RecipeFiles(loaded) = RecipeFiles(disk) /\ Stored(loaded) = {}
    BY <1>3, <1>5, <1>6 DEF RecipeFiles, Files, Stored
<1>8. IsProject(loaded)
    BY <1>1, <1>3, <1>4, <1>5, <1>6, <1>7 DEF IsProject
<1> QED
    BY <1>2, <1>3, <1>5, <1>6, <1>8 DEF Plain

LEMMA OpenKeeps ==
    ASSUME IInv, OpenProject
    PROVE  IInv'
<1>1. /\ working' \in {None, Loaded} /\ undo' = <<>> /\ redo' = <<>>
      /\ disk' = disk /\ now' = now
    BY DEF OpenProject, Load
<1>2. /\ undo' \in Seq(ToSet(undo')) /\ redo' \in Seq(ToSet(redo'))
      /\ Buffers' \subseteq {disk, None, Loaded}
    BY <1>1, Emptied DEF Buffers, Held
<1>3. Plain(disk) /\ Plain(Loaded)
    BY LoadedPlain DEF IInv, Sound, Plain
<1>4. Sound(disk)' /\ \A b \in Buffers' : b = None \/ Sound(b)'
    <2>1. \A b : Plain(b) => Sound(b)'
        BY <1>1, PlainIsSound
    <2>2. Sound(disk)'
        BY <1>1, <1>3, <2>1 DEF Sound, Kept, Released, Named, Retires, Files
    <2> QED
        BY <1>2, <1>3, <2>1, <2>2
<1> QED
    BY <1>1, <1>2, <1>4 DEF IInv, Files

\* Whatever is typed over the cell has the shape of a cell, and the scene may be anything.
LEMMA TypingKeeps ==
    ASSUME IInv, Typing
    PROVE  IInv'
<1>1. PICK document, contents :
          /\ Type(document, contents)
          /\ \/ document = "cell" /\ \E text \in CellTexts : contents = [working EXCEPT !.cell = text]
             \/ \E text : contents = [working EXCEPT !.scene = text]
    BY DEF Typing, EditCellYaml, EditSceneUsda
<1>2. /\ Open /\ disk' = disk /\ working' = contents /\ now' = now
      /\ undo' = undo /\ redo' = redo /\ typed' = typed \cup {document}
    BY <1>1 DEF Type, Editable
<1>3. Sound(working) /\ IsProject(working) /\ DOMAIN working.files = Files
    BY <1>2, WorkingShape DEF Sound
<1>4. Sound(contents)'
    <2>1. ASSUME NEW b, NEW cell, NEW scene, b = BufferOf(cell, scene, working.files),
                 IsCell(cell, RecipeFiles(disk)), "cell" \notin typed' => cell = working.cell
          PROVE  Sound(b)'
        <3>1. b.cell = cell /\ b.scene = scene /\ b.files = working.files
            BY <2>1, BufferFields
        <3>2. b = [cell |-> b.cell, scene |-> b.scene, files |-> b.files]
            BY <2>1, <3>1 DEF BufferOf
        <3>3. RecipeFiles(b) = RecipeFiles(disk) /\ RecipeFiles(working) = RecipeFiles(disk)
            BY <1>3, <3>1 DEF RecipeFiles, Files
        <3>4. Stored(b) = Stored(working)
            BY <3>1, <3>3 DEF Stored
        <3>5. IsProject(b)
            BY <1>3, <2>1, <3>1, <3>2, <3>3, <3>4 DEF IsProject
        <3>6. ASSUME NEW f \in Files, b.files[f] # Absent PROVE Kept(f, b.files[f])'
            <4>1. Kept(f, b.files[f])
                BY <1>3, <3>1, <3>6 DEF Sound
            <4>2. Released' = Released /\ ("cell" \notin typed' => "cell" \notin typed)
                BY <1>2 DEF Released, Stored, Named
            <4> QED
                BY <1>2, <4>1, <4>2 DEF Kept, Retires
        <3>7. "cell" \notin typed' => ToSet(disk'.cell.recipes) \subseteq ToSet(b.cell.recipes)
            BY <1>2, <1>3, <2>1, <3>1 DEF Sound
        <3> QED
            BY <1>2, <1>3, <3>1, <3>5, <3>6, <3>7 DEF Sound, Files
    <2>2. /\ working = BufferOf(working.cell, working.scene, working.files)
          /\ IsCell(working.cell, RecipeFiles(disk))
          /\ \A text \in CellTexts : IsCell(text, RecipeFiles(disk))
        <3>1. RecipeFiles(working) = RecipeFiles(disk)
            BY <1>3 DEF RecipeFiles, Files
        <3> QED
            BY <1>2, <1>3, <3>1, DiskShape DEF IsProject, BufferOf
    <2>3. ASSUME NEW text \in CellTexts, document = "cell", contents = [working EXCEPT !.cell = text]
          PROVE  Sound(contents)'
        <3>1. contents = BufferOf(text, working.scene, working.files)
            BY <2>2, <2>3, BufferFields
        <3>2. "cell" \in typed'
            BY <1>2, <2>3
        <3> QED
            BY <2>1, <2>2, <3>1, <3>2
    <2>4. ASSUME NEW text, contents = [working EXCEPT !.scene = text]
          PROVE  Sound(contents)'
        <3>1. contents = BufferOf(working.cell, text, working.files)
            BY <2>2, <2>4, BufferFields
        <3> QED
            BY <2>1, <2>2, <3>1
    <2> QED
        BY <1>1, <2>3, <2>4
<1>5. "cell" \notin typed' => "cell" \notin typed
    BY <1>2
<1>6. Buffers' \subseteq Buffers \cup {contents}
    BY <1>2 DEF Buffers, Held
<1>7. Sound(disk)' /\ \A b \in Buffers' : b = None \/ Sound(b)'
    <2>1. \A b : Sound(b) => Sound(b)'
        BY <1>2, <1>5, SoundKept
    <2>2. Sound(disk)'
        BY <1>2, <1>5, SoundKept DEF IInv
    <2> QED
        BY <1>4, <1>6, <2>1, <2>2 DEF IInv
<1> QED
    BY <1>2, <1>7 DEF IInv, Files

-----------------------------------------------------------------------------
(* The save. *)

\* What a save writes: the cell and the scene of the buffers, and in every file what
\* the buffers stage there or else what was there.
LEMMA SavedDisk ==
    ASSUME IInv, SaveProject
    PROVE  /\ Open /\ working' = working /\ undo' = <<>> /\ redo' = <<>> /\ now' = now
           /\ disk' = BufferOf(working.cell, working.scene, [f \in Files |-> Source(working, f)])
           /\ disk'.cell = working.cell /\ disk'.scene = working.scene
           /\ Files' = Files /\ \A f \in Files : disk'.files[f] = Source(working, f)
           /\ Valid(working) /\ typed' = {}
<1>1. /\ Open /\ working' = working /\ undo' = <<>> /\ redo' = <<>> /\ now' = now
      /\ disk' = Written(working) /\ Valid(working) /\ typed' = {}
    BY DEF SaveProject, Load
<1> DEFINE files == [f \in Files |-> Source(working, f)]
<1>2. Written(working) = BufferOf(working.cell, working.scene, files)
    <2> HIDE DEF files
    <2>1. [working EXCEPT !.files = files] = BufferOf(working.cell, working.scene, files)
        BY <1>1, WorkingShape, BufferFields
    <2> QED
        BY <2>1 DEF Written, files
<1>3. disk'.cell = working.cell /\ disk'.scene = working.scene /\ disk'.files = files
    <2> HIDE DEF files
    <2> QED
        BY <1>1, <1>2, BufferFields
<1> QED
    BY <1>1, <1>2, <1>3 DEF Files

LEMMA SaveKeeps ==
    ASSUME IInv, SaveProject
    PROVE  IInv'
<1> DEFINE files == [f \in Files |-> Source(working, f)]
           saved1 == BufferOf(working.cell, working.scene, files)
<1>1. /\ disk' = saved1 /\ saved1.cell = working.cell /\ saved1.scene = working.scene
      /\ saved1.files = files /\ DOMAIN files = Files /\ files = [f \in Files |-> files[f]]
      /\ \A f \in Files : files[f] = Source(working, f)
    <2>1. disk' = saved1
        BY SavedDisk
    <2>2. DOMAIN files = Files /\ files = [f \in Files |-> files[f]]
          /\ \A f \in Files : files[f] = Source(working, f)
        OBVIOUS
    <2> HIDE DEF files
    <2> QED
        BY <2>1, <2>2, BufferFields
<1>2. saved1 = [cell |-> saved1.cell, scene |-> saved1.scene, files |-> saved1.files]
    BY <1>1 DEF BufferOf
<1> HIDE DEF files, saved1
<1>3. Open /\ Sound(working) /\ Sound(disk) /\ DOMAIN working.files = Files
      /\ IsProject(working) /\ IsProject(disk) /\ TreeFiles \cup CalibrationFiles \subseteq Files
    BY SavedDisk, WorkingShape, DiskShape DEF IInv, Sound
<1>4. /\ RecipeFiles(saved1) = RecipeFiles(disk) /\ RecipeFiles(working) = RecipeFiles(disk)
      /\ RecipeFiles(disk) \subseteq Files
    BY <1>1, <1>3 DEF RecipeFiles, Files
<1>5. \A f \in Files : files[f] = working.files[f] \/ files[f] = disk.files[f]
    BY <1>1 DEF Source
<1>6. IsProject(saved1)
    <2>1. \A f \in TreeFiles : saved1.files[f] = Absent
                              \/ saved1.files[f] = [nodes |-> saved1.files[f].nodes]
        BY <1>1, <1>3, <1>5 DEF IsProject
    <2>2. \A f \in CalibrationFiles : saved1.files[f] # Absent => saved1.files[f].until \in Nat
        BY <1>1, <1>3, <1>5 DEF IsProject
    <2>3. \A f \in Stored(saved1) : IsRecipe(saved1.files[f])
        <3> SUFFICES ASSUME NEW f \in Stored(saved1) PROVE IsRecipe(files[f])
            BY <1>1
        <3>1. f \in RecipeFiles(disk) /\ f \in Files /\ files[f] # Absent
            BY <1>1, <1>4 DEF Stored
        <3>2. CASE files[f] = working.files[f]
            BY <1>3, <1>4, <3>1, <3>2 DEF IsProject, Stored
        <3>3. CASE files[f] = disk.files[f]
            BY <1>3, <3>1, <3>3 DEF IsProject, Stored
        <3> QED
            BY <1>5, <3>1, <3>2, <3>3
    <2> QED
        BY <1>1, <1>2, <1>3, <1>4, <2>1, <2>2, <2>3 DEF IsProject
<1>8. \A f \in Files : working.files[f] \in {Absent, files[f]}
    BY <1>1 DEF Source
<1>9. disk' = saved1 /\ working' = working /\ Files' = Files
    BY <1>1, SavedDisk
<1>10. Sound(disk)'
    BY <1>1, <1>6, <1>9 DEF Sound, Kept, Retires, Files
<1>11. Sound(working)'
    <2>1. IsProject(working') /\ DOMAIN working'.files = Files'
        BY <1>3, <1>9
    <2>2. \A f \in Files' : working'.files[f] = Absent \/ Kept(f, working.files[f])'
        BY <1>1, <1>8, <1>9 DEF Kept
    <2>3. disk'.cell.recipes = working'.cell.recipes
        BY <1>1, <1>9
    <2> QED
        BY <1>9, <2>1, <2>2, <2>3 DEF Sound
<1>12. Buffers' \subseteq {disk', working'} /\ undo' \in Seq(ToSet(undo')) /\ redo' \in Seq(ToSet(redo'))
    BY SavedDisk, Emptied DEF Buffers, Held
<1>13. \A b \in Buffers' : b = None \/ Sound(b)'
    <2> SUFFICES ASSUME NEW b \in Buffers' PROVE Sound(b)'
        OBVIOUS
    <2>1. CASE b = disk'
        BY <1>10, <2>1 DEF Sound, Kept, Retires
    <2>2. CASE b = working'
        BY <1>11, <2>2 DEF Sound, Kept, Retires
    <2> QED
        BY <1>12, <2>1, <2>2
<1> QED
    BY <1>9, <1>10, <1>12, <1>13, SavedDisk DEF IInv

LEMMA InitInvariant == Init => IInv
<1> SUFFICES ASSUME Init PROVE IInv
    OBVIOUS
<1>1. disk \in Starters /\ IsProject(disk) /\ working = None /\ undo = <<>> /\ redo = <<>> /\ now = 0
    BY StartersAssumption DEF Init
<1>3. Sound(disk)
    BY <1>1 DEF Sound, Files, Kept
<1>4. Buffers = {disk, None}
    BY <1>1, Emptied DEF Buffers, Held
<1> QED
    BY <1>1, <1>3, <1>4, Emptied DEF IInv, Files

LEMMA InvariantStep == IInv /\ [Next]_vars => IInv'
<1> SUFFICES ASSUME IInv, [Next]_vars PROVE IInv'
    OBVIOUS
<1>1. CASE Editing
    BY <1>1, PlaceKeeps, RemoveKeeps, ConnectKeeps, ComponentEditsKeep, CalibrationKeeps,
       TreeKeeps, EditRecipeKeeps, CreateRecipeKeeps, TransitionKeeps DEF Editing
<1>2. CASE Typing \/ Undo \/ Redo
    BY <1>2, TypingKeeps, HistoryKeeps
<1>3. CASE OpenProject
    BY <1>3, OpenKeeps
<1>4. CASE SaveProject
    BY <1>4, SaveKeeps
<1>5. CASE Tick \/ UNCHANGED vars
    <2>1. UNCHANGED <<disk, working, undo, redo, typed>> /\ now' \in Nat
        BY <1>5 DEF Tick, vars, IInv
    <2>2. Buffers' = Buffers
        BY <2>1 DEF Buffers, Held
    <2>3. Sound(disk)' /\ \A b \in Buffers' : b = None \/ Sound(b)'
        BY <2>1, <2>2, SoundKept DEF IInv
    <2> QED
        BY <2>1, <2>3 DEF IInv, Files
<1> QED
    BY <1>1, <1>2, <1>3, <1>4, <1>5 DEF Next

\* Whatever any buffer stages over a calibration is what is there, and over a released version
\* that or its retirement, unless the cell was typed over; and it binds what the disk binds.
THEOREM Invariance == Spec => []IInv
BY InitInvariant, InvariantStep, PTL DEF Spec

\* The readiness reports and the scenarios of a session change nothing of its documents.
LEMMA StudioStep == [StudioNext]_studioVars => [Next]_vars
BY DEF StudioNext, studioVars, vars, Next, Editing, ExecuteScenario, RecordEvidence,
       ReplayEvidence, EvaluateReadiness

THEOREM StudioRefines == StudioSpec => Spec
<1>1. StudioInit => Init
    BY DEF StudioInit
<1> QED
    BY <1>1, StudioStep, PTL DEF StudioSpec, Spec

\* Only a save writes, and what it writes may stand for what was there.
LEMMA SaveIsImmutable ==
    ASSUME IInv, [Next]_vars
    PROVE  /\ \A f \in Files : Kept(f, disk'.files[f])
           /\ "cell" \notin typed => Released \subseteq ToSet(disk'.cell.recipes)
<1>1. CASE SaveProject
    <2>1. /\ Sound(working) /\ disk'.cell = working.cell
          /\ \A f \in Files : disk'.files[f] = Source(working, f)
        BY <1>1, SavedDisk, WorkingShape
    <2>2. \A f \in Files : Kept(f, disk.files[f])
        BY DEF Kept
    <2> QED
        BY <2>1, <2>2 DEF Sound, Source, Released
<1>2. CASE disk' = disk
    BY <1>2 DEF Kept, Released
<1>3. SaveProject \/ disk' = disk
    BY ZenonT(60) DEF Next, Editing, Edit, PlaceComponent, RemoveComponent, ConnectPorts, SetTransform,
           SetConfiguration, SetVariants, BindCalibration, SetTaskTree, EditRecipe,
           CreateRecipeVersion, TransitionRecipe, Typing, Type, EditCellYaml, EditSceneUsda,
           Undo, Redo, OpenProject, Tick, vars
<1> QED
    BY <1>1, <1>2, <1>3

\* No sequence of edits, undos and saves changes a calibration on the disk, or a released
\* version other than to retire it, or lets the cell lose one that was not typed over.
THEOREM RecordsAreImmutable == Spec => ImmutableStays
<1>1. IInv /\ [Next]_vars =>
          [disk' # disk =>
              /\ \A f \in Files : Kept(f, disk'.files[f])
              /\ "cell" \notin typed => Released \subseteq ToSet(disk'.cell.recipes)]_vars
    BY SaveIsImmutable
<1> QED
    BY <1>1, Invariance, PTL DEF Spec, ImmutableStays

-----------------------------------------------------------------------------
(* What was saved opens again. *)

\* Nothing of the disk that opening loads has expired.
Fresh == \A f \in disk.cell.calibrations : disk.files[f] # Absent => ~Expired(disk.files[f])

\* Opening loads the calibrations a project declares, and finds the trees and recipes on
\* the disk.
LEMMA LoadedFields ==
    ASSUME IInv
    PROVE  /\ Loaded.cell = disk.cell /\ Loaded.scene = disk.scene
           /\ \A f \in Files : /\ Loaded.files[f] = IF f \in disk.cell.calibrations
                                                     THEN disk.files[f] ELSE Absent
                               /\ Source(Loaded, f) = disk.files[f]
<1> DEFINE files == [f \in Files |-> IF f \in disk.cell.calibrations THEN disk.files[f] ELSE Absent]
<1>1. disk = BufferOf(disk.cell, disk.scene, disk.files)
    BY DiskShape DEF IsProject, IsCell, BufferOf
<1>2. Loaded = BufferOf(disk.cell, disk.scene, files)
    <2> HIDE DEF files
    <2>1. [disk EXCEPT !.files = files] = BufferOf(disk.cell, disk.scene, files)
        BY <1>1, BufferFields
    <2> QED
        BY <2>1 DEF Loaded, files
<1>3. /\ Loaded.cell = disk.cell /\ Loaded.scene = disk.scene /\ Loaded.files = files
    <2> HIDE DEF files
    <2> QED
        BY <1>2, BufferFields
<1> QED
    BY <1>3 DEF Source

\* The trees and the recipes of a project that has been saved are those that were checked.
LEMMA SaveOpens ==
    ASSUME IInv, SaveProject
    PROVE  Valid(Loaded)'
<1>1. IInv' /\ Valid(working) /\ Sound(working) /\ IsProject(working) /\ now' = now /\ Files' = Files
    BY SaveKeeps, SavedDisk, WorkingShape DEF Sound
<1>2. /\ disk'.cell = working.cell /\ disk'.scene = working.scene
      /\ \A f \in Files : disk'.files[f] = Source(working, f)
    BY SavedDisk
<1>3. /\ Loaded'.cell = working.cell /\ Loaded'.scene = working.scene
      /\ \A f \in Files :
            /\ Loaded'.files[f] = IF f \in working.cell.calibrations
                                  THEN Source(working, f) ELSE Absent
            /\ Source(Loaded, f)' = Source(working, f)
    <2>1. (/\ Loaded.cell = disk.cell /\ Loaded.scene = disk.scene
           /\ \A f \in Files : /\ Loaded.files[f] = IF f \in disk.cell.calibrations
                                                     THEN disk.files[f] ELSE Absent
                               /\ Source(Loaded, f) = disk.files[f])'
        BY <1>1, LoadedFields, PTL
    <2> QED
        BY <1>1, <1>2, <2>1
<1>4. TreeFiles \cup CalibrationFiles \subseteq Files /\ RecipeFiles(working) \subseteq Files
    BY <1>1, DiskShape DEF Sound, RecipeFiles
<1>5. Paired(Loaded.cell, Loaded.scene)'
    BY <1>1, <1>3 DEF Valid, Paired
<1>6. CalibrationsValid(Loaded)'
    <2>1. CalibrationsValid(working) /\ working.cell.calibrations \subseteq CalibrationFiles
        BY <1>1 DEF Valid, IsProject, IsCell
    <2>2. ASSUME NEW f \in working.cell.calibrations
          PROVE  /\ Loaded'.files[f] = working.files[f]
                 /\ working.files[f] # Absent
                 /\ working.files[f].owner \in DOMAIN working.cell.components
                 /\ f \in working.cell.components[working.files[f].owner].calibrations
                 /\ ~Expired(working.files[f])
        BY <1>3, <1>4, <2>1 DEF CalibrationsValid, Source
    <2>3. \A f \in working.cell.calibrations : ~Expired(Loaded.files[f])'
        BY <1>1, <2>2 DEF Expired
    <2>4. \A f \in CalibrationFiles \ working.cell.calibrations : Loaded'.files[f] = Absent
        BY <1>3, <1>4
    <2>5. \A i \in DOMAIN working.cell.components :
              working.cell.components[i].calibrations \subseteq working.cell.calibrations
        BY <2>1 DEF CalibrationsValid
    <2> QED
        BY <1>3, <2>2, <2>3, <2>4, <2>5 DEF CalibrationsValid
<1>7. TasksValid(Loaded)'
    BY <1>1, <1>3, <1>4 DEF Valid, TasksValid, TreeFiles
<1>8. RecipesValid(Loaded)'
    <2>1. \A n \in DOMAIN working.cell.recipes : working.cell.recipes[n] \in Files
        BY <1>1, <1>4 DEF IsProject, IsCell
    <2>2. RecipesValid(working)
        BY <1>1 DEF Valid
    <2> QED
        BY <1>3, <2>1, <2>2 DEF RecipesValid
<1> QED
    BY <1>5, <1>6, <1>7, <1>8 DEF Valid

\* While nothing is saved, a project that opens goes on opening until something expires.
LEMMA StaysOpen ==
    ASSUME IInv, DiskOpens, disk' = disk, now' \in {now, now + 1}
    PROVE  DiskOpens'
<1> SUFFICES ASSUME Fresh' PROVE Valid(Loaded)'
    BY DEF DiskOpens, Fresh
<1>1. Loaded' = Loaded
    BY DEF Loaded, Files
<1>2. IsProject(disk) /\ CalibrationFiles \subseteq Files /\ now \in Nat
    BY DiskShape DEF IInv
<1>3. Fresh /\ \A f \in disk.cell.calibrations : disk.files[f] # Absent => ~Expired(disk.files[f])'
    <2> SUFFICES ASSUME NEW f \in disk.cell.calibrations, disk.files[f] # Absent
                 PROVE  ~Expired(disk.files[f]) /\ ~Expired(disk.files[f])'
        BY DEF Fresh
    <2>1. disk.files[f].until \in Nat
        BY <1>2 DEF IsProject, IsCell
    <2>2. ~(disk.files[f].until <= now')
        BY DEF Fresh, Expired
    <2> QED
        BY <1>2, <2>1, <2>2 DEF Expired
<1>4. Valid(Loaded)
    BY <1>3 DEF DiskOpens, Fresh
<1>5. Paired(Loaded.cell, Loaded.scene)' /\ TasksValid(Loaded)' /\ RecipesValid(Loaded)'
    <2>1. \A f : Source(Loaded, f)' = Source(Loaded, f)
        BY <1>1 DEF Source
    <2> QED
        BY <1>1, <1>4, <2>1 DEF Valid, Paired, TasksValid, RecipesValid
<1>6. CalibrationsValid(Loaded)'
    <2>1. CalibrationsValid(Loaded)
        BY <1>4 DEF Valid
    <2>2. \A f \in Loaded.cell.calibrations : Loaded.files[f] # Absent => ~Expired(Loaded.files[f])'
        BY <1>1, <1>2, <1>3, LoadedFields DEF IsProject, IsCell, Expired
    <2> QED
        BY <1>1, <2>1, <2>2 DEF CalibrationsValid
<1> QED
    BY <1>5, <1>6 DEF Valid

\* Every save leaves a project that opens, and a project that opens, whether it was saved
\* or found so, is never made one that does not: only time does that.
THEOREM SavedProjectsOpen ==
    Spec => /\ [][SaveProject => Valid(Loaded)']_vars
            /\ [](DiskOpens => []DiskOpens)
<1>1. IInv /\ [Next]_vars => [SaveProject => Valid(Loaded)']_vars
    BY SaveOpens
<1>2. IInv /\ [Next]_vars /\ DiskOpens => DiskOpens'
    <2> SUFFICES ASSUME IInv, [Next]_vars, DiskOpens PROVE DiskOpens'
        OBVIOUS
    <2>1. CASE SaveProject
        BY <2>1, SaveOpens DEF DiskOpens
    <2>2. CASE disk' = disk /\ now' \in {now, now + 1}
        BY <2>2, StaysOpen
    <2>3. SaveProject \/ disk' = disk
        BY ZenonT(60) DEF Next, Editing, Edit, PlaceComponent, RemoveComponent, ConnectPorts, SetTransform,
               SetConfiguration, SetVariants, BindCalibration, SetTaskTree, EditRecipe,
               CreateRecipeVersion, TransitionRecipe, Typing, Type, EditCellYaml, EditSceneUsda,
               Undo, Redo, OpenProject, Tick, vars
    <2>4. now' = now \/ now' = now + 1
        <3>1. Editing => now' = now
            BY ZenonT(60) DEF Editing, Edit, PlaceComponent, RemoveComponent, ConnectPorts, SetTransform,
                   SetConfiguration, SetVariants, BindCalibration, SetTaskTree, EditRecipe,
                   CreateRecipeVersion, TransitionRecipe
        <3>2. (Typing \/ Undo \/ Redo \/ OpenProject \/ SaveProject \/ UNCHANGED vars) => now' = now
            BY DEF Typing, Type, EditCellYaml, EditSceneUsda, Undo, Redo, OpenProject, SaveProject, vars
        <3> QED
            BY <3>1, <3>2 DEF Next, Tick
    <2> QED
        BY <2>1, <2>2, <2>3, <2>4
<1> QED
    BY <1>1, <1>2, Invariance, PTL DEF Spec

-----------------------------------------------------------------------------
(* A report of readiness. *)

Advisories == {"runtime-contract-only", "evidence-missing", "calibration-review", "safety-review"}

\* A report that lets the project pass has no other findings.
LEMMA PassedFindings ==
    ASSUME NEW F, Overall(F) \in {"pass", "advisory"}
    PROVE  F \subseteq Advisories
<1> DEFINE statuses == {StatusOf(f) : f \in F}
<1>1. "blocked" \notin statuses /\ "unavailable" \notin statuses
    BY DEF Overall
<1>2. ASSUME NEW f \in F PROVE f \in Advisories
    <2>1. StatusOf(f) \in statuses
        OBVIOUS
    <2>2. StatusOf(f) # "blocked" /\ StatusOf(f) # "unavailable"
        BY <1>1, <2>1
    <2> QED
        BY <2>2 DEF StatusOf, Advisories
<1> QED
    BY <1>2

\* What is staged in a copy of the directory, and what opening would load of it.
LEMMA StagedFields ==
    ASSUME IInv, Open
    PROVE  /\ Staged.cell = working.cell /\ Staged.scene = working.scene
           /\ StagedLoaded.cell = working.cell /\ StagedLoaded.scene = working.scene
           /\ \A f \in Files :
                 /\ Staged.files[f] = Source(working, f)
                 /\ StagedLoaded.files[f] =
                        IF f \in CalibrationFiles \ working.cell.calibrations
                        THEN Absent ELSE Source(working, f)
                 /\ f \notin CalibrationFiles => Source(StagedLoaded, f) = Source(working, f)
<1> DEFINE files == [f \in Files |-> Source(working, f)]
           loaded == [f \in Files |-> IF f \in CalibrationFiles \ working.cell.calibrations
                                      THEN Absent ELSE files[f]]
<1>1. working = BufferOf(working.cell, working.scene, working.files)
    BY WorkingShape, BufferFields
<1>2. Staged = BufferOf(working.cell, working.scene, files)
    <2>1. Staged = [working EXCEPT !.files = files]
        BY DEF Staged, Written
    <2> HIDE DEF files
    <2> QED
        BY <1>1, <2>1, BufferFields
<1>3. StagedLoaded = BufferOf(working.cell, working.scene, loaded)
    <2>1. Staged.cell = working.cell /\ Staged.files = files
        BY <1>2, BufferFields
    <2>2. StagedLoaded = [Staged EXCEPT !.files = loaded]
        BY <2>1 DEF StagedLoaded
    <2> HIDE DEF files, loaded
    <2> QED
        BY <1>2, <2>2, BufferFields
<1>4. /\ Staged.cell = working.cell /\ Staged.scene = working.scene /\ Staged.files = files
      /\ StagedLoaded.cell = working.cell /\ StagedLoaded.scene = working.scene
      /\ StagedLoaded.files = loaded
    BY <1>2, <1>3, BufferFields
<1>5. ASSUME NEW f \in Files, f \notin CalibrationFiles
      PROVE  Source(StagedLoaded, f) = Source(working, f)
    <2>1. StagedLoaded.files[f] = Source(working, f)
        BY <1>4, <1>5
    <2> QED
        BY <2>1 DEF Source
<1> QED
    BY <1>4, <1>5

\* The trees that were not left to the runtime are valid.
LEMMA TasksReported ==
    ASSUME IInv, Open, TasksFound \subseteq Advisories
    PROVE  TasksValid(StagedLoaded) \/ OnlyRuntimeKnows
<1> DEFINE found == UNION {TreeFindings(Staged.files[Tasks[n].tree]) : n \in DOMAIN Tasks}
<1>1. \A source : TreeFindings(source) \subseteq {"tree-missing", "node-unknown", "tree-invalid"}
    BY DEF TreeFindings, Finding
<1>2. \A n \in DOMAIN Tasks : TreeFindings(Staged.files[Tasks[n].tree]) \subseteq found
    OBVIOUS
<1>3. CASE found = {"node-unknown"}
    <2>1. PICK n \in DOMAIN Tasks : "node-unknown" \in TreeFindings(Staged.files[Tasks[n].tree])
        BY <1>3
    <2> DEFINE nodes == Staged.files[Tasks[n].tree].nodes
    <2>2. {m \in nodes : NodePorts(m.type) # None} # nodes
        BY <2>1 DEF TreeFindings, Finding
    <2>3. \E m \in nodes : NodePorts(m.type) = None
        BY <2>2
    <2> QED
        BY <2>3 DEF OnlyRuntimeKnows
<1>4. CASE found # {"node-unknown"}
    <2>1. found \subseteq Advisories
        BY <1>4 DEF TasksFound
    <2>2. found = {}
        BY <1>1, <2>1 DEF Advisories
    <2>3. ASSUME NEW n \in DOMAIN Tasks
          PROVE  Source(StagedLoaded, Tasks[n].tree) # Absent
                 /\ TreeValid(Source(StagedLoaded, Tasks[n].tree).nodes)
        <3> DEFINE source == Staged.files[Tasks[n].tree]
        <3>1. TreeFindings(source) = {}
            BY <1>2, <2>2
        <3>2. source # Absent
            BY <3>1 DEF TreeFindings
        <3>3. {m \in source.nodes : NodePorts(m.type) # None} = source.nodes
            BY <3>1, <3>2 DEF TreeFindings, Finding
        <3>4. /\ \A m \in source.nodes : NodeValid(source.nodes, m)
              /\ ~\E m \in source.nodes : m.type = "ExecuteProcess" /\ m.retried
            BY <3>1, <3>2, <3>3 DEF TreeFindings, Finding
        <3>5. Source(StagedLoaded, Tasks[n].tree) = source
            BY StagedFields, DiskShape, FilesAssumption DEF TreeFiles
        <3> QED
            BY <3>2, <3>4, <3>5 DEF TreeValid
    <2> QED
        BY <2>3 DEF TasksValid
<1> QED
    BY <1>3, <1>4

\* What a report that lets the project pass says of it.
LEMMA ReportedReady ==
    ASSUME IInv, Open, around \in Surroundings, SourceFindings \subseteq Advisories
    PROVE  /\ Valid(StagedLoaded) \/ OnlyRuntimeKnows
           /\ \A n \in DOMAIN Tasks : TaskFindings(Staged.cell.components, Tasks, n, "simulation") = {}
           /\ \E n \in DOMAIN around.scenarios : around.scenarios[n].readable
           /\ \A r \in records : r.cell = Staged.cell
<1>1. /\ InspectFindings \subseteq Advisories /\ ComponentFindingsShown \subseteq Advisories
      /\ TasksFound \subseteq Advisories /\ RecipeFindings \subseteq Advisories
      /\ ScenarioFindings \subseteq Advisories /\ EvidenceFindings \subseteq Advisories
    BY DEF SourceFindings
<1>2. \A code, found : Finding(code, found) \subseteq Advisories /\ code \notin Advisories => ~found
    BY DEF Finding
<1>3. Paired(StagedLoaded.cell, StagedLoaded.scene)
    <2>1. Finding("scene-mismatch", ~Paired(Staged.cell, Staged.scene)) \subseteq Advisories
        BY <1>1 DEF InspectFindings
    <2>2. Paired(Staged.cell, Staged.scene)
        BY <2>1 DEF Finding, Advisories
    <2> QED
        BY <2>2, StagedFields
<1>4. CalibrationsValid(StagedLoaded)
    <2> DEFINE declared == [Staged EXCEPT !.files = [f \in Files |->
                               IF f \in Staged.cell.calibrations THEN Staged.files[f] ELSE Absent]]
    <2>1. Finding("calibration-invalid", ~CalibrationsValid(declared)) \subseteq Advisories
        BY <1>1 DEF InspectFindings
    <2>2. CalibrationsValid(declared)
        BY <2>1 DEF Finding, Advisories
    <2>3. /\ declared.cell = working.cell
          /\ \A f \in Files : declared.files[f] = IF f \in working.cell.calibrations
                                                 THEN Source(working, f) ELSE Absent
        <3> DEFINE files == [f \in Files |-> IF f \in Staged.cell.calibrations
                                             THEN Staged.files[f] ELSE Absent]
        <3>1. Staged = BufferOf(Staged.cell, Staged.scene, Staged.files)
            <4> DEFINE copy == [f \in Files |-> Source(working, f)]
            <4>1. Staged = [working EXCEPT !.files = copy]
                BY DEF Staged, Written
            <4> HIDE DEF copy
            <4> QED
                BY <4>1, WorkingShape, BufferFields
        <3>2. declared = BufferOf(Staged.cell, Staged.scene, files)
            <4> HIDE DEF files
            <4>1. [BufferOf(Staged.cell, Staged.scene, Staged.files) EXCEPT !.files = files] =
                      BufferOf(Staged.cell, Staged.scene, files)
                BY BufferFields
            <4> QED
                BY <3>1, <4>1 DEF files
        <3>3. declared.cell = Staged.cell /\ declared.files = files
            BY <3>2, BufferFields
        <3> QED
            BY <3>3, StagedFields
    <2> HIDE DEF declared
    <2>4. /\ CalibrationFiles \subseteq Files /\ working.cell.calibrations \subseteq CalibrationFiles
          /\ StagedLoaded.cell = working.cell
          /\ \A f \in CalibrationFiles : StagedLoaded.files[f] = declared.files[f]
        BY <2>3, StagedFields, DiskShape, WorkingShape
    <2> QED
        BY <2>2, <2>3, <2>4 DEF CalibrationsValid
<1>5. RecipesValid(StagedLoaded)
    <2> DEFINE recipes == ToSet(Staged.cell.recipes)
               bad == \E file \in recipes : \/ Staged.files[file] = Absent
                                            \/ ~RecipeValid(Staged.cell, Staged.files[file])
    <2>1. Finding("recipe-invalid", bad) \subseteq Advisories
        BY <1>1 DEF RecipeFindings
    <2>2. ~bad
        BY <2>1 DEF Finding, Advisories
    <2>3. ASSUME NEW n \in DOMAIN working.cell.recipes
          PROVE  Source(StagedLoaded, working.cell.recipes[n]) # Absent
                 /\ RecipeValid(working.cell, Source(StagedLoaded, working.cell.recipes[n]))
        <3> DEFINE file == working.cell.recipes[n]
        <3>1. file \in RecipeFiles(disk) /\ file \in recipes
            BY StagedFields, WorkingShape DEF ToSet
        <3>2. file \in Files \ CalibrationFiles
            BY <3>1 DEF RecipeFiles, Files
        <3> QED
            BY <2>2, <3>1, <3>2, StagedFields
    <2> QED
        BY <2>3, StagedFields DEF RecipesValid
<1>6. Valid(StagedLoaded) \/ OnlyRuntimeKnows
    BY <1>1, <1>3, <1>4, <1>5, TasksReported DEF Valid
<1>7. ASSUME NEW n \in DOMAIN Tasks
      PROVE  TaskFindings(Staged.cell.components, Tasks, n, "simulation") = {}
    <2> DEFINE findings == TaskFindings(Staged.cell.components, Tasks, n, "simulation")
    <2>1. findings \subseteq ComponentFindingsShown
        <3> DEFINE all == UNION {TaskFindings(Staged.cell.components, Tasks, m, "simulation") :
                                    m \in DOMAIN Tasks}
        <3>1. findings \subseteq all
            OBVIOUS
        <3>2. all \subseteq ComponentFindingsShown
            BY DEF ComponentFindingsShown
        <3> HIDE DEF all, findings
        <3> QED
            BY <3>1, <3>2
    <2> DEFINE codes == {"capability-missing", "capability-mode-unsupported",
                         "capability-version-conflict", "capability-provider-ambiguous"}
    <2>2. findings \subseteq codes \cup {"duplicate-task-id"}
        <3>1. \A c : CapabilityFindings(Staged.cell.components, c, "simulation") \subseteq codes
            BY DEF CapabilityFindings
        <3> HIDE DEF codes
        <3> QED
            BY <3>1 DEF TaskFindings
    <2>3. findings = {}
        <3> HIDE DEF findings
        <3> QED
            BY <1>1, <2>1, <2>2 DEF Advisories
    <2> QED
        BY <2>3
<1>8. \E n \in DOMAIN around.scenarios : around.scenarios[n].readable
    <2>1. /\ Finding("scenario-unreadable",
                     \E n \in DOMAIN around.scenarios : ~around.scenarios[n].readable) = {}
          /\ Finding("scenario-missing", around.scenarios = <<>>) = {}
        BY <1>1 DEF ScenarioFindings, Finding, Advisories
    <2>2. /\ \A n \in DOMAIN around.scenarios : around.scenarios[n].readable
          /\ around.scenarios # <<>>
        BY <2>1 DEF Finding
    <2>3. around.scenarios \in Seq(ToSet(around.scenarios))
        BY SurroundingsAssumption
    <2>4. 1 \in DOMAIN around.scenarios
        BY <2>2, <2>3
    <2> QED
        BY <2>2, <2>4
<1>9. \A r \in records : r.cell = Staged.cell
    <2>1. Finding("evidence-stale", \E r \in records : r.cell # Staged.cell) \subseteq Advisories
        BY <1>1 DEF EvidenceFindings
    <2> QED
        BY <2>1 DEF Finding, Advisories
<1> QED
    BY <1>6, <1>7, <1>8, <1>9

\* A report that lets the project pass was true of the buffers it was made of: written to
\* the disk, they would open, with a scenario and no evidence of another cell.
THEOREM ReadyMeansValid == StudioSpec => ReadyOpens
<1>1. IInv /\ around \in Surroundings /\ [StudioNext]_studioVars =>
          [Ready' /\ report' # report =>
              /\ Valid(StagedLoaded) \/ OnlyRuntimeKnows
              /\ \A n \in DOMAIN Tasks : TaskFindings(Staged.cell.components, Tasks, n, "simulation") = {}
              /\ \E n \in DOMAIN around.scenarios : around.scenarios[n].readable
              /\ \A r \in records : r.cell = Staged.cell]_studioVars
    <2> SUFFICES ASSUME IInv, around \in Surroundings, StudioNext, Ready', report' # report
                 PROVE  Open /\ SourceFindings \subseteq Advisories
        BY ReportedReady
    <2>1. EvaluateReadiness
        BY NoReportAssumption DEF StudioNext, Ready, Cleared, Reported, readinessVars, ExecuteScenario,
           RecordEvidence, ReplayEvidence
    <2>2. Open
        BY <2>1 DEF EvaluateReadiness
    <2>3. PICK requested \in Fidelities, backend \in Backends :
              \/ report' = Overall(SourceFindings \cup DeploymentFindings(requested)
                                                \cup FidelityFindings(requested, backend))
              \/ report' = "unavailable"
        BY <2>1 DEF EvaluateReadiness
    <2>4. Overall(SourceFindings \cup DeploymentFindings(requested)
                      \cup FidelityFindings(requested, backend)) \in {"pass", "advisory"}
        BY <2>3 DEF Ready
    <2> QED
        BY <2>2, <2>4, PassedFindings
<1>2. StudioSpec => []IInv
    BY StudioRefines, Invariance
<1>3. StudioInit => around \in Surroundings
    BY DEF StudioInit
<1>4. around \in Surroundings /\ [StudioNext]_studioVars => (around \in Surroundings)'
    BY DEF StudioNext, studioVars, readinessVars, Cleared, Reported, ExecuteScenario, RecordEvidence,
           ReplayEvidence, EvaluateReadiness
<1> QED
    BY <1>1, <1>2, <1>3, <1>4, PTL DEF StudioSpec, ReadyOpens

-----------------------------------------------------------------------------
(* Sequences of links. *)

\* A property of 0 that passes from each number to the next holds of them all.
LEMMA UpTo ==
    ASSUME NEW n \in Nat, NEW T, 0 \in T, \A k \in 1..n : k - 1 \in T => k \in T
    PROVE  \A k \in 0..n : k \in T
<1> DEFINE Missed == {k \in Nat : k <= n /\ k \notin T}
<1>1. SUFFICES ASSUME Missed # {} PROVE FALSE
    OBVIOUS
<1>2. PICK x \in Missed : \A y \in Missed : x <= y
    BY <1>1, Least
<1>3. x \in 1..n /\ x - 1 \in Nat /\ x - 1 <= n /\ ~ (x <= x - 1)
    BY <1>2
<1>4. x - 1 \in T
    BY <1>2, <1>3
<1> QED
    BY <1>2, <1>3, <1>4

\* The fold over the links without the fold: what is kept of the first k of them, for each k.
KeptWith(i, kept, link) == IF Touches(link, i) THEN kept ELSE Append(kept, link)
Keeping(i, links, kept, D) ==
    kept = [s \in SUBSET D |->
              IF s = {} THEN <<>> ELSE KeptWith(i, kept[s \ {Max(s)}], links[Max(s)])]

LEMMA OthersIs ==
    ASSUME NEW i
    PROVE  Others(i) = (CHOOSE kept : Keeping(i, working.cell.links, kept, DOMAIN working.cell.links))
                           [DOMAIN working.cell.links]
BY DEF Others, FoldLeft, MapThenFoldSet, Keeping, KeptWith

LEMMA MaxIs ==
    ASSUME NEW x \in Nat, NEW s \in SUBSET (1..x), x \in s
    PROVE  Max(s) = x
<1>1. \A y \in s : x >= y
    OBVIOUS
<1>2. \A z \in s : (\A y \in s : z >= y) => z = x
    OBVIOUS
<1> QED
    BY <1>1, <1>2 DEF Max

LEMMA KeepingExists ==
    ASSUME NEW i, NEW links, NEW n \in Nat
    PROVE  \E kept : Keeping(i, links, kept, 1..n)
<1> DEFINE T == {k \in Nat : \E kept : Keeping(i, links, kept, 1..k)}
<1>1. 0 \in T
    <2> DEFINE kept == [s \in SUBSET (1..0) |-> <<>>]
    <2>1. \A s \in SUBSET (1..0) : s = {}
        OBVIOUS
    <2>2. Keeping(i, links, kept, 1..0)
        BY <2>1 DEF Keeping
    <2> QED
        BY <2>2
<1>2. ASSUME NEW x \in 1..n, x - 1 \in T PROVE x \in T
    <2>1. PICK before : Keeping(i, links, before, 1..(x - 1))
        BY <1>2
    <2> DEFINE kept == [s \in SUBSET (1..x) |->
                          IF x \in s THEN KeptWith(i, before[s \ {x}], links[x]) ELSE before[s]]
    <2>2. ASSUME NEW s \in SUBSET (1..x)
          PROVE  kept[s] = IF s = {} THEN <<>>
                           ELSE KeptWith(i, kept[s \ {Max(s)}], links[Max(s)])
        <3>1. CASE x \in s
            <4>1. Max(s) = x /\ s # {}
                BY <3>1, MaxIs
            <4>2. s \ {x} \in SUBSET (1..x) /\ x \notin s \ {x}
                OBVIOUS
            <4>3. kept[s \ {x}] = before[s \ {x}]
                BY <4>2
            <4> QED
                BY <3>1, <4>1, <4>3
        <3>2. CASE x \notin s
            <4>1. s \in SUBSET (1..(x - 1))
                BY <3>2
            <4>2. s \ {Max(s)} \in SUBSET (1..x) /\ x \notin s \ {Max(s)}
                BY <3>2
            <4>3. kept[s \ {Max(s)}] = before[s \ {Max(s)}] /\ kept[s] = before[s]
                BY <3>2, <4>2
            <4> HIDE DEF kept
            <4>4. before[s] = IF s = {} THEN <<>>
                              ELSE KeptWith(i, before[s \ {Max(s)}], links[Max(s)])
                BY <2>1, <4>1 DEF Keeping
            <4> QED
                BY <4>3, <4>4
        <3> QED
            BY <3>1, <3>2
    <2>3. kept = [s \in SUBSET (1..x) |-> kept[s]]
        OBVIOUS
    <2> HIDE DEF kept
    <2>4. Keeping(i, links, kept, 1..x)
        BY <2>2, <2>3 DEF Keeping
    <2> QED
        BY <2>4
<1>3. n \in 0..n
    OBVIOUS
<1> HIDE DEF T
<1>4. n \in T
    BY <1>1, <1>2, <1>3, UpTo
<1> QED
    BY <1>4 DEF T

LEMMA OthersSteps ==
    ASSUME NEW i, working.cell.links \in Seq(ToSet(working.cell.links))
    PROVE  \E kept :
              /\ kept[0] = <<>> /\ kept[Len(working.cell.links)] = Others(i)
              /\ \A k \in 1..Len(working.cell.links) :
                    kept[k] = KeptWith(i, kept[k - 1], working.cell.links[k])
<1> DEFINE links == working.cell.links
           n == Len(links)
<1>1. n \in Nat /\ DOMAIN links = 1..n
    OBVIOUS
<1> DEFINE fold == CHOOSE kept : Keeping(i, links, kept, 1..n)
<1>2. Keeping(i, links, fold, 1..n)
    BY <1>1, KeepingExists
<1>3. Others(i) = fold[1..n]
    BY <1>1, OthersIs
<1> HIDE DEF fold, n, links
<1> DEFINE kept == [k \in 0..n |-> fold[1..k]]
<1>4. kept[0] = <<>> /\ kept[n] = Others(i)
    <2>1. 0 \in 0..n /\ n \in 0..n
        BY <1>1
    <2>3. 1..0 = {} /\ {} \in SUBSET (1..n)
        OBVIOUS
    <2>2. fold[{}] = <<>>
        BY <1>2, <2>3 DEF Keeping
    <2> QED
        BY <1>3, <2>1, <2>2, <2>3
<1>5. ASSUME NEW k \in 1..n PROVE kept[k] = KeptWith(i, kept[k - 1], links[k])
    <2>0. k \in Nat /\ k >= 1 /\ k <= n
        BY <1>1
    <2>1. 1..k \in SUBSET (1..n) /\ k \in 1..k /\ 1..k \in SUBSET (1..k)
        BY <1>1, <2>0
    <2>2. Max(1..k) = k /\ 1..k # {}
        BY <2>0, <2>1, MaxIs
    <2>3. (1..k) \ {k} = 1..(k - 1) /\ k - 1 \in 0..n /\ k \in 0..n
        BY <1>1
    <2>4. fold[1..k] = KeptWith(i, fold[(1..k) \ {k}], links[k])
        BY <1>2, <2>1, <2>2 DEF Keeping
    <2> QED
        BY <2>3, <2>4
<1> QED
    BY <1>4, <1>5 DEF n, links

Distinct(links) == \A m, n \in DOMAIN links : links[m].id = links[n].id => m = n

\* What a cascade keeps are the links that do not touch the instance, each once.
LEMMA OthersOK ==
    ASSUME NEW i, working.cell.links \in Seq(ToSet(working.cell.links)), Distinct(working.cell.links)
    PROVE  /\ Others(i) \in Seq(ToSet(Others(i))) /\ Distinct(Others(i))
           /\ ToSet(Others(i)) = {l \in ToSet(working.cell.links) : ~Touches(l, i)}
<1> DEFINE links == working.cell.links
           n == Len(links)
<1>1. n \in Nat /\ DOMAIN links = 1..n
    OBVIOUS
<1>2. PICK kept : /\ kept[0] = <<>> /\ kept[n] = Others(i)
                  /\ \A k \in 1..n : kept[k] = KeptWith(i, kept[k - 1], links[k])
    BY OthersSteps
<1>3. \A k \in 1..n : links[k] \in ToSet(links)
    BY <1>1 DEF ToSet
<1>4. \A j, k \in 1..n : links[j].id = links[k].id => j = k
    BY <1>1 DEF Distinct
<1>5. ToSet(links) = {links[k] : k \in 1..n}
    BY <1>1 DEF ToSet
<1> DEFINE S == ToSet(links)
           Filtered(k, t) ==
               /\ t \in Seq(S)
               /\ \A m \in 1..Len(t) : \E j \in 1..k : t[m] = links[j] /\ ~Touches(links[j], i)
               /\ \A j \in 1..k : ~Touches(links[j], i) => \E m \in 1..Len(t) : t[m] = links[j]
               /\ \A l, m \in 1..Len(t) : t[l].id = t[m].id => l = m
           T == {k \in Nat : Filtered(k, kept[k])}
<1> HIDE DEF S, n, links
<1>6. 0 \in T
    <2>1. <<>> \in Seq(S) /\ Len(<<>>) = 0
        OBVIOUS
    <2>2. Filtered(0, <<>>)
        BY <2>1
    <2> HIDE DEF Filtered
    <2> QED
        BY <1>2, <2>2
<1>7. ASSUME NEW k \in 1..n, k - 1 \in T PROVE k \in T
    <2> DEFINE t == kept[k - 1]
               link == links[k]
    <2>1. Filtered(k - 1, t) /\ kept[k] = KeptWith(i, t, link) /\ k \in Nat /\ k - 1 \in Nat
        BY <1>1, <1>2, <1>7
    <2>2. link \in S
        BY <1>3 DEF S
    <2>3. CASE Touches(link, i)
        <3>1. kept[k] = t
            BY <2>1, <2>3 DEF KeptWith
        <3> HIDE DEF t
        <3>2. \A j \in 1..k : ~Touches(links[j], i) => j \in 1..(k - 1)
            BY <2>1, <2>3
        <3>3. \A j \in 1..(k - 1) : j \in 1..k
            BY <2>1
        <3>4. Filtered(k, t)
            BY <2>1, <3>2, <3>3
        <3> QED
            BY <2>1, <3>1, <3>4
    <2>4. CASE ~Touches(link, i)
        <3> DEFINE u == Append(t, link)
        <3>1. kept[k] = u
            BY <2>1, <2>4 DEF KeptWith
        <3>2. t \in Seq(S)
            BY <2>1
        <3>3. u \in Seq(S) /\ Len(u) = Len(t) + 1 /\ u[Len(t) + 1] = link /\ Len(t) \in Nat
              /\ \A m \in 1..Len(t) : u[m] = t[m]
            BY <2>2, <3>2
        <3>4. \A m \in 1..Len(t) : \E j \in 1..(k - 1) : t[m] = links[j] /\ ~Touches(links[j], i)
            BY <2>1
        <3>5. \A j \in 1..(k - 1) : ~Touches(links[j], i) => \E m \in 1..Len(t) : t[m] = links[j]
            BY <2>1
        <3>6. \A l, m \in 1..Len(t) : t[l].id = t[m].id => l = m
            BY <2>1
        <3> HIDE DEF t, u
        <3>7. \A m \in 1..Len(u) : \E j \in 1..k : u[m] = links[j] /\ ~Touches(links[j], i)
            <4> TAKE m \in 1..Len(u)
            <4>1. CASE m = Len(u)
                BY <1>1, <2>1, <2>4, <3>3, <4>1
            <4>2. CASE m # Len(u)
                <5>1. m \in 1..Len(t)
                    BY <3>3, <4>2
                <5>2. PICK j \in 1..(k - 1) : t[m] = links[j] /\ ~Touches(links[j], i)
                    BY <3>4, <5>1
                <5>3. j \in 1..k
                    BY <2>1
                <5> QED
                    BY <3>3, <5>1, <5>2, <5>3
            <4> QED
                BY <4>1, <4>2
        <3>8. \A j \in 1..k : ~Touches(links[j], i) => \E m \in 1..Len(u) : u[m] = links[j]
            <4> SUFFICES ASSUME NEW j \in 1..k, ~Touches(links[j], i)
                         PROVE  \E m \in 1..Len(u) : u[m] = links[j]
                OBVIOUS
            <4>1. CASE j = k
                <5>1. Len(t) + 1 \in 1..Len(u)
                    BY <3>3
                <5> QED
                    BY <3>3, <4>1, <5>1
            <4>2. CASE j # k
                <5>1. j \in 1..(k - 1)
                    BY <2>1, <4>2
                <5>2. PICK m \in 1..Len(t) : t[m] = links[j]
                    BY <3>5, <5>1
                <5>3. m \in 1..Len(u)
                    BY <3>3
                <5> QED
                    BY <3>3, <5>2, <5>3
            <4> QED
                BY <4>1, <4>2
        <3>9. \A m \in 1..Len(t) : t[m].id # link.id
            <4> TAKE m \in 1..Len(t)
            <4>1. PICK j \in 1..(k - 1) : t[m] = links[j]
                BY <3>4
            <4>2. j \in 1..n /\ j # k
                BY <1>1, <2>1
            <4> QED
                BY <1>4, <4>1, <4>2
        <3>10. \A l, m \in 1..Len(u) : u[l].id = u[m].id => l = m
            <4> TAKE l, m \in 1..Len(u)
            <4>1. \A x \in 1..Len(u) : x = Len(t) + 1 \/ x \in 1..Len(t)
                BY <3>3
            <4> HIDE DEF link
            <4>2. CASE l \in 1..Len(t) /\ m \in 1..Len(t)
                BY <3>3, <3>6, <4>2
            <4>3. CASE l = Len(t) + 1 /\ m \in 1..Len(t)
                BY <3>3, <3>9, <4>3
            <4>4. CASE l \in 1..Len(t) /\ m = Len(t) + 1
                BY <3>3, <3>9, <4>4
            <4> QED
                BY <4>1, <4>2, <4>3, <4>4
        <3>11. Filtered(k, u)
            BY <3>3, <3>7, <3>8, <3>10
        <3> QED
            BY <2>1, <3>1, <3>11
    <2> QED
        BY <2>3, <2>4
<1> HIDE DEF T, Filtered
<1>8. \A k \in 0..n : k \in T
    BY <1>1, <1>6, <1>7, UpTo
<1>9. Filtered(n, Others(i))
    <2>1. n \in 0..n
        BY <1>1
    <2>2. n \in T
        BY <1>8, <2>1
    <2> QED
        BY <1>2, <2>2 DEF T
<1> DEFINE t == Others(i)
<1>10. t \in Seq(S) /\ DOMAIN t = 1..Len(t) /\ Len(t) \in Nat
    BY <1>9 DEF Filtered
<1>11. ToSet(t) = {t[m] : m \in 1..Len(t)}
    BY <1>10 DEF ToSet
<1>12. Distinct(t)
    BY <1>9, <1>10 DEF Filtered, Distinct
<1>13. t \in Seq(ToSet(t))
    BY <1>10, <1>11
<1>14. ToSet(t) = {l \in S : ~Touches(l, i)}
    <2>1. ASSUME NEW l \in ToSet(t) PROVE l \in S /\ ~Touches(l, i)
        BY <1>3, <1>9, <1>11 DEF Filtered, S
    <2>2. ASSUME NEW l \in S, ~Touches(l, i) PROVE l \in ToSet(t)
        <3>1. PICK j \in 1..n : l = links[j]
            BY <1>5 DEF S
        <3>2. PICK m \in 1..Len(t) : t[m] = links[j]
            BY <1>9, <2>2, <3>1 DEF Filtered
        <3> QED
            BY <1>11, <3>1, <3>2
    <2> QED
        BY <2>1, <2>2
<1> QED
    BY <1>12, <1>13, <1>14 DEF S, links

-----------------------------------------------------------------------------
(* Links. *)

\* What the resolver asks of one link.
LinkOK(components, link) ==
    /\ EndFindings(components, link.kind, link.from) = {}
    /\ EndFindings(components, link.kind, link.to) = {}
    /\ PortsFound(components, link) =>
          /\ TypesMatch(components, link)
          /\ Port(components, link.kind, link.from).direction # "input"
          /\ Port(components, link.kind, link.to).direction # "output"

Twin(links, n) == \E m \in DOMAIN links \ {n} : links[m].id = links[n].id

LEMMA LinkFindingsAre ==
    ASSUME NEW components, NEW links, NEW n
    PROVE  LinkFindings(components, links, n) = {} <=> LinkOK(components, links[n]) /\ ~Twin(links, n)
<1> DEFINE link == links[n]
           source == Port(components, link.kind, link.from)
           target == Port(components, link.kind, link.to)
           ends == EndFindings(components, link.kind, link.from)
                   \cup EndFindings(components, link.kind, link.to)
           twins == IF Twin(links, n) THEN {"duplicate-connection-id"} ELSE {}
           ports == {code \in {"port-direction-incompatible", "port-type-incompatible"} :
                       IF code = "port-type-incompatible" THEN ~TypesMatch(components, link)
                       ELSE source.direction = "input" \/ target.direction = "output"}
           pair == IF ~PortsFound(components, link) THEN {} ELSE ports
<1>1. LinkFindings(components, links, n) = ends \cup twins \cup pair
    BY DEF LinkFindings, Twin
<1>2. ports = {} <=> /\ TypesMatch(components, link)
                     /\ source.direction # "input" /\ target.direction # "output"
    OBVIOUS
<1>3. pair = {} <=> (PortsFound(components, link) =>
                        /\ TypesMatch(components, link)
                        /\ source.direction # "input" /\ target.direction # "output")
    <2> HIDE DEF ports
    <2> QED
        BY <1>2
<1>4. twins = {} <=> ~Twin(links, n)
    OBVIOUS
<1>5. LinkOK(components, link) <=> ends = {} /\ pair = {}
    <2>1. ends = {} <=> /\ EndFindings(components, link.kind, link.from) = {}
                        /\ EndFindings(components, link.kind, link.to) = {}
        OBVIOUS
    <2> HIDE DEF ends, pair
    <2> QED
        BY <1>3, <2>1 DEF LinkOK, source, target
<1> HIDE DEF ends, pair, twins
<1> QED
    BY <1>1, <1>4, <1>5

\* The links resolve if each does, and no two have the same identity.
LinksOK(components, links) ==
    (\A n \in DOMAIN links : LinkOK(components, links[n])) /\ Distinct(links)

LEMMA LinksResolve ==
    ASSUME NEW components, NEW links
    PROVE  (\A n \in DOMAIN links : LinkFindings(components, links, n) = {})
              <=> LinksOK(components, links)
<1>1. (\A n \in DOMAIN links : ~Twin(links, n)) <=> Distinct(links)
    BY DEF Twin, Distinct
<1>2. \A n \in DOMAIN links : LinkFindings(components, links, n) = {}
                                  <=> LinkOK(components, links[n]) /\ ~Twin(links, n)
    BY LinkFindingsAre
<1> QED
    BY <1>1, <1>2 DEF LinksOK

\* The components at both ends, and their types, are all that a link asks for.
LEMMA LinkStays ==
    ASSUME NEW components, NEW others, NEW link, LinkOK(components, link),
           \A end \in {link.from, link.to} :
              end.component \in DOMAIN components =>
                  /\ end.component \in DOMAIN others
                  /\ others[end.component].type = components[end.component].type
    PROVE  /\ LinkOK(others, link)
           /\ \A end \in {link.from, link.to} : end.component \in DOMAIN components
<1>1. \A end \in {link.from, link.to} : end.component \in DOMAIN components
    BY DEF LinkOK, EndFindings
<1>2. ASSUME NEW end \in {link.from, link.to}
      PROVE  /\ end.component \in DOMAIN others
             /\ Port(others, link.kind, end) = Port(components, link.kind, end)
             /\ EndFindings(others, link.kind, end) = EndFindings(components, link.kind, end)
    <2>1. /\ end.component \in DOMAIN components /\ end.component \in DOMAIN others
          /\ others[end.component].type = components[end.component].type
        BY <1>1
    <2>2. Port(others, link.kind, end) = Port(components, link.kind, end)
        BY <2>1 DEF Port
    <2> QED
        BY <2>1, <2>2 DEF EndFindings
<1>3. PortsFound(others, link) <=> PortsFound(components, link)
    BY <1>1, <1>2 DEF PortsFound
<1>4. TypesMatch(others, link) <=> TypesMatch(components, link)
    BY <1>2 DEF TypesMatch
<1> QED
    BY <1>1, <1>2, <1>3, <1>4 DEF LinkOK

-----------------------------------------------------------------------------
(* Paths of the scene. *)

LEMMA PrefixIs ==
    ASSUME NEW U, NEW p \in Seq(U), NEW q \in Seq(U)
    PROVE  IsPrefix(p, q) <=> Len(p) <= Len(q) /\ \A n \in 1..Len(p) : q[n] = p[n]
<1>1. Len(p) \in Nat /\ Len(q) \in Nat
    OBVIOUS
<1>2. SubSeq(p, 1, Len(p)) = [n \in 1..Len(p) |-> p[n]]
    BY <1>1
<1>3. Len(p) <= Len(q) => SubSeq(q, 1, Len(p)) = [n \in 1..Len(p) |-> q[n]]
    BY <1>1
<1>4. [n \in 1..Len(p) |-> p[n]] = [n \in 1..Len(p) |-> q[n]] <=> \A n \in 1..Len(p) : q[n] = p[n]
    <2>1. ASSUME [n \in 1..Len(p) |-> p[n]] = [n \in 1..Len(p) |-> q[n]], NEW n \in 1..Len(p)
          PROVE  q[n] = p[n]
        BY <2>1
    <2> QED
        BY <2>1
<1> QED
    BY <1>2, <1>3, <1>4 DEF IsPrefix

LEMMA FrontIs ==
    ASSUME NEW U, NEW p \in Seq(U), p # <<>>
    PROVE  /\ Front(p) \in Seq(U) /\ Len(Front(p)) = Len(p) - 1
           /\ \A n \in 1..(Len(p) - 1) : Front(p)[n] = p[n]
           /\ Len(p) \in Nat \ {0} /\ Last(p) = p[Len(p)] /\ Last(p) \in U
<1>1. Len(p) \in Nat \ {0} /\ DOMAIN p = 1..Len(p)
    OBVIOUS
<1>2. /\ Front(p) \in Seq(U) /\ Len(Front(p)) = Len(p) - 1
      /\ \A n \in 1..(Len(p) - 1) : Front(p)[n] = p[n]
    BY <1>1 DEF Front
<1>3. Last(p) = p[Len(p)] /\ Last(p) \in U
    BY <1>1 DEF Last
<1> QED
    BY <1>1, <1>2, <1>3

\* What is below the parent of a path is the path itself, and what is below it.
LEMMA PrefixOfFront ==
    ASSUME NEW U, NEW p \in Seq(U), NEW q \in Seq(U), q # <<>>
    PROVE  IsPrefix(p, q) <=> p = q \/ IsPrefix(p, Front(q))
<1>1. /\ Front(q) \in Seq(U) /\ Len(Front(q)) = Len(q) - 1 /\ Len(q) \in Nat \ {0} /\ Len(p) \in Nat
      /\ \A n \in 1..(Len(q) - 1) : Front(q)[n] = q[n]
    BY FrontIs
<1>2. IsPrefix(p, q) <=> Len(p) <= Len(q) /\ \A n \in 1..Len(p) : q[n] = p[n]
    BY PrefixIs
<1>3. IsPrefix(p, Front(q)) <=> Len(p) <= Len(q) - 1 /\ \A n \in 1..Len(p) : Front(q)[n] = p[n]
    BY <1>1, PrefixIs
<1>4. CASE Len(p) <= Len(q) - 1
    <2>1. \A n \in 1..Len(p) : n \in 1..(Len(q) - 1)
        BY <1>1, <1>4
    <2>2. p # q
        BY <1>1, <1>4
    <2>3. Len(p) <= Len(q)
        BY <1>1, <1>4
    <2> QED
        BY <1>1, <1>2, <1>3, <1>4, <2>1, <2>2, <2>3
<1>5. CASE Len(p) = Len(q)
    <2>1. ~ (Len(p) <= Len(q) - 1) /\ Len(p) <= Len(q)
        BY <1>1, <1>5
    <2>2. (\A n \in 1..Len(p) : q[n] = p[n]) <=> p = q
        BY <1>5
    <2> QED
        BY <1>2, <1>3, <2>1, <2>2
<1>6. CASE Len(p) > Len(q)
    <2>1. ~ (Len(p) <= Len(q) - 1) /\ ~ (Len(p) <= Len(q)) /\ p # q
        BY <1>1, <1>6
    <2> QED
        BY <1>2, <1>3, <2>1
<1> QED
    BY <1>1, <1>4, <1>5, <1>6

\* What is below the prim that moves keeps its place below it.
LEMMA MovedBelow ==
    ASSUME NEW U, NEW p \in Seq(U), NEW old \in Seq(U), NEW new \in Seq(U), old # <<>>, new # <<>>,
           IsPrefix(old, p)
    PROVE  /\ Moved(p, old, new) \in Seq(U) /\ Moved(p, old, new) # <<>>
           /\ p = old => Moved(p, old, new) = new
           /\ p # old => /\ p # <<>> /\ IsPrefix(old, Front(p))
                         /\ Front(Moved(p, old, new)) = Moved(Front(p), old, new)
                         /\ Len(p) > 1
<1> DEFINE l == Len(old)
           tail == SubSeq(p, l + 1, Len(p))
           moved == new \o tail
<1>1. /\ l \in Nat \ {0} /\ Len(p) \in Nat /\ Len(new) \in Nat \ {0} /\ l <= Len(p)
      /\ \A n \in 1..l : p[n] = old[n]
    BY PrefixIs
<1>2. Moved(p, old, new) = moved
    BY DEF Moved
<1>3. /\ tail \in Seq(U) /\ Len(tail) = Len(p) - l
      /\ \A n \in 1..(Len(p) - l) : tail[n] = p[l + n]
    BY <1>1
<1>4. /\ moved \in Seq(U) /\ Len(moved) = Len(new) + Len(p) - l
      /\ \A n \in 1..Len(new) : moved[n] = new[n]
      /\ \A n \in 1..(Len(p) - l) : moved[Len(new) + n] = p[l + n]
    <2> HIDE DEF tail, l
    <2>0. tail \in Seq(U)
        BY <1>3
    <2>1. /\ moved \in Seq(U) /\ Len(moved) = Len(new) + Len(tail)
          /\ \A n \in 1..Len(new) : moved[n] = new[n]
          /\ \A n \in 1..Len(tail) : moved[Len(new) + n] = tail[n]
        BY <2>0
    <2> QED
        BY <1>1, <1>3, <2>1
<1> HIDE DEF l, tail
<1>5. moved # <<>>
    BY <1>1, <1>4
<1>6. p = old => moved = new
    <2> SUFFICES ASSUME p = old PROVE moved = new
        OBVIOUS
    <2>1. Len(p) = l
        BY DEF l
    <2>2. Len(moved) = Len(new)
        BY <1>1, <1>4, <2>1
    <2>3. \A n \in 1..Len(new) : moved[n] = new[n]
        BY <1>4
    <2> HIDE DEF moved
    <2> QED
        BY <1>4, <2>2, <2>3
<1>7. ASSUME p # old
      PROVE  /\ p # <<>> /\ IsPrefix(old, Front(p)) /\ Len(p) > 1
             /\ Front(moved) = Moved(Front(p), old, new)
    <2>1. p # <<>>
        BY <1>1
    <2>2. IsPrefix(old, Front(p))
        BY <1>7, <2>1, PrefixOfFront
    <2>3. /\ Front(p) \in Seq(U) /\ Len(Front(p)) = Len(p) - 1
          /\ \A n \in 1..(Len(p) - 1) : Front(p)[n] = p[n]
        BY <2>1, FrontIs
    <2>4. l <= Len(p) - 1
        BY <2>2, <2>3, PrefixIs DEF l
    <2> DEFINE rest == SubSeq(Front(p), l + 1, Len(p) - 1)
               short == new \o rest
    <2>5. Moved(Front(p), old, new) = short
        BY <2>2, <2>3 DEF Moved, l
    <2>6. /\ rest \in Seq(U) /\ Len(rest) = Len(p) - 1 - l
          /\ \A n \in 1..(Len(p) - 1 - l) : rest[n] = p[l + n]
        <3>1. /\ rest \in Seq(U) /\ Len(rest) = Len(p) - 1 - l
              /\ \A n \in 1..(Len(p) - 1 - l) : rest[n] = Front(p)[l + n]
            BY <1>1, <2>3, <2>4
        <3>2. \A n \in 1..(Len(p) - 1 - l) : l + n \in 1..(Len(p) - 1)
            BY <1>1, <2>4
        <3> HIDE DEF rest
        <3> QED
            BY <2>3, <3>1, <3>2
    <2>7. /\ short \in Seq(U) /\ Len(short) = Len(new) + Len(p) - 1 - l
          /\ \A n \in 1..Len(new) : short[n] = new[n]
          /\ \A n \in 1..(Len(p) - 1 - l) : short[Len(new) + n] = p[l + n]
        <3> HIDE DEF rest
        <3>0. rest \in Seq(U)
            BY <2>6
        <3>1. /\ short \in Seq(U) /\ Len(short) = Len(new) + Len(rest)
              /\ \A n \in 1..Len(new) : short[n] = new[n]
              /\ \A n \in 1..Len(rest) : short[Len(new) + n] = rest[n]
            BY <3>0
        <3> QED
            BY <1>1, <2>4, <2>6, <3>1
    <2>8. /\ Front(moved) \in Seq(U) /\ Len(Front(moved)) = Len(new) + Len(p) - l - 1
          /\ \A n \in 1..(Len(new) + Len(p) - l - 1) : Front(moved)[n] = moved[n]
        <3> HIDE DEF moved
        <3>1. /\ Front(moved) \in Seq(U) /\ Len(Front(moved)) = Len(moved) - 1
              /\ \A n \in 1..(Len(moved) - 1) : Front(moved)[n] = moved[n]
            BY <1>4, <1>5, FrontIs
        <3>2. Len(moved) = Len(new) + Len(p) - l
            BY <1>4
        <3>3. Len(moved) - 1 = Len(new) + Len(p) - l - 1
            BY <1>1, <3>2
        <3> QED
            BY <3>1, <3>3
    <2>9. ASSUME NEW n \in 1..(Len(new) + Len(p) - l - 1) PROVE moved[n] = short[n]
        <3>1. CASE n <= Len(new)
            <4>1. n \in 1..Len(new)
                BY <1>1, <2>4, <3>1
            <4> QED
                BY <1>4, <2>7, <4>1
        <3>2. CASE n > Len(new)
            <4> DEFINE k == n - Len(new)
            <4>1. k \in 1..(Len(p) - l) /\ k \in 1..(Len(p) - 1 - l) /\ n = Len(new) + k
                BY <1>1, <2>4, <3>2
            <4> HIDE DEF k, moved, short
            <4> QED
                BY <1>4, <2>7, <4>1
        <3>3. n <= Len(new) \/ n > Len(new)
            BY <1>1, <2>4
        <3> QED
            BY <3>1, <3>2, <3>3
    <2> HIDE DEF moved, short
    <2>10. Front(moved) = short
        <3>1. Len(short) = Len(new) + Len(p) - l - 1
            BY <1>1, <2>4, <2>7
        <3> QED
            BY <2>7, <2>8, <2>9, <3>1, SMTT(40)
    <2>11. Len(p) > 1
        BY <1>1, <2>4
    <2> QED
        BY <2>1, <2>2, <2>5, <2>10, <2>11
<1> QED
    BY <1>2, <1>4, <1>5, <1>6, <1>7

-----------------------------------------------------------------------------
(* The graph of a buffer, part by part. *)

ComponentOf(type, alias, adapter, variants, configuration, calibrations, prim) ==
    [type |-> type, alias |-> alias, adapter |-> adapter, variants |-> variants,
     configuration |-> configuration, calibrations |-> calibrations, prim |-> prim]

\* Components are records.
ComponentsShaped(components) ==
    /\ components = [i \in DOMAIN components |-> components[i]]
    /\ \A i \in DOMAIN components :
          LET c == components[i]
          IN  c = ComponentOf(c.type, c.alias, c.adapter, c.variants, c.configuration,
                              c.calibrations, c.prim)

\* Prims are records in nested places.
SceneShaped(scene) ==
    /\ scene = [p \in DOMAIN scene |-> scene[p]]
    /\ \A p \in DOMAIN scene :
          /\ p \in Seq(ToSet(p)) /\ p # <<>>
          /\ scene[p] = [tag |-> scene[p].tag, matrix |-> scene[p].matrix]
          /\ Len(p) > 1 => Front(p) \in DOMAIN scene

\* Where a prim stands below another, a mechanical link says so.
SceneLinked(links, scene) ==
    \A p \in DOMAIN scene : Len(p) > 1 =>
        \E link \in ToSet(links) :
            /\ link.kind = "mechanical"
            /\ link.from.component = scene[Front(p)].tag
            /\ link.to.component = scene[p].tag

PairedOf(components, scene) ==
    /\ DOMAIN components # {}
    /\ \A i \in DOMAIN components :
          components[i].prim \in DOMAIN scene /\ scene[components[i].prim].tag = i
    /\ \A p, q \in DOMAIN scene : scene[p].tag = scene[q].tag => p = q
    /\ \A p \in DOMAIN scene : scene[p].tag \in DOMAIN components

GraphOf(components, links, scene) ==
    /\ PairedOf(components, scene) /\ ComponentsShaped(components) /\ SceneShaped(scene)
    /\ links \in Seq(ToSet(links)) /\ LinksOK(components, links) /\ SceneLinked(links, scene)

Graph(b) == GraphOf(b.cell.components, b.cell.links, b.scene)

LEMMA PairedIs ==
    ASSUME NEW b
    PROVE  Paired(b.cell, b.scene) <=> PairedOf(b.cell.components, b.scene)
BY DEF Paired, PairedOf

LEMMA GraphIs ==
    ASSUME NEW b
    PROVE  Graph(b) <=> Paired(b.cell, b.scene) /\ Nested(b) /\ Resolving(b)
<1>1. Nested(b) <=> /\ ComponentsShaped(b.cell.components) /\ SceneShaped(b.scene)
                    /\ b.cell.links \in Seq(ToSet(b.cell.links))
    BY DEF Nested, ComponentsShaped, SceneShaped, ComponentOf
<1>2. Resolving(b) <=> /\ LinksOK(b.cell.components, b.cell.links)
                       /\ SceneLinked(b.cell.links, b.scene)
    <2>1. (\A n \in DOMAIN b.cell.links : LinkFindings(b.cell.components, b.cell.links, n) = {})
              <=> LinksOK(b.cell.components, b.cell.links)
        BY LinksResolve
    <2> QED
        BY <2>1 DEF Resolving, SceneLinked
<1> QED
    BY <1>1, <1>2, PairedIs DEF Graph, GraphOf

\* The paths of a scene are sequences over one set.
PathNames(scene) == UNION {ToSet(p) : p \in DOMAIN scene}

LEMMA PathsOver ==
    ASSUME NEW scene, SceneShaped(scene), NEW p \in DOMAIN scene
    PROVE  p \in Seq(PathNames(scene)) /\ p # <<>> /\ Len(p) \in Nat \ {0}
<1>1. p \in Seq(ToSet(p)) /\ p # <<>>
    BY DEF SceneShaped
<1>2. \A n \in 1..Len(p) : p[n] \in ToSet(p)
    BY <1>1
<1>3. ToSet(p) \subseteq PathNames(scene)
    BY DEF PathNames
<1>4. \A n \in 1..Len(p) : p[n] \in PathNames(scene)
    BY <1>2, <1>3
<1> QED
    BY <1>1, <1>4

\* A sequence is one of its own elements.
LEMMA OverItself ==
    ASSUME NEW U, NEW p \in Seq(U)
    PROVE  p \in Seq(ToSet(p))
<1>1. \A n \in 1..Len(p) : p[n] \in ToSet(p)
    BY DEF ToSet
<1> QED
    BY <1>1

-----------------------------------------------------------------------------
(* What each edit does to the graph. *)

\* What changes neither the types and places of the components nor the links.
LEMMA GraphStays ==
    ASSUME NEW components, NEW others, NEW links, NEW scene, NEW next,
           GraphOf(components, links, scene),
           ComponentsShaped(others), DOMAIN others = DOMAIN components,
           \A i \in DOMAIN components : others[i].type = components[i].type
                                        /\ others[i].prim = components[i].prim,
           next = [p \in DOMAIN next |-> next[p]], DOMAIN next = DOMAIN scene,
           \A p \in DOMAIN scene : /\ next[p] = [tag |-> next[p].tag, matrix |-> next[p].matrix]
                                   /\ next[p].tag = scene[p].tag
    PROVE  GraphOf(others, links, next)
<1>1. PairedOf(others, next)
    BY DEF GraphOf, PairedOf
<1>2. SceneShaped(next)
    BY DEF GraphOf, SceneShaped
<1>3. LinksOK(others, links)
    <2> SUFFICES ASSUME NEW n \in DOMAIN links PROVE LinkOK(others, links[n])
        BY DEF GraphOf, LinksOK
    <2>1. LinkOK(components, links[n])
        BY DEF GraphOf, LinksOK
    <2> QED
        BY <2>1, LinkStays
<1>4. SceneLinked(links, next)
    BY DEF GraphOf, SceneLinked, SceneShaped
<1> QED
    BY <1>1, <1>2, <1>3, <1>4 DEF GraphOf

\* The new prim stands alone.
LEMMA GraphPlaced ==
    ASSUME IInv, Open, Graph(working), NEW i, i \notin DOMAIN working.cell.components,
           NEW type, NEW alias, NEW selection,
           PairedOf(PlacedComponents(i, Newcomer(i, type, alias, selection)),
                    WithPrim(working.scene, i))
    PROVE  GraphOf(PlacedComponents(i, Newcomer(i, type, alias, selection)),
                   working.cell.links, WithPrim(working.scene, i))
<1> DEFINE components == working.cell.components
           links == working.cell.links
           scene == working.scene
           component == Newcomer(i, type, alias, selection)
           others == PlacedComponents(i, component)
           next == WithPrim(scene, i)
<1>0. GraphOf(components, links, scene)
    BY DEF Graph
<1>1. /\ DOMAIN others = DOMAIN components \cup {i} /\ others = [j \in DOMAIN others |-> others[j]]
      /\ \A j \in DOMAIN components : others[j] = components[j]
      /\ others[i] = component
    BY DEF PlacedComponents
<1>2. component = ComponentOf(type, alias, "target_selected", selection, None, {}, <<i>>)
    BY DEF Newcomer, ComponentOf
<1>3. /\ DOMAIN next = DOMAIN scene \cup {<<i>>} /\ next = [p \in DOMAIN next |-> next[p]]
      /\ \A p \in DOMAIN scene : next[p] = scene[p]
      /\ <<i>> \notin DOMAIN scene => next[<<i>>] = [tag |-> i, matrix |-> "identity"]
    BY DEF WithPrim
<1> HIDE DEF components, links, scene, component, others, next
<1>4. ComponentsShaped(others)
    <2> SUFFICES ASSUME NEW j \in DOMAIN others
                 PROVE  others[j] = ComponentOf(others[j].type, others[j].alias, others[j].adapter,
                                                others[j].variants, others[j].configuration,
                                                others[j].calibrations, others[j].prim)
        BY <1>1 DEF ComponentsShaped
    <2>1. CASE j = i
        <3>1. /\ component.type = type /\ component.alias = alias
              /\ component.adapter = "target_selected" /\ component.variants = selection
              /\ component.configuration = None /\ component.calibrations = {}
              /\ component.prim = <<i>>
            BY <1>2 DEF ComponentOf
        <3> QED
            BY <1>1, <1>2, <2>1, <3>1
    <2>2. CASE j # i
        BY <1>0, <1>1, <2>2 DEF GraphOf, ComponentsShaped
    <2> QED
        BY <2>1, <2>2
<1>5. <<i>> \in Seq(ToSet(<<i>>)) /\ <<i>> # <<>> /\ Len(<<i>>) = 1
    <2>1. ToSet(<<i>>) = {i}
        BY DEF ToSet
    <2> QED
        BY <2>1
<1>6. SceneShaped(next)
    <2> SUFFICES ASSUME NEW p \in DOMAIN next
                 PROVE  /\ p \in Seq(ToSet(p)) /\ p # <<>>
                        /\ next[p] = [tag |-> next[p].tag, matrix |-> next[p].matrix]
                        /\ Len(p) > 1 => Front(p) \in DOMAIN next
        BY <1>3 DEF SceneShaped
    <2>1. CASE p \in DOMAIN scene
        BY <1>0, <1>3, <2>1 DEF GraphOf, SceneShaped
    <2>2. CASE p \notin DOMAIN scene
        <3>1. p = <<i>> /\ next[p] = [tag |-> i, matrix |-> "identity"]
            BY <1>3, <2>2
        <3>2. next[p] = [tag |-> next[p].tag, matrix |-> next[p].matrix]
            BY <3>1
        <3>3. ~ (Len(p) > 1)
            BY <1>5, <3>1
        <3> QED
            BY <1>5, <3>1, <3>2, <3>3
    <2> QED
        BY <2>1, <2>2
<1>7. LinksOK(others, links)
    <2> SUFFICES ASSUME NEW n \in DOMAIN links PROVE LinkOK(others, links[n])
        BY <1>0 DEF GraphOf, LinksOK
    <2>1. LinkOK(components, links[n])
        BY <1>0 DEF GraphOf, LinksOK
    <2> QED
        BY <1>1, <2>1, LinkStays
<1>8. SceneLinked(links, next)
    <2> SUFFICES ASSUME NEW p \in DOMAIN next, Len(p) > 1
                 PROVE  \E link \in ToSet(links) :
                           /\ link.kind = "mechanical"
                           /\ link.from.component = next[Front(p)].tag
                           /\ link.to.component = next[p].tag
        BY DEF SceneLinked
    <2>1. p \in DOMAIN scene
        <3>1. p # <<i>>
            <4>1. ~ (Len(<<i>>) > 1)
                BY <1>5
            <4> QED
                BY <4>1
        <3> QED
            BY <1>3, <3>1
    <2>2. Front(p) \in DOMAIN scene
        BY <1>0, <2>1 DEF GraphOf, SceneShaped
    <2> QED
        BY <1>0, <1>3, <2>1, <2>2 DEF GraphOf, SceneLinked
<1> QED
    BY <1>0, <1>4, <1>6, <1>7, <1>8 DEF GraphOf, components, links, scene, component, others, next

\* The links that a removal leaves are whole, and tell of what is left.
LEMMA GraphRemoved ==
    ASSUME IInv, Open, Graph(working), NEW i \in DOMAIN working.cell.components,
           NEW cascade \in BOOLEAN, Incident(i) = {} \/ cascade,
           PairedOf(RemainingComponents(i),
                    WithoutPrim(working.scene, working.cell.components[i].prim))
    PROVE  GraphOf(RemainingComponents(i), RemainingLinks(i, cascade),
                   WithoutPrim(working.scene, working.cell.components[i].prim))
<1> DEFINE components == working.cell.components
           links == working.cell.links
           scene == working.scene
           prim == components[i].prim
           rest == RemainingComponents(i)
           left == RemainingLinks(i, cascade)
           next == WithoutPrim(scene, prim)
<1>0. GraphOf(components, links, scene)
    BY DEF Graph
<1>1. /\ DOMAIN rest = DOMAIN components \ {i} /\ rest = [j \in DOMAIN rest |-> rest[j]]
      /\ \A j \in DOMAIN rest : rest[j] = components[j]
    BY DEF RemainingComponents, Restrict
<1>2. /\ DOMAIN next = {p \in DOMAIN scene : ~IsPrefix(prim, p)} /\ next = [p \in DOMAIN next |-> next[p]]
      /\ \A p \in DOMAIN next : next[p] = scene[p]
    BY DEF WithoutPrim, Block, Restrict
<1>3. /\ left \in Seq(ToSet(left)) /\ Distinct(left)
      /\ ToSet(left) = {l \in ToSet(links) : ~Touches(l, i)}
    <2>1. links \in Seq(ToSet(links)) /\ Distinct(links)
        BY <1>0 DEF GraphOf, LinksOK
    <2>2. CASE cascade
        BY <2>1, <2>2, OthersOK DEF RemainingLinks
    <2>3. CASE ~cascade
        <3>1. left = links
            BY <2>3 DEF RemainingLinks
        <3>2. \A l \in ToSet(links) : ~Touches(l, i)
            <4>1. \A n \in DOMAIN links : ~Touches(links[n], i)
                BY <2>3 DEF Incident
            <4> QED
                BY <4>1 DEF ToSet
        <3>3. ToSet(links) = {l \in ToSet(links) : ~Touches(l, i)}
            BY <3>2
        <3> HIDE DEF links, left
        <3> QED
            BY <2>1, <3>1, <3>3
    <2> QED
        BY <2>2, <2>3
<1> HIDE DEF components, links, scene, rest, left, next
<1>4. ComponentsShaped(rest)
    BY <1>0, <1>1 DEF GraphOf, ComponentsShaped
<1>5. prim \in DOMAIN scene /\ scene[prim].tag = i /\ i \in DOMAIN components
    BY <1>0 DEF GraphOf, PairedOf, components
<1>6. \A p \in DOMAIN scene : /\ p \in Seq(PathNames(scene)) /\ p # <<>>
                              /\ Len(p) > 1 => Front(p) \in DOMAIN scene
    BY <1>0, PathsOver DEF GraphOf, SceneShaped
<1> HIDE DEF prim
<1>7. ASSUME NEW p \in DOMAIN next, Len(p) > 1 PROVE Front(p) \in DOMAIN next
    <2>1. p \in DOMAIN scene /\ ~IsPrefix(prim, p) /\ Front(p) \in DOMAIN scene
        BY <1>2, <1>6, <1>7
    <2>2. ~IsPrefix(prim, Front(p))
        BY <1>5, <1>6, <2>1, PrefixOfFront
    <2> QED
        BY <1>2, <2>1, <2>2
<1>8. ASSUME NEW p \in DOMAIN next PROVE scene[p].tag # i
    <2>1. IsPrefix(prim, prim)
        <3>1. Len(prim) \in Nat
            BY <1>5, <1>6
        <3> QED
            BY <3>1 DEF IsPrefix
    <2>2. p # prim /\ p \in DOMAIN scene
        BY <1>2, <2>1
    <2> QED
        BY <1>0, <1>5, <2>2 DEF GraphOf, PairedOf
<1>9. SceneShaped(next)
    BY <1>0, <1>2, <1>7 DEF GraphOf, SceneShaped
<1>10. LinksOK(rest, left)
    <2> SUFFICES ASSUME NEW n \in DOMAIN left PROVE LinkOK(rest, left[n])
        BY <1>3 DEF LinksOK
    <2>1. left[n] \in ToSet(links) /\ ~Touches(left[n], i)
        BY <1>3 DEF ToSet
    <2>2. LinkOK(components, left[n])
        BY <1>0, <2>1 DEF GraphOf, LinksOK, ToSet
    <2>3. \A end \in {left[n].from, left[n].to} : end.component # i
        BY <2>1 DEF Touches
    <2> QED
        BY <1>1, <2>2, <2>3, LinkStays
<1>11. SceneLinked(left, next)
    <2> SUFFICES ASSUME NEW p \in DOMAIN next, Len(p) > 1
                 PROVE  \E link \in ToSet(left) :
                           /\ link.kind = "mechanical"
                           /\ link.from.component = next[Front(p)].tag
                           /\ link.to.component = next[p].tag
        BY DEF SceneLinked
    <2>1. Front(p) \in DOMAIN next /\ p \in DOMAIN scene
        BY <1>2, <1>7
    <2>2. PICK link \in ToSet(links) : /\ link.kind = "mechanical"
                                       /\ link.from.component = scene[Front(p)].tag
                                       /\ link.to.component = scene[p].tag
        BY <1>0, <2>1 DEF GraphOf, SceneLinked
    <2>3. ~Touches(link, i)
        BY <1>8, <2>1, <2>2 DEF Touches
    <2> QED
        BY <1>2, <1>3, <2>1, <2>2, <2>3
<1>12. PairedOf(rest, next)
    BY DEF rest, next, scene, prim, components
<1>13. GraphOf(rest, left, next)
    BY <1>3, <1>4, <1>9, <1>10, <1>11, <1>12 DEF GraphOf
<1> QED
    BY <1>13 DEF rest, left, next, scene, prim, components

\* The links and the one that was made of them.
LEMMA LinkAdded ==
    ASSUME NEW components, NEW links, links \in Seq(ToSet(links)), LinksOK(components, links), NEW link,
           LinkFindings(components, Append(links, link), Len(Append(links, link))) = {}
    PROVE  /\ Append(links, link) \in Seq(ToSet(Append(links, link)))
           /\ ToSet(Append(links, link)) = ToSet(links) \cup {link}
           /\ LinksOK(components, Append(links, link)) /\ LinkOK(components, link)
<1> DEFINE more == Append(links, link)
           n == Len(links)
<1>1. more \in Seq(ToSet(more)) /\ ToSet(more) = ToSet(links) \cup {link}
    BY Appended
<1>2. /\ n \in Nat /\ DOMAIN links = 1..n /\ DOMAIN more = 1..(n + 1) /\ Len(more) = n + 1
      /\ more[n + 1] = link /\ \A k \in 1..n : more[k] = links[k]
    OBVIOUS
<1> HIDE DEF more, n
<1>3. LinkOK(components, more[n + 1]) /\ ~Twin(more, n + 1)
    BY <1>2, LinkFindingsAre DEF more
<1>4. \A k \in 1..n : k # n + 1 /\ k \in 1..(n + 1)
    BY <1>2
<1>5. \A k \in 1..(n + 1) : k = n + 1 \/ k \in 1..n
    BY <1>2
<1>6. \A k \in 1..n : more[k].id # link.id
    BY <1>2, <1>3, <1>4 DEF Twin
<1>7. Distinct(more)
    <2> SUFFICES ASSUME NEW j \in 1..(n + 1), NEW k \in 1..(n + 1), more[j].id = more[k].id
                 PROVE  j = k
        BY <1>2 DEF Distinct
    <2>1. CASE j = n + 1
        BY <1>2, <1>5, <1>6, <2>1
    <2>2. CASE k = n + 1
        BY <1>2, <1>5, <1>6, <2>2
    <2>3. CASE j \in 1..n /\ k \in 1..n
        BY <1>2, <2>3 DEF LinksOK, Distinct
    <2> QED
        BY <1>5, <2>1, <2>2, <2>3
<1>8. \A k \in DOMAIN more : LinkOK(components, more[k])
    BY <1>2, <1>3, <1>5 DEF LinksOK
<1> QED
    BY <1>1, <1>2, <1>3, <1>7, <1>8 DEF LinksOK, more

\* A link that moves nothing.
LEMMA GraphLinked ==
    ASSUME Graph(working), NEW link, Resolves(link)
    PROVE  GraphOf(working.cell.components, Append(working.cell.links, link), working.scene)
<1> DEFINE components == working.cell.components
           links == working.cell.links
           more == Append(links, link)
           scene == working.scene
<1>1. GraphOf(components, links, scene)
    BY DEF Graph
<1>2. LinkFindings(components, more, Len(more)) = {}
    BY DEF Resolves
<1> HIDE DEF components, links, scene
<1>3. /\ more \in Seq(ToSet(more)) /\ ToSet(more) = ToSet(links) \cup {link}
      /\ LinksOK(components, more)
    BY <1>1, <1>2, LinkAdded DEF GraphOf
<1>4. SceneLinked(more, scene)
    BY <1>1, <1>3 DEF GraphOf, SceneLinked
<1>5. GraphOf(components, more, scene)
    BY <1>1, <1>3, <1>4 DEF GraphOf
<1> QED
    BY <1>5 DEF components, links, scene

\* Where a snap puts its target: right below the source.
LEMMA BelowSource ==
    ASSUME NEW scene, SceneShaped(scene), NEW old \in DOMAIN scene, NEW source \in DOMAIN scene
    PROVE  LET new == Append(source, Last(old))
           IN  new \in Seq(PathNames(scene)) /\ new # <<>> /\ Front(new) = source
<1> DEFINE U == PathNames(scene)
           new == Append(source, Last(old))
<1>0. old \in Seq(U) /\ old # <<>> /\ source \in Seq(U)
    BY PathsOver
<1> HIDE DEF U
<1>1. Last(old) \in U
    BY <1>0, FrontIs
<1>2. /\ new \in Seq(U) /\ Len(new) = Len(source) + 1 /\ Len(source) \in Nat
      /\ \A n \in 1..Len(source) : new[n] = source[n]
    BY <1>0, <1>1
<1>3. new # <<>>
    BY <1>2
<1>4. /\ Front(new) \in Seq(U) /\ Len(Front(new)) = Len(source)
      /\ \A n \in 1..Len(source) : Front(new)[n] = source[n]
    <2>1. /\ Front(new) \in Seq(U) /\ Len(Front(new)) = Len(new) - 1
          /\ \A n \in 1..(Len(new) - 1) : Front(new)[n] = new[n]
        BY <1>2, <1>3, FrontIs
    <2> QED
        BY <1>2, <2>1
<1>5. Front(new) = source
    BY <1>0, <1>4
<1> QED
    BY <1>2, <1>3, <1>5 DEF U

\* What a snap makes of a path: the target's prim goes below the source's, with all below it,
\* and a path that is not below it keeps its place, and so do those above.
LEMMA MovedPaths ==
    ASSUME NEW scene, SceneShaped(scene), NEW old \in DOMAIN scene, NEW source \in DOMAIN scene,
           ~IsPrefix(old, source), NEW new \in Seq(PathNames(scene)), new # <<>>, Front(new) = source,
           NEW p \in DOMAIN scene
    PROVE  /\ Moved(p, old, new) \in Seq(ToSet(Moved(p, old, new))) /\ Moved(p, old, new) # <<>>
           /\ p = old => /\ Moved(p, old, new) = new
                         /\ Front(Moved(p, old, new)) = Moved(source, old, new)
           /\ p # old /\ Len(Moved(p, old, new)) > 1 =>
                 /\ Len(p) > 1
                 /\ Front(Moved(p, old, new)) = Moved(Front(p), old, new)
<1> DEFINE U == PathNames(scene)
           moved == Moved(p, old, new)
<1>1. /\ p \in Seq(U) /\ p # <<>> /\ old \in Seq(U) /\ old # <<>> /\ source \in Seq(U)
    BY PathsOver
<1>2. new \in Seq(U) /\ new # <<>> /\ Front(new) = source
    OBVIOUS
<1> HIDE DEF U
<1>3. Moved(source, old, new) = source
    BY DEF Moved
<1>4. CASE IsPrefix(old, p)
    <2>0. p \in Seq(U) /\ old \in Seq(U) /\ new \in Seq(U) /\ old # <<>> /\ new # <<>>
        BY <1>1, <1>2
    <2>a. Moved(p, old, new) \in Seq(U)
        BY <2>0, <1>4, MovedBelow
    <2>b. Moved(p, old, new) # <<>>
        BY <2>0, <1>4, MovedBelow
    <2>c. p = old => Moved(p, old, new) = new
        BY <2>0, <1>4, MovedBelow
    <2>d. p # old => Front(Moved(p, old, new)) = Moved(Front(p), old, new) /\ Len(p) > 1
        BY <2>0, <1>4, MovedBelow
    <2>1. /\ moved \in Seq(U) /\ moved # <<>>
          /\ p = old => moved = new
          /\ p # old => Front(moved) = Moved(Front(p), old, new) /\ Len(p) > 1
        BY <2>a, <2>b, <2>c, <2>d
    <2> HIDE DEF moved
    <2>2. moved \in Seq(ToSet(moved))
        BY <2>1, OverItself
    <2> QED
        BY <1>2, <1>3, <2>1, <2>2 DEF moved
<1>5. CASE ~IsPrefix(old, p)
    <2>1. moved = p
        BY <1>5 DEF Moved
    <2>2. p # old
        <3>1. Len(old) \in Nat
            BY <1>1
        <3>2. IsPrefix(old, old)
            BY <3>1 DEF IsPrefix
        <3> QED
            BY <1>5, <3>2
    <2>3. Moved(Front(p), old, new) = Front(p)
        <3>1. ~IsPrefix(old, Front(p))
            BY <1>1, <1>5, PrefixOfFront
        <3> QED
            BY <3>1 DEF Moved
    <2>4. p \in Seq(ToSet(p))
        BY <1>1, OverItself
    <2> QED
        BY <1>1, <2>1, <2>2, <2>3, <2>4
<1> QED
    BY <1>4, <1>5

\* A mechanical link moves its target below its source, and is there for it.
LEMMA GraphSnapped ==
    ASSUME IInv, Open, Graph(working), NEW link, Resolves(link), link.kind = "mechanical",
           ~SnapRefused(working.cell.components, working.scene, link),
           PairedOf(SnappedComponents(link), SnappedScene(link))
    PROVE  GraphOf(SnappedComponents(link), Append(working.cell.links, link), SnappedScene(link))
<1> DEFINE components == working.cell.components
           links == working.cell.links
           scene == working.scene
           more == Append(links, link)
           s == link.from.component
           t == link.to.component
           old == components[t].prim
           source == components[s].prim
           new == SnappedTo(link)
           to(p) == Moved(p, old, new)
           others == SnappedComponents(link)
           next == SnappedScene(link)
           under == Reparented(scene, old, new)
<1>1. GraphOf(components, links, scene)
    BY DEF Graph
<1>2. LinkFindings(components, more, Len(more)) = {}
    BY DEF Resolves
<1>3. new = Append(source, Last(old))
    BY DEF SnappedTo
<1>4. /\ others = [i \in DOMAIN components |-> others[i]] /\ DOMAIN others = DOMAIN components
      /\ \A i \in DOMAIN components :
            others[i] = [components[i] EXCEPT !.prim = to(components[i].prim)]
    BY DEF SnappedComponents
<1>5. next = [under EXCEPT ![new].matrix = "snapped"]
    BY DEF SnappedScene
<1>6. s # t /\ ~IsStrictPrefix(old, source)
    BY DEF SnapRefused
<1>7. PairedOf(others, next)
    OBVIOUS
<1>8. /\ DOMAIN under = {to(p) : p \in DOMAIN scene}
      /\ under = [q \in DOMAIN under |-> under[q]]
      /\ \A q \in DOMAIN under : under[q] = scene[CHOOSE p \in DOMAIN scene : to(p) = q]
    <2> DEFINE D == {to(p) : p \in DOMAIN scene}
               F(q) == scene[CHOOSE p \in DOMAIN scene : to(p) = q]
    <2>1. under = [q \in D |-> F(q)]
        BY DEF Reparented
    <2> HIDE DEF under, D, F
    <2>2. DOMAIN under = D /\ under = [q \in D |-> under[q]] /\ \A q \in D : under[q] = F(q)
        BY <2>1
    <2> QED
        BY <2>2 DEF D, F
<1> HIDE DEF components, links, scene, new, others, next, under
<1>9. /\ more \in Seq(ToSet(more)) /\ ToSet(more) = ToSet(links) \cup {link}
      /\ LinksOK(components, more) /\ LinkOK(components, link)
    BY <1>1, <1>2, LinkAdded DEF GraphOf
<1> HIDE DEF more
<1>10. s \in DOMAIN components /\ t \in DOMAIN components
    BY <1>9 DEF LinkOK, EndFindings
<1>11. /\ old \in DOMAIN scene /\ source \in DOMAIN scene
       /\ scene[old].tag = t /\ scene[source].tag = s
    BY <1>1, <1>10 DEF GraphOf, PairedOf
<1>12. ~IsPrefix(old, source)
    BY <1>6, <1>11 DEF IsStrictPrefix
<1> HIDE DEF s, t, old, source
<1>13. SceneShaped(scene) /\ ComponentsShaped(components)
    BY <1>1 DEF GraphOf
<1>14. new \in Seq(PathNames(scene)) /\ new # <<>> /\ Front(new) = source
    BY <1>3, <1>11, <1>13, BelowSource
<1>15. ASSUME NEW p \in DOMAIN scene
       PROVE  /\ to(p) \in Seq(ToSet(to(p))) /\ to(p) # <<>>
              /\ p = old => to(p) = new /\ Front(to(p)) = to(source)
              /\ p # old /\ Len(to(p)) > 1 => Len(p) > 1 /\ Front(to(p)) = to(Front(p))
    <2>1. /\ Moved(p, old, new) \in Seq(ToSet(Moved(p, old, new))) /\ Moved(p, old, new) # <<>>
          /\ p = old => /\ Moved(p, old, new) = new
                        /\ Front(Moved(p, old, new)) = Moved(source, old, new)
          /\ p # old /\ Len(Moved(p, old, new)) > 1 =>
                /\ Len(p) > 1
                /\ Front(Moved(p, old, new)) = Moved(Front(p), old, new)
        BY <1>11, <1>12, <1>13, <1>14, MovedPaths
    <2> QED
        BY <2>1
<1>16. /\ DOMAIN next = {to(p) : p \in DOMAIN scene} /\ next = [q \in DOMAIN next |-> next[q]]
       /\ \A q \in DOMAIN next : next[q] = [tag |-> next[q].tag, matrix |-> next[q].matrix]
    <2>1. \A q \in DOMAIN under : under[q] = [tag |-> under[q].tag, matrix |-> under[q].matrix]
        <3> SUFFICES ASSUME NEW q \in DOMAIN under
                     PROVE  under[q] = [tag |-> under[q].tag, matrix |-> under[q].matrix]
            OBVIOUS
        <3>1. PICK p \in DOMAIN scene : under[q] = scene[p]
            BY <1>8
        <3> QED
            BY <1>13, <3>1 DEF SceneShaped
    <2>2. /\ DOMAIN next = DOMAIN under /\ next = [q \in DOMAIN next |-> next[q]]
          /\ \A q \in DOMAIN next :
                next[q] = IF q = new THEN [under[q] EXCEPT !.matrix = "snapped"] ELSE under[q]
        BY <1>5, <1>8
    <2>3. ASSUME NEW q \in DOMAIN next
          PROVE  next[q] = [tag |-> next[q].tag, matrix |-> next[q].matrix]
        <3>1. CASE q = new
            <4> DEFINE prim == under[q]
            <4>1. prim = [tag |-> prim.tag, matrix |-> prim.matrix]
                BY <2>1, <2>2
            <4> HIDE DEF prim
            <4>2. [prim EXCEPT !.matrix = "snapped"] = [tag |-> prim.tag, matrix |-> "snapped"]
                BY <4>1
            <4>3. next[q] = [tag |-> prim.tag, matrix |-> "snapped"]
                BY <2>2, <3>1, <4>2 DEF prim
            <4> QED
                BY <4>3
        <3>2. CASE q # new
            BY <2>1, <2>2, <3>2
        <3> QED
            BY <3>1, <3>2
    <2> QED
        BY <1>8, <2>2, <2>3
\* Where a prim went, its instance went with it.
<1>17. ASSUME NEW p \in DOMAIN scene
       PROVE  to(p) \in DOMAIN next /\ next[to(p)].tag = scene[p].tag
    <2> DEFINE i == scene[p].tag
    <2>1. i \in DOMAIN components /\ components[i].prim = p
        BY <1>1 DEF GraphOf, PairedOf
    <2>2. others[i].prim = to(p)
        <3> DEFINE c == components[i]
        <3>1. c = ComponentOf(c.type, c.alias, c.adapter, c.variants, c.configuration,
                              c.calibrations, c.prim)
            BY <1>13, <2>1 DEF ComponentsShaped
        <3>2. others[i] = [c EXCEPT !.prim = to(p)]
            BY <1>4, <2>1
        <3> HIDE DEF c, to
        <3> QED
            BY <3>1, <3>2 DEF ComponentOf
    <2> QED
        BY <1>4, <1>7, <2>1, <2>2 DEF PairedOf
<1> HIDE DEF to
<1>18. ASSUME NEW q \in DOMAIN next, Len(q) > 1
       PROVE  /\ Front(q) \in DOMAIN next
              /\ \E l \in ToSet(more) : /\ l.kind = "mechanical"
                                        /\ l.from.component = next[Front(q)].tag
                                        /\ l.to.component = next[q].tag
    <2>1. PICK p \in DOMAIN scene : q = to(p)
        BY <1>16
    <2>2. CASE p = old
        <3>1. Front(q) = to(source)
            BY <1>15, <2>1, <2>2
        <3>2. next[Front(q)].tag = s /\ next[q].tag = t /\ Front(q) \in DOMAIN next
            BY <1>11, <1>17, <2>1, <2>2, <3>1
        <3> QED
            BY <1>9, <3>2 DEF s, t
    <2>3. CASE p # old
        <3>1. Len(p) > 1 /\ Front(q) = to(Front(p))
            BY <1>15, <1>18, <2>1, <2>3
        <3>2. Front(p) \in DOMAIN scene
            BY <1>13, <3>1 DEF SceneShaped
        <3>3. PICK l \in ToSet(links) : /\ l.kind = "mechanical"
                                        /\ l.from.component = scene[Front(p)].tag
                                        /\ l.to.component = scene[p].tag
            BY <1>1, <3>1 DEF GraphOf, SceneLinked
        <3>4. /\ Front(q) \in DOMAIN next /\ next[Front(q)].tag = scene[Front(p)].tag
              /\ next[q].tag = scene[p].tag
            BY <1>17, <2>1, <3>1, <3>2
        <3> QED
            BY <1>9, <3>3, <3>4
    <2> QED
        BY <2>2, <2>3
<1>19. SceneShaped(next)
    <2>1. \A q \in DOMAIN next : q \in Seq(ToSet(q)) /\ q # <<>>
        BY <1>15, <1>16
    <2> QED
        BY <1>16, <1>18, <2>1 DEF SceneShaped
<1>20. SceneLinked(more, next)
    BY <1>18 DEF SceneLinked
<1>21. /\ ComponentsShaped(others)
       /\ \A i \in DOMAIN components : others[i].type = components[i].type
    <2>1. ASSUME NEW i \in DOMAIN components
          PROVE  /\ others[i] = ComponentOf(others[i].type, others[i].alias, others[i].adapter,
                                            others[i].variants, others[i].configuration,
                                            others[i].calibrations, others[i].prim)
                 /\ others[i].type = components[i].type
        <3> DEFINE c == components[i]
                   place == to(c.prim)
        <3>1. c = ComponentOf(c.type, c.alias, c.adapter, c.variants, c.configuration,
                              c.calibrations, c.prim)
            BY <1>13 DEF ComponentsShaped
        <3>2. others[i] = [c EXCEPT !.prim = place]
            BY <1>4 DEF to
        <3> HIDE DEF c, place
        <3>3. others[i] = ComponentOf(c.type, c.alias, c.adapter, c.variants, c.configuration,
                                      c.calibrations, place)
            BY <3>1, <3>2 DEF ComponentOf
        <3> QED
            BY <3>3 DEF ComponentOf, c
    <2> QED
        BY <1>4, <2>1 DEF ComponentsShaped
<1>22. LinksOK(others, more)
    <2> SUFFICES ASSUME NEW n \in DOMAIN more PROVE LinkOK(others, more[n])
        BY <1>9 DEF LinksOK
    <2>1. LinkOK(components, more[n])
        BY <1>9 DEF LinksOK
    <2> QED
        BY <1>4, <1>21, <2>1, LinkStays
<1>23. GraphOf(others, more, next)
    BY <1>7, <1>9, <1>19, <1>20, <1>21, <1>22 DEF GraphOf
<1> QED
    BY <1>23 DEF others, more, next, links

\* What an edit makes of the components, the links and the scene.
LEMMA GraphOfBuffer ==
    ASSUME NEW c, NEW l, NEW r, NEW k, NEW scene, NEW files
    PROVE  Graph(BufferOf(CellOf(c, l, r, k), scene, files)) <=> GraphOf(c, l, scene)
BY BufferFields, CellFields DEF Graph

LEMMA PairedOfBuffer ==
    ASSUME NEW c, NEW l, NEW r, NEW k, NEW scene, NEW files
    PROVE  LET b == BufferOf(CellOf(c, l, r, k), scene, files)
           IN  Paired(b.cell, b.scene) <=> PairedOf(c, scene)
<1> DEFINE b == BufferOf(CellOf(c, l, r, k), scene, files)
<1>1. b.cell.components = c /\ b.scene = scene
    BY BufferFields, CellFields
<1>2. Paired(b.cell, b.scene) <=> PairedOf(b.cell.components, b.scene)
    BY PairedIs
<1> QED
    BY <1>1, <1>2

LEMMA WorkingGraph ==
    ASSUME Graphs, Open
    PROVE  Graph(working) /\ GraphOf(working.cell.components, working.cell.links, working.scene)
BY GraphIs DEF Graphs, Whole, Held, Open, Graph

\* An edit that makes a graph keeps the invariant.
LEMMA EditGraph ==
    ASSUME IInv, Graphs, Open, NEW b, NEW view, Graph(b), Edit(b, view)
    PROVE  Graphs'
<1> DEFINE step == [contents |-> working, shown |-> shown]
<1>1. /\ working' = b /\ undo' = Append(undo, step) /\ redo' = <<>>
    BY DEF Edit
<1>2. step.contents = working
    OBVIOUS
<1> HIDE DEF step
<1>3. ToSet(undo') = ToSet(undo) \cup {step} /\ ToSet(redo') = {}
    BY <1>1, Appended, Emptied DEF IInv
<1>4. Held' \subseteq Held \cup {b}
    BY <1>1, <1>2, <1>3 DEF Held
<1>5. Paired(b.cell, b.scene) /\ Nested(b) /\ Resolving(b)
    BY GraphIs
<1> QED
    BY <1>4, <1>5 DEF Graphs, Whole

LEMMA PlaceGraph ==
    ASSUME IInv, Graphs, PlaceComponent
    PROVE  Graphs'
<1>1. PICK i, type, alias, selection :
          /\ i \notin Known
          /\ Paired(Placed(i, type, alias, selection).cell, Placed(i, type, alias, selection).scene)
          /\ \E view : Edit(Placed(i, type, alias, selection), view)
    BY DEF PlaceComponent
<1>2. Open
    BY DEF PlaceComponent, Editable
<1>3. i \notin DOMAIN working.cell.components
    BY <1>1, <1>2 DEF Known, Buffers, Held, Open
<1> DEFINE components == PlacedComponents(i, Newcomer(i, type, alias, selection))
           scene == WithPrim(working.scene, i)
           b == Rearranged(components, working.cell.links, scene, NoFiles)
<1>4. Placed(i, type, alias, selection) = b
    BY <1>2, PlacedIs
<1>5. PairedOf(components, scene)
    <2> HIDE DEF components, scene
    <2> QED
        BY <1>1, <1>4, PairedOfBuffer DEF Rearranged
<1>6. GraphOf(components, working.cell.links, scene)
    BY <1>2, <1>3, <1>5, WorkingGraph, GraphPlaced
<1> HIDE DEF components, scene
<1>7. Graph(b)
    BY <1>6, GraphOfBuffer DEF Rearranged
<1> QED
    BY <1>1, <1>2, <1>4, <1>7, EditGraph

LEMMA RemoveGraph ==
    ASSUME IInv, Graphs, RemoveComponent
    PROVE  Graphs'
<1>1. PICK i \in DOMAIN working.cell.components, cascade \in BOOLEAN :
          /\ Incident(i) = {} \/ cascade
          /\ Paired(Removed(i, cascade).cell, Removed(i, cascade).scene)
          /\ \E view : Edit(Removed(i, cascade), view)
    BY DEF RemoveComponent
<1>2. Open
    BY DEF RemoveComponent, Editable
<1> DEFINE components == RemainingComponents(i)
           links == RemainingLinks(i, cascade)
           scene == WithoutPrim(working.scene, working.cell.components[i].prim)
           b == Rearranged(components, links, scene, NoFiles)
<1>3. Removed(i, cascade) = b
    BY <1>2, RemovedIs
<1>4. PairedOf(components, scene)
    <2> HIDE DEF components, links, scene
    <2> QED
        BY <1>1, <1>3, PairedOfBuffer DEF Rearranged
<1>5. GraphOf(components, links, scene)
    BY <1>1, <1>2, <1>4, WorkingGraph, GraphRemoved
<1> HIDE DEF components, links, scene
<1>6. Graph(b)
    BY <1>5, GraphOfBuffer DEF Rearranged
<1> QED
    BY <1>1, <1>2, <1>3, <1>6, EditGraph

LEMMA ConnectGraph ==
    ASSUME IInv, Graphs, ConnectPorts
    PROVE  Graphs'
<1>1. PICK link : /\ Resolves(link)
                  /\ link.kind = "mechanical" => ~SnapRefused(working.cell.components, working.scene, link)
                  /\ Paired(Connected(link).cell, Connected(link).scene)
                  /\ \E view : Edit(Connected(link), view)
    BY DEF ConnectPorts
<1>2. Open
    BY DEF ConnectPorts, Editable
<1>3. Graph(working)
    BY <1>2, WorkingGraph
<1> DEFINE links == Append(working.cell.links, link)
<1>4. CASE link.kind = "mechanical"
    <2> DEFINE components == SnappedComponents(link)
               scene == SnappedScene(link)
               b == Rearranged(components, links, scene, NoFiles)
    <2>1. Connected(link) = b
        BY <1>2, <1>4, ConnectedIs
    <2>2. PairedOf(components, scene)
        <3> HIDE DEF components, links, scene
        <3> QED
            BY <1>1, <2>1, PairedOfBuffer DEF Rearranged
    <2>3. GraphOf(components, links, scene)
        BY <1>1, <1>2, <1>3, <1>4, <2>2, GraphSnapped
    <2> HIDE DEF components, links, scene
    <2>4. Graph(b)
        BY <2>3, GraphOfBuffer DEF Rearranged
    <2> QED
        BY <1>1, <1>2, <2>1, <2>4, EditGraph
<1>5. CASE link.kind # "mechanical"
    <2> DEFINE b == Rearranged(working.cell.components, links, working.scene, NoFiles)
    <2>1. Connected(link) = b
        BY <1>2, <1>5, ConnectedIs
    <2>2. GraphOf(working.cell.components, links, working.scene)
        BY <1>1, <1>3, GraphLinked
    <2> HIDE DEF links
    <2>3. Graph(b)
        BY <2>2, GraphOfBuffer DEF Rearranged
    <2> QED
        BY <1>1, <1>2, <2>1, <2>3, EditGraph
<1> QED
    BY <1>4, <1>5

\* A component of another configuration, selection or calibration is of the same type, at the
\* same prim.
LEMMA ComponentChanged ==
    ASSUME Graphs, Open, NEW i \in DOMAIN working.cell.components, NEW component,
           component = ComponentOf(working.cell.components[i].type, component.alias,
                                   component.adapter, component.variants, component.configuration,
                                   component.calibrations, working.cell.components[i].prim)
    PROVE  GraphOf([working.cell.components EXCEPT ![i] = component], working.cell.links,
                   working.scene)
<1> DEFINE components == working.cell.components
           others == [components EXCEPT ![i] = component]
<1>1. GraphOf(components, working.cell.links, working.scene)
    BY WorkingGraph
<1>2. component.type = components[i].type /\ component.prim = components[i].prim
    BY DEF ComponentOf
<1>3. components = [j \in DOMAIN components |-> components[j]]
    BY <1>1 DEF GraphOf, ComponentsShaped
<1>4. /\ DOMAIN others = DOMAIN components /\ others = [j \in DOMAIN others |-> others[j]]
      /\ others[i] = component /\ \A j \in DOMAIN components : j # i => others[j] = components[j]
    BY <1>3
<1> HIDE DEF components, others
<1>5. \A j \in DOMAIN components : others[j].type = components[j].type
                                   /\ others[j].prim = components[j].prim
    BY <1>2, <1>4
<1>6. ComponentsShaped(others)
    <2> SUFFICES ASSUME NEW j \in DOMAIN others
                 PROVE  others[j] = ComponentOf(others[j].type, others[j].alias, others[j].adapter,
                                                others[j].variants, others[j].configuration,
                                                others[j].calibrations, others[j].prim)
        BY <1>4 DEF ComponentsShaped
    <2>1. CASE j = i
        BY <1>2, <1>4, <2>1 DEF components
    <2>2. CASE j # i
        BY <1>1, <1>4, <2>2 DEF GraphOf, ComponentsShaped
    <2> QED
        BY <2>1, <2>2
<1>7. /\ working.scene = [p \in DOMAIN working.scene |-> working.scene[p]]
      /\ \A p \in DOMAIN working.scene :
            working.scene[p] = [tag |-> working.scene[p].tag, matrix |-> working.scene[p].matrix]
    BY <1>1 DEF GraphOf, SceneShaped
<1>8. GraphOf(others, working.cell.links, working.scene)
    BY <1>1, <1>4, <1>5, <1>6, <1>7, GraphStays
<1> QED
    BY <1>8 DEF others, components

\* The component an edit starts from.
LEMMA ComponentShape ==
    ASSUME Graphs, Open, NEW i \in DOMAIN working.cell.components
    PROVE  LET c == Component(i)
           IN  c = ComponentOf(c.type, c.alias, c.adapter, c.variants, c.configuration,
                               c.calibrations, c.prim)
BY WorkingGraph DEF GraphOf, ComponentsShaped, Component

LEMMA ChangedIs ==
    ASSUME IInv, Open, NEW i, NEW component
    PROVE  Changed(i, component) =
               Rearranged([working.cell.components EXCEPT ![i] = component], working.cell.links,
                          working.scene, working.files)
<1> DEFINE components == [working.cell.components EXCEPT ![i] = component]
<1>1. Changed(i, component) = [working EXCEPT !.cell.components = components]
    BY DEF Changed
<1> HIDE DEF components
<1>2. Changed(i, component) =
          Rearranged(components, working.cell.links, working.scene, working.files)
    BY <1>1, WorkingShape, WithComponents DEF Rearranged
<1> QED
    BY <1>2 DEF components

LEMMA ComponentGraph ==
    ASSUME IInv, Graphs, SetConfiguration \/ SetVariants
    PROVE  Graphs'
<1>1. Open
    BY DEF SetConfiguration, SetVariants, PairEditable, Editable
<1>2. ASSUME NEW i \in DOMAIN working.cell.components, NEW component, NEW view,
             component = ComponentOf(Component(i).type, component.alias, component.adapter,
                                     component.variants, component.configuration,
                                     component.calibrations, Component(i).prim),
             Edit(Changed(i, component), view)
      PROVE  Graphs'
    <2> DEFINE components == [working.cell.components EXCEPT ![i] = component]
    <2>1. GraphOf(components, working.cell.links, working.scene)
        BY <1>1, <1>2, ComponentChanged DEF Component
    <2>2. Changed(i, component) =
              Rearranged(components, working.cell.links, working.scene, working.files)
        BY <1>1, ChangedIs
    <2> HIDE DEF components
    <2>3. Graph(Changed(i, component))
        BY <2>1, <2>2, GraphOfBuffer DEF Rearranged
    <2> QED
        BY <1>1, <1>2, <2>3, EditGraph
<1>3. CASE SetConfiguration
    <2>1. PICK i \in DOMAIN working.cell.components : \E value :
              Edit(Changed(i, [Component(i) EXCEPT !.configuration = value]), shown)
        BY <1>3 DEF SetConfiguration
    <2>2. PICK value : Edit(Changed(i, [Component(i) EXCEPT !.configuration = value]), shown)
        BY <2>1
    <2> DEFINE c == Component(i)
               component == [c EXCEPT !.configuration = value]
    <2>3. c = ComponentOf(c.type, c.alias, c.adapter, c.variants, c.configuration,
                          c.calibrations, c.prim)
        BY <1>1, ComponentShape
    <2>4. Edit(Changed(i, component), shown)
        BY <2>2
    <2> HIDE DEF c
    <2>5. component = ComponentOf(c.type, c.alias, c.adapter, c.variants, value,
                                  c.calibrations, c.prim)
        BY <2>3 DEF ComponentOf
    <2> HIDE DEF component
    <2>6. component = ComponentOf(c.type, component.alias, component.adapter,
                                  component.variants, component.configuration,
                                  component.calibrations, c.prim)
        BY <2>5 DEF ComponentOf
    <2> QED
        BY <1>2, <2>4, <2>6 DEF c
<1>4. CASE SetVariants
    <2>1. PICK i \in DOMAIN working.cell.components : \E selection :
              Edit(Changed(i, [Component(i) EXCEPT !.variants = selection]), shown)
        BY <1>4 DEF SetVariants
    <2>2. PICK selection : Edit(Changed(i, [Component(i) EXCEPT !.variants = selection]), shown)
        BY <2>1
    <2> DEFINE c == Component(i)
               component == [c EXCEPT !.variants = selection]
    <2>3. c = ComponentOf(c.type, c.alias, c.adapter, c.variants, c.configuration,
                          c.calibrations, c.prim)
        BY <1>1, ComponentShape
    <2>4. Edit(Changed(i, component), shown)
        BY <2>2
    <2> HIDE DEF c
    <2>5. component = ComponentOf(c.type, c.alias, c.adapter, selection, c.configuration,
                                  c.calibrations, c.prim)
        BY <2>3 DEF ComponentOf
    <2> HIDE DEF component
    <2>6. component = ComponentOf(c.type, component.alias, component.adapter,
                                  component.variants, component.configuration,
                                  component.calibrations, c.prim)
        BY <2>5 DEF ComponentOf
    <2> QED
        BY <1>2, <2>4, <2>6 DEF c
<1> QED
    BY <1>3, <1>4

LEMMA TransformGraph ==
    ASSUME IInv, Graphs, SetTransform
    PROVE  Graphs'
<1>1. Open
    BY DEF SetTransform, PairEditable, Editable
<1>2. PICK i \in DOMAIN working.cell.components :
          Edit([working EXCEPT !.scene = WithTransform(@, Component(i).prim, "moved")], shown)
    BY DEF SetTransform
<1> DEFINE components == working.cell.components
           links == working.cell.links
           scene == working.scene
           prim == Component(i).prim
           next == WithTransform(scene, prim, "moved")
<1>3. GraphOf(components, links, scene)
    BY <1>1, WorkingGraph
<1>4. prim \in DOMAIN scene
    BY <1>3 DEF GraphOf, PairedOf, Component
<1>5. [working EXCEPT !.scene = next] = Rearranged(components, links, next, working.files)
    <2> HIDE DEF next
    <2> QED
        BY <1>1, WorkingShape, BufferFields DEF Rearranged
<1> HIDE DEF prim, components, links, scene
<1>6. /\ scene = [p \in DOMAIN scene |-> scene[p]]
      /\ \A p \in DOMAIN scene : scene[p] = [tag |-> scene[p].tag, matrix |-> scene[p].matrix]
    BY <1>3 DEF GraphOf, SceneShaped
<1>7. /\ DOMAIN next = DOMAIN scene /\ next = [p \in DOMAIN next |-> next[p]]
      /\ \A p \in DOMAIN scene :
            next[p] = IF p = prim THEN [scene[p] EXCEPT !.matrix = "moved"] ELSE scene[p]
    BY <1>6 DEF WithTransform
<1>8. \A p \in DOMAIN scene : /\ next[p] = [tag |-> next[p].tag, matrix |-> next[p].matrix]
                              /\ next[p].tag = scene[p].tag
    <2> SUFFICES ASSUME NEW p \in DOMAIN scene
                 PROVE  /\ next[p] = [tag |-> next[p].tag, matrix |-> next[p].matrix]
                        /\ next[p].tag = scene[p].tag
        OBVIOUS
    <2> DEFINE old == scene[p]
    <2>1. old = [tag |-> old.tag, matrix |-> old.matrix]
        BY <1>6
    <2>2. next[p] = IF p = prim THEN [old EXCEPT !.matrix = "moved"] ELSE old
        BY <1>7
    <2>3. CASE p = prim
        <3> HIDE DEF old
        <3>1. [old EXCEPT !.matrix = "moved"] = [tag |-> old.tag, matrix |-> "moved"]
            BY <2>1
        <3>2. next[p] = [tag |-> old.tag, matrix |-> "moved"]
            BY <2>2, <2>3, <3>1
        <3>3. next[p].tag = old.tag /\ next[p] = [tag |-> next[p].tag, matrix |-> next[p].matrix]
            BY <3>2
        <3> QED
            BY <3>3 DEF old
    <2>4. CASE p # prim
        BY <2>1, <2>2, <2>4
    <2> QED
        BY <2>3, <2>4
<1> HIDE DEF next
<1>9. ComponentsShaped(components)
    BY <1>3 DEF GraphOf
<1>10. GraphOf(components, links, next)
    BY <1>3, <1>7, <1>8, <1>9, GraphStays
<1>11. Graph([working EXCEPT !.scene = next])
    BY <1>5, <1>10, GraphOfBuffer DEF Rearranged
<1>12. Edit([working EXCEPT !.scene = next], shown)
    BY <1>2 DEF next, scene, prim
<1> QED
    BY <1>1, <1>11, <1>12, EditGraph

LEMMA CalibrationGraph ==
    ASSUME IInv, Graphs, BindCalibration
    PROVE  Graphs'
<1>1. Open
    BY DEF BindCalibration, PairEditable, Editable
<1>2. PICK i \in DOMAIN working.cell.components, file \in CalibrationFiles :
          \E calibration : Edit(WithCalibration(i, file, calibration), shown)
    BY DEF BindCalibration
<1>3. PICK calibration : Edit(WithCalibration(i, file, calibration), shown)
    BY <1>2
<1> DEFINE c == Component(i)
           component == [c EXCEPT !.calibrations = @ \cup {file}]
           components == CalibratedComponents(i, file)
<1>4. c = ComponentOf(c.type, c.alias, c.adapter, c.variants, c.configuration,
                      c.calibrations, c.prim)
    BY <1>1, ComponentShape
<1>5. components = [working.cell.components EXCEPT ![i] = component]
    BY DEF CalibratedComponents
<1>6. c = working.cell.components[i]
    BY DEF Component
<1> HIDE DEF c, components
<1>7. component = ComponentOf(c.type, c.alias, c.adapter, c.variants, c.configuration,
                              c.calibrations \cup {file}, c.prim)
    BY <1>4, SMTT(40) DEF ComponentOf
<1> HIDE DEF component
<1>8. component = ComponentOf(c.type, component.alias, component.adapter, component.variants,
                              component.configuration, component.calibrations, c.prim)
    BY <1>7 DEF ComponentOf
<1>9. GraphOf(components, working.cell.links, working.scene)
    BY <1>1, <1>5, <1>6, <1>8, ComponentChanged
<1>10. WithCalibration(i, file, calibration) =
           Staging(components, working.cell.recipes, working.cell.calibrations \cup {file}, file,
                   calibration)
    BY <1>1, WithCalibrationIs DEF components
<1>11. Graph(WithCalibration(i, file, calibration))
    BY <1>9, <1>10, GraphOfBuffer DEF Staging
<1> QED
    BY <1>1, <1>3, <1>11, EditGraph

\* What is staged for a task or a recipe concerns no graph.
LEMMA StagingGraph ==
    ASSUME IInv, Graphs,
           SetTaskTree \/ EditRecipe \/ CreateRecipeVersion \/ TransitionRecipe
    PROVE  Graphs'
<1>1. Open
    BY DEF SetTaskTree, EditRecipe, CreateRecipeVersion, TransitionRecipe, Editable
<1>2. ASSUME NEW recipes, NEW file, NEW content, NEW view,
             Edit(Staging(working.cell.components, recipes, working.cell.calibrations, file,
                          content), view)
      PROVE  Graphs'
    <2>1. Graph(Staging(working.cell.components, recipes, working.cell.calibrations, file, content))
        BY <1>1, WorkingGraph, GraphOfBuffer DEF Staging
    <2> QED
        BY <1>1, <1>2, <2>1, EditGraph
<1>3. ASSUME NEW file, NEW content, NEW view, Edit([working EXCEPT !.files[file] = content], view)
      PROVE  Graphs'
    BY <1>1, <1>2, <1>3, StagedFile
<1>4. CASE SetTaskTree
    <2>1. \E file, content : Edit([working EXCEPT !.files[file] = content], shown)
        BY <1>4 DEF SetTaskTree
    <2> QED
        BY <1>3, <2>1
<1>5. CASE EditRecipe
    <2>1. \E file, content, view : Edit([working EXCEPT !.files[file] = content], view)
        BY <1>5 DEF EditRecipe
    <2> QED
        BY <1>3, <2>1
<1>6. CASE CreateRecipeVersion
    <2>1. \E recipes, file, content, view :
              Edit([working EXCEPT !.cell.recipes = recipes, !.files[file] = content], view)
        BY <1>6 DEF CreateRecipeVersion
    <2> QED
        <3>1. PICK recipes, file, content, view :
                  Edit([working EXCEPT !.cell.recipes = recipes, !.files[file] = content], view)
            BY <2>1
        <3>2. Edit(Staging(working.cell.components, recipes, working.cell.calibrations, file,
                           content), view)
            BY <1>1, <3>1, StagedVersion
        <3> QED
            BY <1>2, <3>2
<1>7. CASE TransitionRecipe
    <2>1. \E file, content, view : Edit([working EXCEPT !.files[file] = content], view)
        BY <1>7 DEF TransitionRecipe
    <2> QED
        BY <1>3, <2>1
<1> QED
    BY <1>4, <1>5, <1>6, <1>7

LEMMA HistoryGraph ==
    ASSUME IInv, Graphs, Undo \/ Redo
    PROVE  Graphs'
<1> DEFINE step == [contents |-> working, shown |-> shown]
<1>0. step.contents = working
    OBVIOUS
<1> HIDE DEF step
<1>2. CASE Undo
    <2>1. /\ undo # <<>> /\ working' = Last(undo).contents /\ undo' = Front(undo)
          /\ redo' = Append(redo, step)
        BY <1>2 DEF Undo, step
    <2>2. /\ Last(undo) \in ToSet(undo) /\ ToSet(undo') \subseteq ToSet(undo)
          /\ ToSet(redo') = ToSet(redo) \cup {step}
        BY <2>1, Fronted, Appended DEF IInv
    <2>3. Held' \subseteq Held
        BY <1>0, <2>1, <2>2 DEF Held
    <2> QED
        BY <2>3 DEF Graphs
<1>3. CASE Redo
    <2>1. /\ redo # <<>> /\ working' = Last(redo).contents /\ redo' = Front(redo)
          /\ undo' = Append(undo, step)
        BY <1>3 DEF Redo, step
    <2>2. /\ Last(redo) \in ToSet(redo) /\ ToSet(redo') \subseteq ToSet(redo)
          /\ ToSet(undo') = ToSet(undo) \cup {step}
        BY <2>1, Fronted, Appended DEF IInv
    <2>3. Held' \subseteq Held
        BY <1>0, <2>1, <2>2 DEF Held
    <2> QED
        BY <2>3 DEF Graphs
<1> QED
    BY <1>2, <1>3

\* What is opened or saved is paired; it is all that the session then holds.
LEMMA FileGraph ==
    ASSUME IInv, OpenProject \/ SaveProject
    PROVE  GraphIInv'
<1>1. /\ working' = saved' /\ undo' = <<>> /\ redo' = <<>>
      /\ working' # None => Paired(working'.cell, working'.scene)
    <2>1. CASE OpenProject
        BY <2>1 DEF OpenProject, Load, Valid
    <2>2. CASE SaveProject
        BY <2>2 DEF SaveProject, Load, Valid
    <2> QED
        BY <2>1, <2>2
<1>2. Held' = {working'}
    BY <1>1, Emptied DEF Held
<1>3. PICK w : w = working'
    OBVIOUS
<1>4. Whole(saved)' => Whole(w)
    BY <1>1, <1>3 DEF Whole, Nested, Resolving
<1>5. w # None => Paired(w.cell, w.scene)
    BY <1>1, <1>3
<1>6. ASSUME Whole(saved)', NEW b \in Held' \ {None}
      PROVE  Paired(b.cell, b.scene) /\ Whole(b)
    BY <1>2, <1>3, <1>4, <1>5, <1>6
<1>7. Whole(saved)' => Graphs'
    BY <1>6 DEF Graphs, Whole, Nested, Resolving, Paired
<1> QED
    BY <1>7 DEF GraphIInv

\* While nothing is typed, every graph the session holds stays whole.
LEMMA GraphStep == IInv /\ GraphIInv /\ [Next]_vars => GraphIInv'
<1> SUFFICES ASSUME IInv, GraphIInv, [Next]_vars PROVE GraphIInv'
    OBVIOUS
<1>1. CASE OpenProject \/ SaveProject
    BY <1>1, FileGraph
<1>2. CASE Typing
    BY <1>2 DEF Typing, EditCellYaml, EditSceneUsda, Type, GraphIInv
<1>3. CASE Editing \/ Undo \/ Redo \/ Tick \/ UNCHANGED vars
    <2>1. saved' = saved /\ typed' = typed
        BY <1>3, ZenonT(60) DEF Editing, Edit, PlaceComponent, RemoveComponent, ConnectPorts, SetTransform,
               SetConfiguration, SetVariants, BindCalibration, SetTaskTree, EditRecipe,
               CreateRecipeVersion, TransitionRecipe, Undo, Redo, Tick, vars
    <2>2. CASE Editing \/ Undo \/ Redo
        <3>1. Open
            BY <2>2, ZenonT(60) DEF Editing, PairEditable, Editable, PlaceComponent, RemoveComponent,
                   ConnectPorts, SetTransform, SetConfiguration, SetVariants, BindCalibration,
                   SetTaskTree, EditRecipe, CreateRecipeVersion, TransitionRecipe, Undo, Redo
        <3>2. Graphs => Graphs'
            BY <2>2, PlaceGraph, RemoveGraph, ConnectGraph, TransformGraph, ComponentGraph,
               CalibrationGraph, StagingGraph, HistoryGraph DEF Editing
        <3>3. Whole(saved)' <=> Whole(saved)
            BY <2>1 DEF Whole, Nested, Resolving
        <3> QED
            BY <2>1, <3>1, <3>2, <3>3 DEF GraphIInv
    <2>3. CASE Tick \/ UNCHANGED vars
        <3>1. UNCHANGED <<working, saved, undo, redo, typed>>
            BY <2>3 DEF Tick, vars
        <3>2. Held' = Held /\ (Open' <=> Open)
            BY <3>1 DEF Held, Open
        <3>3. Whole(saved)' <=> Whole(saved)
            BY <3>1 DEF Whole, Nested, Resolving
        <3>4. Graphs => Graphs'
            BY <3>2 DEF Graphs, Whole, Nested, Resolving, Paired
        <3> QED
            BY <3>1, <3>2, <3>3, <3>4 DEF GraphIInv
    <2> QED
        BY <1>3, <2>2, <2>3
<1> QED
    BY <1>1, <1>2, <1>3 DEF Next

\* If the buffers a session loaded resolve, then so does every graph it edits from there and
\* goes back to, until a document is typed over: the resolver is asked of the new link only, and
\* nothing else asks it.
THEOREM EditedGraphsResolve == StudioSpec => []GraphResolves
<1>1. Init => GraphIInv
    BY DEF Init, GraphIInv, Open
<1>2. GraphIInv => GraphResolves
    BY DEF GraphIInv, GraphResolves, Graphs, Whole, Held, Open
<1>3. Spec => []GraphIInv
    BY <1>1, GraphStep, Invariance, PTL DEF Spec
<1> QED
    BY <1>2, <1>3, StudioRefines, PTL
=============================================================================
