--------------------------- MODULE CellDocuments ---------------------------
(***************************************************************************)
(* What a Studio session edits: the cell, the scene paired with it and the *)
(* artifacts staged beside them - behaviour trees, recipes, calibrations.  *)
(* One action per service operation of the editors; an operation that the  *)
(* service rejects is no step.  Either document may also be typed over, by *)
(* any text.  The save is one step here: StudioProject has its journal,    *)
(* and the other tools that edit the directory.                            *)
(***************************************************************************)
EXTENDS CellResolver, SequencesExt, Functions

CONSTANTS Instances,    \* the instance IDs that can be minted
          Aliases, LinkIds,
          Tasks,        \* the tasks of the cell: [id, capabilities, tree], tree a file
          DefaultTree,  \* behavior_tree.xml
          Builtin,      \* node type -> its ports [name, direction, required]
          Plugins,      \* plugin manifests: [readable, nodes]
          Seeded,       \* the blackboard keys the runtime seeds
          Trees,        \* the task trees an engineer may enter
          RecipePath(_, _), \* the file of a version of a recipe
          Entries,      \* what may be entered for a recipe: [status, evidence, body],
                        \* a body being [capabilities, sound]
          Overrides,    \* what a caller lays over a new version: any of its fields
          CalibrationFiles, Lifetimes, \* calibrations: files, instants they hold until
          CellTexts, SceneTexts, \* what may be typed over either document
          Absent,
          Starters,     \* the projects a session may open
          MaxEdits, MaxTime, MaxVersion \* bounds

Statuses == {"DRAFT", "VALIDATED", "TESTED", "APPROVED", "RETIRED"}

TreeFiles == {DefaultTree} \cup {Tasks[n].tree : n \in DOMAIN Tasks}
RecipeFiles(project) == DOMAIN project.files \ (TreeFiles \cup CalibrationFiles)
Stored(project) == {f \in RecipeFiles(project) : project.files[f] # Absent}
StoredIds == UNION {{project.files[f].id : f \in Stored(project)} : project \in Starters}
GivenIds == {o.id : o \in {p \in Overrides : "id" \in DOMAIN p}}
RecipeIds == StoredIds \cup GivenIds

IsRecipe(r) ==
    /\ r = [id |-> r.id, version |-> r.version, status |-> r.status, evidence |-> r.evidence,
            body |-> r.body]
    /\ r.id \in RecipeIds /\ r.version \in 1..MaxVersion /\ r.evidence \in BOOLEAN

IsCell(cell, recipeFiles) ==
    /\ cell = [components |-> cell.components, links |-> cell.links,
               recipes |-> cell.recipes, calibrations |-> cell.calibrations]
    /\ cell.recipes \in Seq(recipeFiles) /\ cell.calibrations \subseteq CalibrationFiles

\* The cell, the scene and the files; what a file may hold follows from its place.
IsProject(p) ==
    /\ p = [cell |-> p.cell, scene |-> p.scene, files |-> p.files]
    /\ IsCell(p.cell, RecipeFiles(p))
    /\ p.files = [f \in DOMAIN p.files |-> p.files[f]]
    /\ \A f \in TreeFiles : p.files[f] = Absent \/ p.files[f] = [nodes |-> p.files[f].nodes]
    /\ \A f \in CalibrationFiles : p.files[f] # Absent => p.files[f].until \in Nat
    /\ \A f \in Stored(p) : IsRecipe(p.files[f])

ASSUME BoundsAssumption == Lifetimes \subseteq Nat /\ MaxVersion \in Nat
ASSUME EntriesAssumption == \A entry \in Entries : entry.evidence \in BOOLEAN
ASSUME FilesAssumption == Tasks \in Seq(ToSet(Tasks)) /\ TreeFiles \cap CalibrationFiles = {}

ASSUME StartersAssumption ==
    \A s \in Starters :
        /\ IsProject(s)
        /\ TreeFiles \cup CalibrationFiles \subseteq DOMAIN s.files
        /\ \A text \in CellTexts : IsCell(text, RecipeFiles(s))

ASSUME OverridesAssumption ==
    \A o \in Overrides :
        /\ "version" \in DOMAIN o => o.version \in 1..MaxVersion
        /\ "evidence" \in DOMAIN o => o.evidence \in BOOLEAN

ASSUME RecipePathAssumption ==
    \A id, other \in RecipeIds, v, w \in 1..MaxVersion :
        /\ \A s \in Starters : RecipePath(id, v) \in RecipeFiles(s)
        /\ RecipePath(id, v) = RecipePath(other, w) => id = other /\ v = w

VARIABLES
    disk,    \* the project directory: [cell, scene, files]
    working, \* the buffers: [cell, scene, files], files being the staged ones
    saved,   \* the buffers last opened or saved
    undo, redo,
    shown,   \* of the snapshot: the counts and the edges of the graph
    now,     \* the clock
    edits,   \* used up
    typed    \* the documents that were typed over since the buffers were loaded

vars == <<disk, working, saved, undo, redo, shown, now, edits, typed>>

Files == DOMAIN disk.files
NoFiles == [f \in Files |-> Absent]
Open == working # None

-----------------------------------------------------------------------------
\* The scene: a prim per path, a path being the instances from the outermost
\* one to its own; [tag, matrix].

\* Both documents name the same instances at the same prims.
Paired(cell, scene) ==
    /\ DOMAIN cell.components # {}
    /\ \A i \in DOMAIN cell.components :
          /\ cell.components[i].prim \in DOMAIN scene
          /\ scene[cell.components[i].prim].tag = i
    /\ \A p, q \in DOMAIN scene : scene[p].tag = scene[q].tag => p = q
    /\ \A p \in DOMAIN scene : scene[p].tag \in DOMAIN cell.components

Moved(path, old, new) ==
    IF IsPrefix(old, path) THEN new \o SubSeq(path, Len(old) + 1, Len(path)) ELSE path

\* A prim moves with all that is below it.
Reparented(scene, old, new) ==
    [path \in {Moved(p, old, new) : p \in DOMAIN scene} |->
        scene[CHOOSE p \in DOMAIN scene : Moved(p, old, new) = path]]

\* The block of a prim, between its braces: the prim and all below it.
Block(scene, path) == {p \in DOMAIN scene : IsPrefix(path, p)}

WithPrim(scene, i) ==
    [p \in DOMAIN scene \cup {<<i>>} |->
        IF p \in DOMAIN scene THEN scene[p] ELSE [tag |-> i, matrix |-> "identity"]]
WithoutPrim(scene, path) == Restrict(scene, DOMAIN scene \ Block(scene, path))
WithTransform(scene, path, matrix) == [scene EXCEPT ![path].matrix = matrix]

-----------------------------------------------------------------------------
\* Behaviour trees: sets of nodes [type, ports, retried]; ports map a name to
\* a key, to a plain value or to a malformed mapping.

\* A plugin manifest read later replaces the type.
NodeSpecs ==
    LET readable == {n \in DOMAIN Plugins : Plugins[n].readable}
        Plugged(type) == {n \in readable : type \in DOMAIN Plugins[n].nodes}
    IN  [type \in DOMAIN Builtin \cup (UNION {DOMAIN Plugins[n].nodes : n \in readable}) |->
            IF Plugged(type) = {} THEN Builtin[type] ELSE Plugins[Max(Plugged(type))].nodes[type]]

NodePorts(type) == IF type \in DOMAIN NodeSpecs THEN NodeSpecs[type] ELSE None

Declared(node, name) == CHOOSE p \in NodePorts(node.type) : p.name = name
Declares(node, name) == \E p \in NodePorts(node.type) : p.name = name

\* The keys some node of the tree writes, wherever it stands.
ProducedKeys(tree) ==
    {key \in UNION {{n.ports[p].key : p \in DOMAIN n.ports} : n \in tree} :
        \E n \in tree : \E p \in DOMAIN n.ports :
            /\ n.ports[p] = [kind |-> "key", key |-> key]
            /\ NodePorts(n.type) # None /\ Declares(n, p)
            /\ Declared(n, p).direction # "input"}

MappingValid(tree, node, name) ==
    LET value == node.ports[name]
        direction == Declared(node, name).direction
    IN  /\ value.kind # "malformed"
        /\ direction # "input" => value.kind = "key"
        /\ value.kind = "key" /\ direction # "output"
           => value.key \in Seeded \cup ProducedKeys(tree)

NodeValid(tree, node) ==
    /\ NodePorts(node.type) # None
    /\ \A name \in DOMAIN node.ports : Declares(node, name) /\ MappingValid(tree, node, name)
    /\ \A p \in NodePorts(node.type) : p.required => p.name \in DOMAIN node.ports

\* A process step is never repeated automatically.
TreeValid(tree) ==
    /\ \A node \in tree : NodeValid(tree, node)
    /\ ~\E node \in tree : node.type = "ExecuteProcess" /\ node.retried

TreeFile(task) ==
    LET found == {i \in DOMAIN Tasks : Tasks[i].id = task}
    IN  IF found = {} THEN DefaultTree ELSE Tasks[Min(found)].tree

-----------------------------------------------------------------------------
\* Recipes.

\* A staged artifact hides the file of the project.
Source(contents, file) ==
    IF contents.files[file] # Absent THEN contents.files[file] ELSE disk.files[file]

Summaries(contents) ==
    {file \in ToSet(contents.cell.recipes) : Source(contents, file) # Absent}

Versions(contents, id) ==
    {file \in Summaries(contents) : Source(contents, file).id = id}

\* The version the editor finds: the first that is bound.
Version(contents, id, version) ==
    LET found == {n \in DOMAIN contents.cell.recipes :
                    LET file == contents.cell.recipes[n]
                    IN  /\ file \in Versions(contents, id)
                        /\ Source(contents, file).version = version}
    IN  IF found = {} THEN None ELSE contents.cell.recipes[Min(found)]

RecipeValid(cell, recipe) ==
    recipe.body.sound /\ recipe.body.capabilities \subseteq Provided(cell.components)

\* APPROVED and RETIRED versions are not edited.
ImmutableRetired(recipe) == recipe.status = "RETIRED" \* mutant
Immutable(recipe) == recipe.status \in {"APPROVED", "RETIRED"}

Transitions(status) ==
    CASE status = "DRAFT" -> {"VALIDATED"}
      [] status = "VALIDATED" -> {"DRAFT", "TESTED"}
      [] status = "TESTED" -> {"DRAFT", "APPROVED"}
      [] status = "APPROVED" -> {"RETIRED"}
      [] OTHER -> {}

-----------------------------------------------------------------------------
\* Calibrations: [owner, until, data].

Expired(calibration) == calibration.until <= now

\* Every declared calibration is staged, bound both ways and unexpired.
CalibrationsValid(contents) ==
    LET cell == contents.cell
        Bound(file) ==
            LET c == contents.files[file]
            IN  /\ c # Absent
                /\ c.owner \in DOMAIN cell.components
                /\ file \in cell.components[c.owner].calibrations
                /\ ~Expired(c)
    IN  /\ \A file \in cell.calibrations : Bound(file)
        /\ \A i \in DOMAIN cell.components : cell.components[i].calibrations \subseteq cell.calibrations
        /\ \A file \in CalibrationFiles \ cell.calibrations : contents.files[file] = Absent

-----------------------------------------------------------------------------
\* The verdict on a project, and what opening loads of it.

TasksValid(contents) ==
    \A n \in DOMAIN Tasks :
        LET source == Source(contents, Tasks[n].tree)
        IN  source # Absent /\ TreeValid(source.nodes)

RecipesValid(contents) ==
    \A n \in DOMAIN contents.cell.recipes :
        LET source == Source(contents, contents.cell.recipes[n])
        IN  source # Absent /\ RecipeValid(contents.cell, source)

Valid(contents) ==
    /\ Paired(contents.cell, contents.scene)
    /\ CalibrationsValid(contents)
    /\ TasksValid(contents)
    /\ RecipesValid(contents)

\* Opening loads the pair and the calibrations the cell declares.
Loaded ==
    [disk EXCEPT !.files = [f \in Files |-> IF f \in disk.cell.calibrations
                                            THEN disk.files[f] ELSE Absent]]

WrittenPair(contents) == [contents EXCEPT !.files = disk.files] \* mutant
Written(contents) == [contents EXCEPT !.files = [f \in Files |-> Source(contents, f)]]

Shown(contents) ==
    [components |-> Cardinality(DOMAIN contents.cell.components),
     connections |-> Len(contents.cell.links),
     recipes |-> Len(contents.cell.recipes),
     edges |-> ToSet(contents.cell.links)]

Init ==
    /\ disk \in Starters
    /\ working = None /\ saved = None
    /\ undo = <<>> /\ redo = <<>>
    /\ shown = [components |-> 0, connections |-> 0, recipes |-> 0, edges |-> {}]
    /\ now = 0 /\ edits = 0 /\ typed = {}

-----------------------------------------------------------------------------
\* Edits.  Each takes the buffers and what is shown of them into the history.

Editable == Open /\ edits < MaxEdits

Edit(contents, view) ==
    /\ edits' = edits + 1
    /\ undo' = Append(undo, [contents |-> working, shown |-> shown])
    /\ redo' = <<>>
    /\ working' = contents
    /\ shown' = view
    /\ UNCHANGED <<disk, saved, now, typed>>

\* What the session may come back to.
Held == {working} \cup {h.contents : h \in ToSet(undo) \cup ToSet(redo)}
Buffers == {disk} \cup Held

\* The instances some buffer, some step of the history or the disk knows.
Known ==
    LET open == Buffers \ {None}
        owners == {d \in {c.files[f] : c \in open, f \in CalibrationFiles} : d # Absent}
    IN  (UNION {DOMAIN c.cell.components \cup {c.scene[p].tag : p \in DOMAIN c.scene} : c \in open})
        \cup {d.owner : d \in owners}

\* What may be asked for: the choices of any package.
Selections == UNION {Package(type).variants : type \in Registered}

\* One value of every variant set the package declares, and no other.
VariantsAccepted(type, selection) == selection \in Package(type).variants

Placeable(type, alias, selection) ==
    /\ Package(type) # None
    /\ \A j \in DOMAIN working.cell.components : working.cell.components[j].alias # alias
    /\ VariantsAccepted(type, selection)
    /\ Package(type).asset

\* A placed component stands alone in the scene: the pair is all there is of the new buffers.
Placed(i, type, alias, selection) ==
    LET component == [type |-> type, alias |-> alias, adapter |-> "target_selected",
                      variants |-> selection, configuration |-> None,
                      calibrations |-> {}, prim |-> <<i>>]
        components == working.cell.components
    IN  [cell |-> [working.cell EXCEPT !.components =
                      [j \in DOMAIN components \cup {i} |->
                          IF j \in DOMAIN components THEN components[j] ELSE component]],
         scene |-> WithPrim(working.scene, i), files |-> NoFiles]

PlaceComponent ==
    /\ Editable
    /\ DOMAIN working.cell.components # {}
    /\ \E i \in Instances \ Known, type \in Registered, alias \in Aliases,
          selection \in Selections :
        LET placed == Placed(i, type, alias, selection)
        IN  /\ Placeable(type, alias, selection)
            /\ Paired(placed.cell, placed.scene)
            /\ Edit(placed, [shown EXCEPT !.components = @ + 1,
                                          !.edges = ToSet(placed.cell.links)])

TouchesSource(link, i) == link.from.component = i \* mutant
Touches(link, i) == i \in {link.from.component, link.to.component}

Incident(i) == {n \in DOMAIN working.cell.links : Touches(working.cell.links[n], i)}

\* The links that are left, in their order.
Others(i) ==
    FoldLeft(LAMBDA kept, l : IF Touches(l, i) THEN kept ELSE Append(kept, l),
             <<>>, working.cell.links)

\* The prim goes with all that is below it, and with the cascade the links that touch the
\* instance.  Its calibrations stay declared.
Removed(i, cascade) ==
    LET cell == working.cell
    IN  [cell |-> [cell EXCEPT !.components = Restrict(@, DOMAIN @ \ {i}),
                               !.links = IF cascade THEN Others(i) ELSE @],
         scene |-> WithoutPrim(working.scene, cell.components[i].prim), files |-> NoFiles]

\* The linked scene must still name the rest.
RemoveComponent ==
    /\ Editable
    /\ \E i \in DOMAIN working.cell.components, cascade \in BOOLEAN :
        LET rest == Removed(i, cascade)
        IN  /\ Incident(i) = {} \/ cascade
            /\ Paired(rest.cell, rest.scene)
            /\ Edit(rest, [shown EXCEPT
                        !.components = @ - 1,
                        !.connections = @ - Cardinality(Incident(i)),
                        !.edges = ToSet(rest.cell.links)])

\* Where a snap puts the prim of the target: below that of the source.
SnappedPrim(components, link) ==
    Append(components[link.from.component].prim, Last(components[link.to.component].prim))

\* A snap needs the frames of both ports and the prims of both components, a free place
\* for the one that moves, and no prim goes below itself.
SnapRefused(components, scene, link) ==
    LET source == Port(components, link.kind, link.from)
        target == Port(components, link.kind, link.to)
        below == components[link.from.component].prim
        old == components[link.to.component].prim
        new == SnappedPrim(components, link)
    IN  \/ link.from.component = link.to.component
        \/ source.frame = "none" \/ target.frame \in {"none", "singular"}
        \/ below \notin DOMAIN scene \/ old \notin DOMAIN scene
        \/ new \in DOMAIN scene /\ new # old
        \/ IsStrictPrefix(old, below)

\* The target's prim, with all below it, moves under the source's.
Snap(contents, link) ==
    LET components == contents.cell.components
        old == components[link.to.component].prim
        new == SnappedPrim(components, link)
        scene == Reparented(contents.scene, old, new)
        moved == [i \in DOMAIN components |-> [components[i] EXCEPT !.prim = Moved(@, old, new)]]
    IN  [contents EXCEPT !.scene = [scene EXCEPT ![new].matrix = "snapped"],
                         !.cell.components = moved]

\* The ports of the placed components.
Ends(components) ==
    UNION {{[end |-> [component |-> i, port |-> p.id], kind |-> p.kind] :
                p \in Package(components[i].type).ports} :
              i \in {j \in DOMAIN components : Package(components[j].type) # None}}

\* Only what the resolver says of the new link counts.  (It finds no port when
\* the kind of the link is not that of the source's port.)
Resolves(link) ==
    LET links == Append(working.cell.links, link)
    IN  LinkFindings(working.cell.components, links, Len(links)) = {}

\* A mechanical link moves the target's prim as well.
Connected(link) ==
    LET linked == [working EXCEPT !.cell.links = Append(@, link), !.files = NoFiles]
    IN  IF link.kind = "mechanical" THEN Snap(linked, link) ELSE linked

ConnectPorts ==
    /\ Editable
    /\ \E id \in LinkIds, from, to \in Ends(working.cell.components) :
        LET link == [id |-> id, kind |-> from.kind, from |-> from.end, to |-> to.end]
        IN  /\ Resolves(link)
            /\ link.kind = "mechanical" => ~SnapRefused(working.cell.components, working.scene, link)
            /\ Paired(Connected(link).cell, Connected(link).scene)
            /\ Edit(Connected(link), [shown EXCEPT !.connections = @ + 1, !.edges = @ \cup {link}])

\* The other editors of a component validate the pair too, which they leave as it was.
PairEditable == Editable /\ Paired(working.cell, working.scene)

Component(i) == working.cell.components[i]
Changed(i, component) == [working EXCEPT !.cell.components[i] = component]

SetTransform ==
    /\ PairEditable
    /\ \E i \in DOMAIN working.cell.components :
          Edit([working EXCEPT !.scene = WithTransform(@, Component(i).prim, "moved")], shown)

SetConfiguration ==
    /\ PairEditable
    /\ \E i \in DOMAIN working.cell.components :
          /\ Package(Component(i).type) # None
          /\ \E value \in Package(Component(i).type).configurations :
                Edit(Changed(i, [Component(i) EXCEPT !.configuration = value]), shown)

SetVariants ==
    /\ PairEditable
    /\ \E i \in DOMAIN working.cell.components :
          /\ Package(Component(i).type) # None
          /\ \E selection \in Selections :
                /\ VariantsAccepted(Component(i).type, selection)
                /\ Edit(Changed(i, [Component(i) EXCEPT !.variants = selection]), shown)

\* A calibration is created under a new name or imported under its own; a name
\* that is staged, or else on the disk, with other contents refuses it.
Bindable(file, calibration) ==
    ~Expired(calibration) /\ Source(working, file) \in {Absent, calibration}

\* It is staged, declared by the cell and referred to by its component.
WithCalibration(i, file, calibration) ==
    LET component == [Component(i) EXCEPT !.calibrations = @ \cup {file}]
    IN  [Changed(i, component) EXCEPT !.cell.calibrations = @ \cup {file},
                                      !.files[file] = calibration]

BindCalibration ==
    /\ PairEditable
    /\ \E i \in DOMAIN working.cell.components, file \in CalibrationFiles, until \in Lifetimes,
          data \in {"first", "second"} :
        LET calibration == [owner |-> i, until |-> until, data |-> data]
        IN  /\ Bindable(file, calibration)
            /\ Edit(WithCalibration(i, file, calibration), shown)

\* A text that is no document: it declares nothing.
Unread == [components |-> <<>>, links |-> <<>>, recipes |-> <<>>, calibrations |-> {}]

\* The tree of a task nobody declared goes to the default file.
SetTaskTree ==
    /\ Editable /\ working.cell # Unread
    /\ \E task \in {t.id : t \in ToSet(Tasks)} \cup {"undeclared"}, tree \in Trees :
          /\ TreeValid(tree)
          /\ Edit([working EXCEPT !.files[TreeFile(task)] = [nodes |-> tree]], shown)

\* Both identities are kept and a checked version becomes a draft again; a
\* draft takes the status and the evidence of the text entered.
EditRecipe ==
    /\ Editable
    /\ \E file \in Summaries(working) :
        LET recipe == Source(working, file)
            found == Version(working, recipe.id, recipe.version)
        IN  /\ found = file
            /\ ~Immutable(recipe)
            /\ \E entry \in Entries :
                LET edited == [recipe EXCEPT
                        !.status = IF @ = "DRAFT" THEN entry.status ELSE "DRAFT",
                        !.evidence = entry.evidence, !.body = entry.body]
                IN  /\ RecipeValid(working.cell, edited)
                    /\ Edit([working EXCEPT !.files[file] = edited],
                            [shown EXCEPT !.recipes = Len(working.cell.recipes)])

\* What the caller gives is laid over the copy, its identity and status included.
Merged(recipe, override) ==
    [field \in DOMAIN recipe |->
        IF field \in DOMAIN override THEN override[field] ELSE recipe[field]]

\* The next version of the recipe, a draft, as a copy of any that the editor finds.  The
\* file is named after that version, whatever the caller makes of the contents.
CreateRecipeVersion ==
    /\ Editable
    /\ \E base \in Summaries(working), override \in Overrides :
        LET recipe == Source(working, base)
            version == 1 + Max({Source(working, f).version : f \in Versions(working, recipe.id)})
            file == RecipePath(recipe.id, version)
            recipes == Append(working.cell.recipes, file)
            draft == [recipe EXCEPT !.version = version, !.status = "DRAFT"]
        IN  /\ Version(working, recipe.id, recipe.version) = base
            /\ version <= MaxVersion
            /\ RecipeValid(working.cell, Merged(draft, override))
            /\ Edit([working EXCEPT !.cell.recipes = recipes,
                                   !.files[file] = Merged(draft, override)],
                    [shown EXCEPT !.recipes = Len(recipes)])

\* TESTED and APPROVED need evidence, given now or kept from before.
TransitionRecipe ==
    /\ Editable
    /\ \E file \in Summaries(working), given \in BOOLEAN :
        LET recipe == Source(working, file)
        IN  /\ Version(working, recipe.id, recipe.version) = file
            /\ \E status \in Transitions(recipe.status) :
                LET tested == status \in {"TESTED", "APPROVED"}
                    moved == [recipe EXCEPT !.status = status,
                                            !.evidence = @ \/ (tested /\ given)]
                IN  /\ tested => moved.evidence
                    /\ RecipeValid(working.cell, moved)
                    /\ Edit([working EXCEPT !.files[file] = moved],
                            [shown EXCEPT !.recipes = Len(working.cell.recipes)])

\* A document is typed over: no history, no validation, and what is shown stays.
Type(document, contents) ==
    /\ Editable
    /\ edits' = edits + 1
    /\ typed' = typed \cup {document}
    /\ working' = contents
    /\ UNCHANGED <<disk, saved, undo, redo, shown, now>>

EditCellYaml == \E text \in CellTexts : Type("cell", [working EXCEPT !.cell = text])
EditSceneUsda == \E text \in SceneTexts : Type("scene", [working EXCEPT !.scene = text])

-----------------------------------------------------------------------------
\* The session.

Undo ==
    /\ Open /\ undo # <<>>
    /\ working' = Last(undo).contents /\ shown' = Last(undo).shown
    /\ undo' = Front(undo)
    /\ redo' = Append(redo, [contents |-> working, shown |-> shown])
    /\ UNCHANGED <<disk, saved, now, edits, typed>>

Redo ==
    /\ Open /\ redo # <<>>
    /\ working' = Last(redo).contents /\ shown' = Last(redo).shown
    /\ redo' = Front(redo)
    /\ undo' = Append(undo, [contents |-> working, shown |-> shown])
    /\ UNCHANGED <<disk, saved, now, edits, typed>>

Load(contents) ==
    working' = contents /\ saved' = contents /\ undo' = <<>> /\ redo' = <<>> /\ typed' = {}

\* An invalid project is not shown, and leaves no buffers.
OpenProject ==
    /\ IF Valid(Loaded) THEN Load(Loaded) /\ shown' = Shown(Loaded)
                        ELSE Load(None) /\ shown' = [shown EXCEPT !.edges = {}]
    /\ UNCHANGED <<disk, now, edits>>

\* The disk and the buffers must both be valid; the buffers stay as they are.
SaveProject ==
    /\ Open /\ working # saved
    /\ Valid(Loaded) /\ Valid(working)
    /\ disk' = Written(working)
    /\ Load(working)
    /\ shown' = [Shown(working) EXCEPT !.edges = shown.edges]
    /\ UNCHANGED <<now, edits>>

Tick ==
    /\ now < MaxTime /\ now' = now + 1
    /\ UNCHANGED <<disk, working, saved, undo, redo, shown, edits, typed>>

Editing ==
    \/ PlaceComponent \/ RemoveComponent \/ ConnectPorts
    \/ SetTransform \/ SetConfiguration \/ SetVariants \/ BindCalibration
    \/ SetTaskTree
    \/ EditRecipe \/ CreateRecipeVersion \/ TransitionRecipe

Typing == EditCellYaml \/ EditSceneUsda

Next ==
    \/ Editing \/ Typing
    \/ Undo \/ Redo \/ OpenProject \/ SaveProject \/ Tick

Spec == Init /\ [][Next]_vars
-----------------------------------------------------------------------------
\* Properties.

\* The file is named after no other version than the one it holds.
Named(file) ==
    \A id \in RecipeIds, v \in 1..MaxVersion :
        file = RecipePath(id, v) => disk.files[file].id = id /\ disk.files[file].version = v

\* The versions of the disk that are approved or retired, that its cell binds, and in
\* the file of their name.
Released ==
    {f \in Stored(disk) \cap ToSet(disk.cell.recipes) :
        Named(f) /\ disk.files[f].status \in {"APPROVED", "RETIRED"}}

Retired(recipe) == [recipe EXCEPT !.status = "RETIRED"]
Retires(file, recipe) == disk.files[file].status = "APPROVED" /\ recipe = Retired(disk.files[file])

\* What may stand for a file of the disk: that calibration, or that released version or
\* its retirement, unless the cell was typed over since it was loaded.
Kept(file, content) ==
    /\ file \in CalibrationFiles /\ disk.files[file] # Absent => content = disk.files[file]
    /\ "cell" \notin typed /\ file \in Released =>
          content = disk.files[file] \/ Retires(file, content)

\* A calibration on the disk never changes; nor does a released version, but for its
\* retirement, and the cell still binds it: no sequence of edits, histories and saves
\* replaces what a run or a release may already refer to.
ImmutableStays ==
    [][disk' # disk =>
          /\ \A f \in Files : Kept(f, disk'.files[f])
          /\ "cell" \notin typed => Released \subseteq ToSet(disk'.cell.recipes)]_vars

\* Not so: what is laid over a new version may leave a file that the next version takes,
\* and what is typed may let a version out of the cell that is then made anew.
ReleasedStays ==
    [][\A f \in Stored(disk) :
          disk.files[f].status \in {"APPROVED", "RETIRED"} =>
              disk'.files[f] = disk.files[f] \/ Retires(f, disk'.files[f])]_vars

\* The invariant behind ImmutableStays: what any buffer, past or future, stages may stand for
\* what is on the disk; and it binds the recipes that the disk binds, so that a new version
\* finds a new place.
Sound(b) ==
    /\ IsProject(b) /\ DOMAIN b.files = Files
    /\ \A f \in Files : b.files[f] = Absent \/ Kept(f, b.files[f])
    /\ "cell" \notin typed => ToSet(disk.cell.recipes) \subseteq ToSet(b.cell.recipes)

IInv ==
    /\ \E s \in Starters : Files = DOMAIN s.files
    /\ undo \in Seq(ToSet(undo)) /\ redo \in Seq(ToSet(redo))
    /\ Sound(disk)
    /\ \A b \in Buffers : b = None \/ Sound(b)
    /\ now \in Nat

\* Of buffers: every link has its components and its ports, no identity is doubled,
\* and a prim below another is there for a mechanical link from that one.
Resolving(b) ==
    /\ \A n \in DOMAIN b.cell.links : LinkFindings(b.cell.components, b.cell.links, n) = {}
    /\ \A path \in DOMAIN b.scene : Len(path) > 1 =>
          \E link \in ToSet(b.cell.links) :
              /\ link.kind = "mechanical"
              /\ link.from.component = b.scene[Front(path)].tag
              /\ link.to.component = b.scene[path].tag

\* What else is so of a pair of documents, and what makes GraphResolves true: of all that
\* the session may come back to, the prims are nested in prims.
Nested(b) ==
    /\ b.cell.components = [i \in DOMAIN b.cell.components |-> b.cell.components[i]]
    /\ \A i \in DOMAIN b.cell.components :
          LET c == b.cell.components[i]
          IN  c = [type |-> c.type, alias |-> c.alias, adapter |-> c.adapter,
                   variants |-> c.variants, configuration |-> c.configuration,
                   calibrations |-> c.calibrations, prim |-> c.prim]
    /\ b.cell.links \in Seq(ToSet(b.cell.links))
    /\ b.scene = [p \in DOMAIN b.scene |-> b.scene[p]]
    /\ \A p \in DOMAIN b.scene :
          /\ p \in Seq(ToSet(p)) /\ p # <<>>
          /\ b.scene[p] = [tag |-> b.scene[p].tag, matrix |-> b.scene[p].matrix]
          /\ Len(p) > 1 => Front(p) \in DOMAIN b.scene

Whole(b) == Nested(b) /\ Resolving(b)

\* The graph the session edits resolves, through edits, histories and saves, if it did when
\* the buffers were loaded and nothing was typed over since.
GraphResolves == Open /\ typed = {} /\ Whole(saved) => Resolving(working)

Graphs == \A b \in Held \ {None} : Paired(b.cell, b.scene) /\ Whole(b)
GraphIInv == Open /\ typed = {} /\ Whole(saved) => Graphs

\* Whatever was saved can be opened again, until a calibration expires.
DiskOpens ==
    (\A f \in disk.cell.calibrations : disk.files[f] # Absent => ~Expired(disk.files[f]))
        => Valid(Loaded)
============================================================================
