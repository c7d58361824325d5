---------------------------- MODULE CellResolver ----------------------------
(***************************************************************************)
(* The component registry and the resolver of a cell: which manifests are  *)
(* registered, which components an execution mode admits, which links have *)
(* compatible ports, which component provides a task's capability.         *)
(***************************************************************************)
EXTENDS Naturals, Sequences, FiniteSets, FiniteSetsExt

CONSTANTS Manifests, \* the component.yaml files, in the order of their paths
          None       \* no package, no port

Modes == {"simulation", "commissioning", "production"}
Levels == {"metadata_only", "simulated", "bench_tested", "production_qualified", "deprecated"}
Kinds == {"mechanical", "software", "industrial_io", "safety"}
Directions == {"input", "output", "bidirectional"}

ASSUME ManifestsAssumption ==
    \A i \in DOMAIN Manifests :
        /\ {"type", "readable", "level", "adapters", "ports", "capabilities", "variants",
            "configurations", "asset"} \subseteq DOMAIN Manifests[i]
        /\ Manifests[i].level \in Levels
        /\ Manifests[i].adapters \subseteq {"simulation", "hardware"}
        /\ \A p \in Manifests[i].ports : p.kind \in Kinds /\ p.direction \in Directions
        /\ \A c \in Manifests[i].capabilities : c.modes \subseteq Modes

-----------------------------------------------------------------------------
\* The registry: the first manifest of a type and version wins.

Duplicate(i) ==
    \E j \in 1..(i - 1) : Manifests[j].readable /\ Manifests[j].type = Manifests[i].type

RegistryFindings ==
    {<<i, "manifest-invalid">> : i \in {j \in DOMAIN Manifests : ~Manifests[j].readable}}
    \cup {<<i, "duplicate-component-version">> :
             i \in {j \in DOMAIN Manifests : Manifests[j].readable /\ Duplicate(j)}}
    \cup {<<0, "no-component-manifests">> : x \in {y \in {0} : Manifests = <<>>}}

Registered == {Manifests[i].type : i \in {j \in DOMAIN Manifests : Manifests[j].readable}}

Packages ==
    [type \in Registered |->
        Manifests[CHOOSE i \in DOMAIN Manifests :
            Manifests[i].readable /\ Manifests[i].type = type /\ ~Duplicate(i)]]

Package(type) == IF type \in Registered THEN Packages[type] ELSE None

-----------------------------------------------------------------------------
\* A component in an execution mode.

Unsupported(level, mode) ==
    \/ level = "deprecated"
    \/ mode = "simulation" /\ level = "metadata_only"
    \/ mode = "commissioning" /\ level \notin {"bench_tested", "production_qualified"}
    \/ mode = "production" /\ level # "production_qualified"

ModeAdapter(mode) == IF mode = "simulation" THEN "simulation" ELSE "hardware"

\* The adapter the instance insists on is not the one of the mode.
AdapterRefused(adapter, mode) == adapter # "target_selected" /\ adapter # ModeAdapter(mode)

ModeFindings(component, manifest, mode) ==
    {code \in {"support-level-unsupported", "adapter-missing", "adapter-mode-incompatible"} :
        CASE code = "support-level-unsupported" -> Unsupported(manifest.level, mode)
          [] code = "adapter-missing" -> ModeAdapter(mode) \notin manifest.adapters
          [] OTHER -> AdapterRefused(component.adapter, mode)}

\* components: instance -> [type, adapter, ...]
ComponentFindings(components, i, mode) ==
    LET manifest == Package(components[i].type)
    IN  IF manifest = None THEN {"component-unregistered"}
        ELSE ModeFindings(components[i], manifest, mode)

-----------------------------------------------------------------------------
\* Links: sequences of [id, kind, from, to], an end being [component, port].

Port(components, kind, end) ==
    LET manifest == Package(components[end.component].type)
        ports == IF manifest = None THEN {}
                 ELSE {p \in manifest.ports : p.kind = kind /\ p.id = end.port}
    IN  IF ports = {} THEN None ELSE CHOOSE p \in ports : TRUE

\* An end at a component without a package is reported with the component.
EndFindings(components, kind, end) ==
    IF end.component \notin DOMAIN components THEN {"connection-component-missing"}
    ELSE IF Package(components[end.component].type) # None /\ Port(components, kind, end) = None
         THEN {"port-missing"} ELSE {}

PortsFound(components, link) ==
    \A end \in {link.from, link.to} :
        end.component \in DOMAIN components /\ Port(components, link.kind, end) # None

TypesMatch(components, link) ==
    Port(components, link.kind, link.from).type = Port(components, link.kind, link.to).type

LinkFindings(components, links, i) ==
    LET link == links[i]
        twin == \E j \in DOMAIN links \ {i} : links[j].id = link.id
        source == Port(components, link.kind, link.from)
        target == Port(components, link.kind, link.to)
    IN  EndFindings(components, link.kind, link.from)
        \cup EndFindings(components, link.kind, link.to)
        \cup (IF twin THEN {"duplicate-connection-id"} ELSE {})
        \cup (IF ~PortsFound(components, link) THEN {}
              ELSE {code \in {"port-direction-incompatible", "port-type-incompatible"} :
                       IF code = "port-type-incompatible" THEN ~TypesMatch(components, link)
                       ELSE source.direction = "input" \/ target.direction = "output"})

\* A link is resolved, and an edge of the graph, whatever its directions.
ResolvedLinks(components, links) ==
    {i \in DOMAIN links : PortsFound(components, links[i]) /\ TypesMatch(components, links[i])}

-----------------------------------------------------------------------------
\* Capabilities: tasks are [id, capabilities, ...].

Provided(components) ==
    UNION {{c.contract : c \in Package(components[i].type).capabilities} :
              i \in {j \in DOMAIN components : Package(components[j].type) # None}}

\* The pairs of an instance and its implementation that the mode admits.
Providers(components, contract, mode) ==
    {p \in UNION {{i} \X Package(components[i].type).capabilities :
                     i \in {j \in DOMAIN components : Package(components[j].type) # None}} :
        /\ p[2].contract = contract /\ mode \in p[2].modes
        /\ ComponentFindings(components, p[1], mode) = {}}

CapabilityFindings(components, contract, mode) ==
    LET found == Providers(components, contract, mode)
    IN  IF contract \notin Provided(components) THEN {"capability-missing"}
        ELSE IF found = {} THEN {"capability-mode-unsupported"}
        ELSE IF Cardinality({p[2].version : p \in found}) > 1 THEN {"capability-version-conflict"}
        ELSE IF Cardinality(found) > 1 THEN {"capability-provider-ambiguous"} ELSE {}

TaskFindings(components, tasks, i, mode) ==
    (UNION {CapabilityFindings(components, c, mode) : c \in tasks[i].capabilities})
    \cup {"duplicate-task-id" : j \in {k \in DOMAIN tasks \ {i} : tasks[k].id = tasks[i].id}}

-----------------------------------------------------------------------------
\* The report of a cell [components, links, tasks].

Findings(cell, mode) ==
    {f[2] : f \in RegistryFindings}
    \cup (UNION {ComponentFindings(cell.components, i, mode) : i \in DOMAIN cell.components})
    \cup (UNION {LinkFindings(cell.components, cell.links, i) : i \in DOMAIN cell.links})
    \cup (UNION {TaskFindings(cell.components, cell.tasks, i, mode) : i \in DOMAIN cell.tasks})

\* Who provides what: the capability edges of the graph.
Bindings(cell, mode) ==
    {<<cell.tasks[b[1]].id, b[2], (CHOOSE p \in Providers(cell.components, b[2], mode) : TRUE)[1]>> :
        b \in {t \in (DOMAIN cell.tasks) \X Provided(cell.components) :
                  /\ t[2] \in cell.tasks[t[1]].capabilities
                  /\ CapabilityFindings(cell.components, t[2], mode) = {}}}
============================================================================
