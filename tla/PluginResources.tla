--------------------------- MODULE PluginResources ---------------------------
(***************************************************************************)
(* The server's side of a capability plugin: the aggregate of its          *)
(* PluginResources (plugins/capability/resource.go) and the answers        *)
(* PluginServerImpl derives from it (server.go).                           *)
(*                                                                         *)
(* A request carries the capability as the pass read it: its type, after   *)
(* typeKey, and what it wants.  A dependent stands for its name; its       *)
(* configuration names its kind.  Aggregates of several categories are     *)
(* left out: the plugin panics before it serves.                           *)
(***************************************************************************)
EXTENDS Naturals, Sequences

CONSTANTS
    Types,          \* capability types
    Wants,          \* what a capability can ask of its dependents
    Kinds,          \* the GroupVersionKinds of dependents
    Deps,           \* dependents the plugin's resources provide
    Config,         \* Config[d]: what GetConfig of d returns
    Resources       \* the PluginResources given to StartPluginServerFor

Specs == [type: Types, want: Wants]

Configs ==
    [owned: BOOLEAN, created: BOOLEAN, updated: BOOLEAN, checked: BOOLEAN,
     kind: Kinds]

\* provides[t]: the dependents for an owner of type t, in order; rejects: the
\* owners CheckValidity has messages for.
PluginResource ==
    [types: SUBSET Types, provides: [Types -> Seq(Deps)], rejects: SUBSET Specs]

ASSUME ConfigsAssumption == Config \in [Deps -> Configs]
ASSUME ResourcesAssumption == Resources \in Seq(PluginResource)

-----------------------------------------------------------------------------
Supporting(t) == {i \in DOMAIN Resources : t \in Resources[i].types}

\* The map pluginResources: a later resource takes over a type from an
\* earlier one.
Served == {t \in Types : Supporting(t) # {}}

pluginResources ==
    [t \in Served |-> Resources[CHOOSE i \in Supporting(t) : \A j \in Supporting(t) : j <= i]]

GetSupportedTypes == UNION {pluginResources[t].types : t \in Served}

\* Every resource of the aggregate is asked, whatever type the owner is of.
CheckValidity(owner) == \A t \in Served : owner \notin pluginResources[t].rejects

GetDependentResourcesWith(owner) == pluginResources[owner.type].provides[owner.type]

-----------------------------------------------------------------------------
GetDependentResourceTypes(owner) ==
    LET dependents == GetDependentResourcesWith(owner)
    IN  [i \in DOMAIN dependents |-> Config[dependents[i]].kind]

Matching(owner, target) ==
    {i \in DOMAIN GetDependentResourcesWith(owner) :
        GetDependentResourceTypes(owner)[i] = target}

\* The server panics, and with it the plugin's process, on a request about a
\* kind the owner has no dependent of, or an owner no resource supports.
Understood(owner, target) ==
    owner.type \in Served /\ Matching(owner, target) # {}

\* The first dependent of the kind.
dependentResourceFor(owner, target) ==
    GetDependentResourcesWith(owner)[
        CHOOSE i \in Matching(owner, target) : \A j \in Matching(owner, target) : i <= j]
=============================================================================
