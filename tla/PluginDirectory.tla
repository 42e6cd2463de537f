--------------------------- MODULE PluginDirectory ---------------------------
(***************************************************************************)
(* What GetPluginFor (plugins/capability/registry.go) promises: within one *)
(* life of the operator the plugin that provides a pair of category and    *)
(* type never changes once there is one, and it is one that offers the     *)
(* pair.                                                                   *)
(***************************************************************************)
CONSTANTS
    Pairs,          \* pairs of a category and a type
    Plugins,        \* plugin binaries
    Nobody,         \* not a plugin
    Offers          \* Offers[p] is the set of pairs p supports

VARIABLE provider   \* provider[pair]: what GetPluginFor returns for it

Init == provider = [pair \in Pairs |-> Nobody]

Claim(p, pair) ==
    /\ pair \in Offers[p]
    /\ provider[pair] = Nobody
    /\ provider' = [provider EXCEPT ![pair] = p]

Restart == provider' = [pair \in Pairs |-> Nobody]

Next ==
    \/ \E p \in Plugins, pair \in Pairs : Claim(p, pair)
    \/ Restart

Spec == Init /\ [][Next]_provider
=============================================================================
