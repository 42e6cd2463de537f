------------------------ MODULE MCCapabilityRegistry ------------------------
(***************************************************************************)
(* Instances of CapabilityRegistry for TLC: two plugins that both offer    *)
(* database/postgres, one of them twice, in two spellings.                 *)
(***************************************************************************)
EXTENDS CapabilityRegistry

Info(pair, versions) == [pair |-> pair, versions |-> versions]

TwoPlugins ==
    [p \in Plugins |->
        IF p = "kubedb"
        THEN <<Info("postgres", "v1"), Info("postgres", "v2"), Info("mysql", "v1")>>
        ELSE <<Info("postgres", "v2")>>]

OwnNames == [pair \in Pairs |-> pair]

Installations == {<<"kubedb", "other">>, <<"other", "kubedb">>, <<"other">>}
=============================================================================
