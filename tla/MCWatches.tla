------------------------------ MODULE MCWatches ------------------------------
(***************************************************************************)
(* Instances of Watches for TLC: the resources of Halkyon, components and  *)
(* capabilities, which share kinds of dependents.                          *)
(***************************************************************************)
EXTENDS Watches

Shared ==
    [c \in Controllers |->
        CASE c = "component"  -> {<<"Secret", "Deployment">>, <<"Deployment", "Secret", "Secret">>}
          [] c = "capability" -> {<<"Secret">>, <<"Secret", "Postgres">>}
          [] OTHER            -> {<<"Postgres", "Deployment">>}]
=============================================================================
