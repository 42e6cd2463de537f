---------------------------- MODULE MCReconciler ----------------------------
(***************************************************************************)
(* Instances of Reconciler for TLC.                                        *)
(***************************************************************************)
EXTENDS Reconciler

\* A Secret as NewSecret configures it, then an object of the README's
\* example kind, checked for readiness.
SecretThenPod ==
    <<NewDefaultSecretConfig("Secret"), [NewConfig("Pod") EXCEPT !.checked = TRUE]>>

\* A Role as NewOwnedRole configures it, then such a Secret.
RoleThenSecret == <<NewOwnedRole("Role"), NewDefaultSecretConfig("Secret")>>

\* Two dependents users create, one the operator also adjusts and one whose
\* readiness is awaited, then a Role as NewOwnedRole configures it.
UsersOwn(k) == [NewConfig(k) EXCEPT !.owned = FALSE, !.created = FALSE]

OthersThenRole ==
    <<[UsersOwn("ConfigMap") EXCEPT !.updated = TRUE],
      [UsersOwn("Capability") EXCEPT !.checked = TRUE],
      NewOwnedRole("Role")>>

\* Two dependents the readiness of the primary depends on.
BothChecked ==
    <<[NewConfig("Deployment") EXCEPT !.checked = TRUE],
      [NewConfig("Service") EXCEPT !.checked = TRUE]>>

Want(v) == [defaulted |-> TRUE, valid |-> TRUE, want |-> v]

\* A first manifest without the optional values, a change of mind, and a
\* mistake.
Manifests ==
    {[Want("v1") EXCEPT !.defaulted = FALSE], Want("v2"),
     [Want("v3") EXCEPT !.valid = FALSE]}

\* The same with a mistake elsewhere.
FewManifests ==
    {[Want("v1") EXCEPT !.defaulted = FALSE], Want("v2"),
     [Want("v2") EXCEPT !.valid = FALSE]}
=============================================================================
