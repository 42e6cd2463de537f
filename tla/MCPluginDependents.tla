-------------------------- MODULE MCPluginDependents --------------------------
(***************************************************************************)
(* Instances of PluginDependents for TLC: a plugin of databases.           *)
(***************************************************************************)
EXTENDS PluginDependents

Owned(k) == [owned |-> TRUE, created |-> TRUE, updated |-> FALSE, checked |-> FALSE, kind |-> k]

\* The configuration of the database, as Secret and as another kind; the
\* databases; an account the operator adjusts and others create.
Databases ==
    [secret |-> [Owned("Secret") EXCEPT !.updated = TRUE],
     postgres |-> [Owned("Postgres") EXCEPT !.checked = TRUE],
     mysql |-> [Owned("MySQL") EXCEPT !.owned = FALSE, !.checked = TRUE],
     account |-> [Owned("Account") EXCEPT !.created = FALSE, !.updated = TRUE]]

DatabaseDeps == {"secret", "postgres", "mysql", "account"}

Asking(t, w) == [type |-> t, want |-> w]

\* Nobody serves redis.  One resource for both other types, and a later one that takes
\* mysql over.
TwoResources ==
    <<[types |-> {"postgres", "mysql"},
       provides |-> [t \in {"postgres", "mysql", "redis"} |-> <<"secret", "postgres">>],
       rejects |-> {Asking("postgres", "bad")}],
      [types |-> {"mysql"},
       provides |-> [t \in {"postgres", "mysql", "redis"} |-> <<"secret", "account", "mysql">>],
       rejects |-> {}]>>

Manifests ==
    {Asking("postgres", "v1"), Asking("mysql", "v2"), Asking("postgres", "bad"),
     Asking("redis", "v1")}

\* A Secret with the configuration and one with the credentials.
TwoSecrets ==
    [secret |-> Owned("Secret"), credentials |-> Owned("Secret"),
     postgres |-> [Owned("Postgres") EXCEPT !.checked = TRUE]]

OneResource ==
    <<[types |-> {"postgres"},
       provides |-> [t \in {"postgres"} |-> <<"secret", "credentials", "postgres">>],
       rejects |-> {}]>>

OneManifest == {Asking("postgres", "v1")}
=============================================================================
