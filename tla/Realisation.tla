----------------------------- MODULE Realisation -----------------------------
(***************************************************************************)
(* What processing the dependents of a primary in order promises           *)
(* (CreateOrUpdateDependents in baseresource.go, ReadyFor in               *)
(* plugins/capability/client.go), whether they are compiled into the       *)
(* operator or provided by a plugin: the operator brings a dependent into  *)
(* being only if it may, only after those it needs have existed, and only  *)
(* with a content a valid spec asks for.                                   *)
(***************************************************************************)
CONSTANTS
    Deps,           \* dependents
    Contents,       \* contents a dependent can have
    Askable,        \* those a valid spec asks for
    Creatable,      \* dependents the operator may create
    Foreign,        \* dependents others may create
    Needs           \* Needs[d]: dependents that come before d

VARIABLES
    held,           \* held[d]: the content on the cluster, {} if there is none
    existed         \* dependents that have existed

Init ==
    /\ held = [d \in Deps |-> {}]
    /\ existed = {}

Appear(d, c) ==
    /\ held[d] = {}
    /\ held' = [held EXCEPT ![d] = {c}]
    /\ existed' = existed \cup {d}

Realise(d) ==
    /\ d \in Creatable
    /\ Needs[d] \subseteq existed
    /\ \E c \in Askable : Appear(d, c)

OthersCreate(d) ==
    /\ d \in Foreign
    /\ \E c \in Contents : Appear(d, c)

\* The operator or others rewrite the dependent, or others delete it.
Change(d) ==
    /\ held[d] # {}
    /\ \E h \in {{c} : c \in Contents} \cup {{}} : held' = [held EXCEPT ![d] = h]
    /\ UNCHANGED existed

Next == \E d \in Deps : Realise(d) \/ OthersCreate(d) \/ Change(d)

Spec == Init /\ [][Next]_<<held, existed>>
=============================================================================
