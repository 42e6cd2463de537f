---------------------------- MODULE SharedBinding ----------------------------
(***************************************************************************)
(* Several primaries that share one Role and one RoleBinding (role.go,     *)
(* rolebinding.go): both are found by a name the primaries choose, and     *)
(* RoleBinding.Update adds the service account of whichever primary is     *)
(* processed to those already bound.                                       *)
(*                                                                         *)
(* The primaries are of different kinds, so each has the worker of a       *)
(* controller of its own; the workers run at the same time, and read from  *)
(* one cache that can be behind.  An account stands for the primary it     *)
(* belongs to.  Statuses, failing calls and restarts are left to           *)
(* Reconciler; a primary that is present is always processed again, as one *)
(* that asks to be requeued is (neither kind is watched).                  *)
(***************************************************************************)
EXTENDS Naturals, Sequences

CONSTANTS
    Owners,         \* the primaries
    Nobody,         \* in place of an owner: there is none
    Updated,        \* the binding's configuration says updated
    MaxDisturbances \* bound: acts of others

ASSUME OwnersAssumption == Nobody \notin Owners
ASSUME UpdatedAssumption == Updated \in BOOLEAN
ASSUME BoundAssumption == MaxDisturbances \in Nat

VARIABLES
    life,           \* life[o]: whether primary o is there
    object,         \* object[d]: the Role and the RoleBinding
    cached,         \* cached[d]: what reads of it return
    events,         \* events[d]: versions the informer has not seen
    worker,         \* worker[o]: the pass under way for o
    left            \* what remains of the bound

vars == <<life, object, cached, events, worker, left>>

Deps == {"role", "binding"}

\* The dependents in the order they are added.
Order == <<"role", "binding">>

\* owner is the one in the controller reference; a Role has no subjects.
Objects == [exists: BOOLEAN, owner: Owners \cup {Nobody}, subjects: SUBSET Owners]

NoObject == [exists |-> FALSE, owner |-> Nobody, subjects |-> {}]

Workers ==
    [pc: {"idle", "fetch", "create", "update"},
     next: DOMAIN Order,        \* index of the loop over the dependents
     fetched: Objects,          \* what Fetch returned
     fresh: SUBSET Deps]        \* whose copy fetched is, if it is current

Idle == [pc |-> "idle", next |-> 1, fetched |-> NoObject, fresh |-> {}]

TypeOK ==
    /\ life \in [Owners -> {"awaited", "present", "gone"}]
    /\ object \in [Deps -> Objects]
    /\ cached \in [Deps -> Objects]
    /\ events \in [Deps -> Seq(Objects)]
    /\ worker \in [Owners -> Workers]
    /\ left \in 0..MaxDisturbances

Init ==
    /\ life = [o \in Owners |-> "awaited"]
    /\ object = [d \in Deps |-> NoObject]
    /\ cached = object
    /\ events = [d \in Deps |-> <<>>]
    /\ worker = [o \in Owners |-> Idle]
    /\ left = MaxDisturbances

-----------------------------------------------------------------------------
Current(o) == Order[worker[o].next]

\* The server stores d: w[o] is what becomes of the workers but for what they
\* have fetched of d, which is outdated now.
Store(d, value, w) ==
    /\ object' = [object EXCEPT ![d] = value]
    /\ events' = [events EXCEPT ![d] = Append(@, value)]
    /\ worker' = [o \in Owners |-> [w[o] EXCEPT !.fresh = @ \ {d}]]

\* The server refuses a write of a copy that is not the current version.
AcceptedBlindly(o) == TRUE
Accepted(o) == Current(o) \in worker[o].fresh

-----------------------------------------------------------------------------
(***************************************************************************)
(* One pass for primary o: CreateOrUpdate on each dependent                *)
(***************************************************************************)
At(o, pc) == worker[o].pc = pc /\ UNCHANGED <<life, cached, left>>

Moves(o, w) == [worker EXCEPT ![o] = w]

OnwardBeyond(o) ==
    Moves(o, [Idle EXCEPT !.pc = "fetch", !.next = worker[o].next + 1])

\* The next dependent, or the end of the pass.
Onward(o) ==
    IF worker[o].next < Len(Order)
    THEN Moves(o, [Idle EXCEPT !.pc = "fetch", !.next = worker[o].next + 1])
    ELSE Moves(o, Idle)

StartPass(o) ==
    /\ At(o, "idle")
    /\ life[o] = "present"
    /\ worker' = Moves(o, [Idle EXCEPT !.pc = "fetch"])
    /\ UNCHANGED <<object, events>>

\* NewOwnedRole leaves updated unset, and Role.Update changes nothing.
Fetch(o) ==
    LET d == Current(o)
        seen == cached[d]
    IN  /\ At(o, "fetch")
        /\ worker' =
             CASE ~seen.exists -> Moves(o, [worker[o] EXCEPT !.pc = "create"])
               [] seen.exists /\ d = "binding" /\ Updated ->
                    Moves(o, [worker[o] EXCEPT !.pc = "update", !.fetched = seen,
                                               !.fresh = {e \in {d} : events[e] = <<>>}])
               [] OTHER -> Onward(o)
        /\ UNCHANGED <<object, events>>

ControllerReferenceMissing(o) == Nobody
ControllerReference(o) == o

BuildRole(o) ==
    [exists |-> TRUE, owner |-> ControllerReference(o), subjects |-> {}]

BuildRoleBinding(o) == [BuildRole(o) EXCEPT !.subjects = {o}]

Create(o) ==
    /\ At(o, "create")
    /\ ~object[Current(o)].exists
    /\ Store(Current(o), IF Current(o) = "role" THEN BuildRole(o) ELSE BuildRoleBinding(o),
             Onward(o))

\* Somebody else was faster; whoever that was, o is not added to its subjects.
CreateExists(o) ==
    /\ At(o, "create")
    /\ object[Current(o)].exists
    /\ worker' = Onward(o)
    /\ UNCHANGED <<object, events>>

\* RoleBinding.Update keeps the subjects it finds.
UpdatedSubjectsOwnOnly(o) == {o}
UpdatedSubjects(o) == worker[o].fetched.subjects \cup {o}

UpdateBinding(o) ==
    /\ At(o, "update")
    /\ \/ /\ o \in worker[o].fetched.subjects
          /\ worker' = Onward(o)
          /\ UNCHANGED <<object, events>>
       \/ /\ o \notin worker[o].fetched.subjects
          /\ Accepted(o)
          /\ Store("binding", [worker[o].fetched EXCEPT !.subjects = UpdatedSubjects(o)],
                   Onward(o))
       \/ /\ o \notin worker[o].fetched.subjects
          /\ ~Accepted(o)
          /\ worker' = Moves(o, Idle)
          /\ UNCHANGED <<object, events>>

Pass(o) ==
    StartPass(o) \/ Fetch(o) \/ Create(o) \/ CreateExists(o) \/ UpdateBinding(o)

-----------------------------------------------------------------------------
(***************************************************************************)
(* The informer, users, the garbage collector and others, external         *)
(***************************************************************************)
Deliver(d) ==
    /\ events[d] # <<>>
    /\ cached' = [cached EXCEPT ![d] = Head(events[d])]
    /\ events' = [events EXCEPT ![d] = Tail(@)]
    /\ UNCHANGED <<life, object, worker, left>>

UserCreates(o) ==
    /\ life[o] = "awaited"
    /\ life' = [life EXCEPT ![o] = "present"]
    /\ UNCHANGED <<object, cached, events, worker, left>>

UserDeletes(o) ==
    /\ life[o] = "present"
    /\ life' = [life EXCEPT ![o] = "gone"]
    /\ UNCHANGED <<object, cached, events, worker, left>>

Orphaned(d) == object[d].exists /\ object[d].owner # Nobody /\ life[object[d].owner] = "gone"

\* The object goes with the primary that created it, whoever else uses it.
GarbageCollect(d) ==
    /\ Orphaned(d)
    /\ Store(d, NoObject, worker)
    /\ UNCHANGED <<life, cached, left>>

Disturb == left > 0 /\ left' = left - 1 /\ UNCHANGED <<life, cached>>

OthersDelete(d) ==
    /\ object[d].exists
    /\ Disturb
    /\ Store(d, NoObject, worker)

OthersUnbind(o) ==
    /\ o \in object["binding"].subjects
    /\ Disturb
    /\ Store("binding", [object["binding"] EXCEPT !.subjects = @ \ {o}], worker)

Environment ==
    \/ \E d \in Deps : Deliver(d) \/ GarbageCollect(d) \/ OthersDelete(d)
    \/ \E o \in Owners : UserCreates(o) \/ UserDeletes(o) \/ OthersUnbind(o)

Next == (\E o \in Owners : Pass(o)) \/ Environment

Spec == Init /\ [][Next]_vars

\* Every controller's worker, the informer and the garbage collector keep
\* running.
Fairness ==
    /\ \A o \in Owners : WF_vars(Pass(o))
    /\ \A d \in Deps : WF_vars(Deliver(d)) /\ WF_vars(GarbageCollect(d))

FairSpec == Spec /\ Fairness

-----------------------------------------------------------------------------
(***************************************************************************)
(* Properties                                                              *)
(***************************************************************************)
\* No update is lost: what one primary's pass writes never unbinds another,
\* however stale the copy it started from.
NobodyUnbound ==
    (\E o \in Owners : Pass(o)) =>
        object["binding"].subjects \subseteq object'["binding"].subjects

SubjectsKept == [][NobodyUnbound]_vars

Bound(o) ==
    object["role"].exists /\ object["binding"].exists /\ o \in object["binding"].subjects

\* Every primary that stays ends up with its account bound to the role, and
\* stays so: though another took the name first, though the primary that
\* created the objects takes them along, though others delete them.
EventuallyBound == \A o \in Owners : <>[](life[o] = "present" => Bound(o))

\* The shared objects outlive none of the primaries.
NothingLeftBehind ==
    <>[](\A o \in Owners : life[o] # "present") =>
        <>[](\A d \in Deps : ~object[d].exists)
=============================================================================
