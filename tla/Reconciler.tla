----------------------------- MODULE Reconciler -----------------------------
(***************************************************************************)
(* GenericReconciler.Reconcile (generic.go) for one primary resource, with *)
(* CreateOrUpdate of its dependents (dependent.go) and the computation of  *)
(* its status (baseresource.go), running against an API server, the        *)
(* manager's informer caches and the controller's work queue.              *)
(*                                                                         *)
(* Every call that leaves the operator's process is a step of its own, so  *)
(* users, other controllers, the informers and a crash of the operator can *)
(* come between any two of them.  The controller runs one worker           *)
(* (controller.Options leaves MaxConcurrentReconciles at its default), and *)
(* nothing but the watch registry survives a pass, because each pass works *)
(* on a NewEmpty() instance: requests for different primaries of one kind  *)
(* interact only through the queue, so one primary is modelled.            *)
(***************************************************************************)
EXTENDS Dependents, Sequences

CONSTANTS
    Wants,          \* contents a spec can ask the dependents to have
    UserSpecs,      \* specs a user submits
    MaxUid,         \* bound: incarnations of the primary (delete, re-create)
    MaxDisturbances,\* bound: acts of users and others, and crashes
    MaxFaults,      \* bound: API calls that fail for no visible reason
    MaxLag,         \* bound: versions an informer or a watch can be behind
                    \* when the garbage collector acts
    FaultSites,     \* calls that can fail so
    Foreign,        \* dependents others may create, without owner reference
    Requeues        \* answers NeedsRequeue can give at the end of a pass

Sites == {"fetch", "delete", "defaults", "init", "watch", "get", "build",
          "create", "update", "check", "status"}

Specs == [defaulted: BOOLEAN, valid: BOOLEAN, want: Wants]

ASSUME BoundsAssumption ==
    /\ MaxUid \in Nat \ {0} /\ MaxLag \in Nat \ {0}
    /\ MaxDisturbances \in Nat /\ MaxFaults \in Nat
ASSUME EnvironmentAssumption ==
    /\ Wants # {}
    /\ UserSpecs \subseteq Specs
    /\ FaultSites \subseteq Sites
    /\ Foreign \subseteq Deps
    /\ Requeues \in (SUBSET BOOLEAN) \ {{}}

VARIABLES
    \* the API server
    primary,        \* the custom resource
    object,         \* object[d]: the object realising dependent d
    \* watch streams and informer caches, kept per object
    primaryEvents,  \* versions of the primary the informer has not seen
    objectEvents,   \* versions of object[d] the cache has not seen
    notices,        \* how many versions of object[d] the event handler of the
                    \* watch has not seen
    cachedPrimary,  \* what reads of the primary return
    cached,         \* cached[d]: what reads of dependent d return
    \* the operator's memory
    watching,       \* the kinds in the map "watched"
    queued,         \* whether the work queue holds the primary's request
    worker,         \* the pass under way
    \* bounds and history
    left,           \* what remains of each bound
    everExisted,    \* dependents that have existed on the cluster
    outrun          \* dependents whose last notice came before the version it
                    \* tells of was in the cache, and no pass has begun since

vars == <<primary, object, primaryEvents, objectEvents, notices, cachedPrimary,
          cached, watching, queued, worker, left, everExisted, outrun>>

objects  == <<object, objectEvents, notices, everExisted>>
cluster  == <<primary, primaryEvents, objects>>
informer == <<cachedPrimary, cached, outrun>>

-----------------------------------------------------------------------------
(***************************************************************************)
(* Types                                                                   *)
(***************************************************************************)
SomeSpec == CHOOSE s \in Specs : TRUE
SomeWant == CHOOSE w \in Wants : TRUE

\* uid 0 means there is no such primary
Primaries == [uid: 0..MaxUid, spec: Specs, status: Statuses]

NoPrimary == [uid |-> 0, spec |-> SomeSpec, status |-> EmptyStatus]

\* owner is the uid in the controller reference, 0 when there is none
Objects == [exists: BOOLEAN, owner: 0..MaxUid, content: Wants, ready: BOOLEAN]

NoObject == [exists |-> FALSE, owner |-> 0, content |-> SomeWant, ready |-> FALSE]

Exists(p) == p.uid # 0

\* Where a pass stands: each value names the next call it makes.
Positions == {"idle", "fetch", "delete", "prepare", "defaults", "watch",
              "dependent", "create", "update", "check", "status"}

Workers ==
    [pc: Positions,
     res: Primaries,        \* the Resource instance of the pass
     resFresh: BOOLEAN,     \* it carries the server's resourceVersion
     next: 1..NDeps,        \* index of the loop over the dependents
     fetched: Objects,      \* the object Update returned
     fetchedFresh: BOOLEAN, \* it carries the server's resourceVersion
     err: Errors,           \* what UpdateStatusIfNeeded was called with
     changed: BOOLEAN]      \* ComputeStatus's needsUpdate

Idle ==
    [pc |-> "idle", res |-> NoPrimary, resFresh |-> FALSE, next |-> 1,
     fetched |-> NoObject, fetchedFresh |-> FALSE, err |-> NoError,
     changed |-> FALSE]

Bounds == [uids: 0..MaxUid, disturbances: 0..MaxDisturbances, faults: 0..MaxFaults]

TypeOK ==
    /\ primary \in Primaries
    /\ object \in [Deps -> Objects]
    /\ primaryEvents \in Seq(Primaries)
    /\ objectEvents \in [Deps -> Seq(Objects)]
    /\ notices \in [Deps -> Nat]
    /\ cachedPrimary \in Primaries
    /\ cached \in [Deps -> Objects]
    /\ watching \subseteq Kinds
    /\ queued \in BOOLEAN
    /\ worker \in Workers
    /\ left \in Bounds
    /\ everExisted \subseteq Deps
    /\ outrun \subseteq Deps

Init ==
    /\ primary = NoPrimary
    /\ object = [d \in Deps |-> NoObject]
    /\ primaryEvents = <<>>
    /\ objectEvents = [d \in Deps |-> <<>>]
    /\ notices = [d \in Deps |-> 0]
    /\ cachedPrimary = NoPrimary
    /\ cached = [d \in Deps |-> NoObject]
    /\ watching = {}
    /\ queued = FALSE
    /\ worker = Idle
    /\ left = [uids |-> MaxUid, disturbances |-> MaxDisturbances, faults |-> MaxFaults]
    /\ everExisted = {}
    /\ outrun = {}

-----------------------------------------------------------------------------
(***************************************************************************)
(* The API server.                                                         *)
(***************************************************************************)
StorePrimary(p) ==
    /\ primary' = p
    /\ primaryEvents' = Append(primaryEvents, p)

\* EnqueueRequestForOwner only maps objects with a controller reference.
Owned(o) == o.exists /\ o.owner # 0

\* The handler of a watch maps the version it had and the new one.
Noticed(d, o) == Config[d].kind \in watching /\ (Owned(object[d]) \/ Owned(o))

StoreObject(d, o) ==
    /\ object' = [object EXCEPT ![d] = o]
    /\ objectEvents' = [objectEvents EXCEPT ![d] = Append(@, o)]
    /\ notices' = [notices EXCEPT ![d] = IF Noticed(d, o) THEN @ + 1 ELSE @]
    /\ everExisted' = IF o.exists THEN everExisted \cup {d} ELSE everExisted

CanFail(site) == site \in FaultSites /\ left.faults > 0

PayFault == left' = [left EXCEPT !.faults = @ - 1]

\* Update and Status().Update send the resourceVersion of the copy they
\* write, and the server accepts it only if it is the current one: "fresh".
\* Every write of somebody else clears the worker's two "fresh" flags.
AcceptedBlindly(fresh) == TRUE
Accepted(fresh) == fresh

\* What a write can come to: whether it took effect, and whether the caller
\* sees an error.  An answer can be lost after the write took effect.
Outcomes(site, acceptable) ==
    LET applied == [applied |-> TRUE, failed |-> FALSE]
        lost    == [applied |-> TRUE, failed |-> TRUE]
        refused == [applied |-> FALSE, failed |-> TRUE]
    IN  IF ~acceptable THEN {refused}
        ELSE {applied} \cup (IF CanFail(site) THEN {lost, refused} ELSE {})

Pay(acceptable, o) ==
    IF acceptable /\ o.failed THEN PayFault ELSE UNCHANGED left

-----------------------------------------------------------------------------
(***************************************************************************)
(* One pass of the worker                                                  *)
(***************************************************************************)
\* Reconcile returns; "again" is a returned error or Result.Requeue.
EndPassForgetting(again) ==
    /\ worker' = Idle
    /\ UNCHANGED queued

EndPass(again) ==
    /\ worker' = Idle
    /\ queued' = (queued \/ again)

Dequeue ==
    /\ worker.pc = "idle"
    /\ queued
    /\ queued' = FALSE
    /\ worker' = [worker EXCEPT !.pc = "fetch"]
    /\ outrun' = {d \in outrun : objectEvents[d] # <<>>}
    /\ UNCHANGED <<cluster, cachedPrimary, cached, watching, left>>

FetchPrimary ==
    /\ worker.pc = "fetch"
    /\ Exists(cachedPrimary)
    /\ worker' = [worker EXCEPT !.pc = "prepare", !.res = cachedPrimary,
                                !.resFresh = (primaryEvents = <<>>)]
    /\ UNCHANGED <<cluster, informer, watching, queued, left>>

FetchPrimaryNotFound ==
    /\ worker.pc = "fetch"
    /\ ~Exists(cachedPrimary)
    /\ worker' = [worker EXCEPT !.pc = "delete"]
    /\ UNCHANGED <<cluster, informer, watching, queued, left>>

\* The read fails otherwise: the error goes to the status of the instance,
\* which holds nothing but a name, so the server will refuse it.
FetchPrimaryFails ==
    /\ worker.pc = "fetch"
    /\ CanFail("fetch")
    /\ PayFault
    /\ worker' = [worker EXCEPT !.pc = "status", !.err = FetchFailed,
           !.res.status = DefaultErrorHandler(@, FetchFailed).status]
    /\ UNCHANGED <<cluster, informer, watching, queued>>

\* resource.Delete()
Delete ==
    /\ worker.pc = "delete"
    /\ \/ EndPass(FALSE) /\ UNCHANGED left
       \/ CanFail("delete") /\ PayFault /\ EndPass(TRUE)
    /\ UNCHANGED <<cluster, informer, watching>>

ProvideDefaultValues ==
    /\ worker.pc = "prepare"
    /\ ~worker.res.spec.defaulted
    /\ worker' = [worker EXCEPT !.pc = "defaults", !.res.spec.defaulted = TRUE]
    /\ UNCHANGED <<cluster, informer, watching, queued, left>>

\* Whatever the update comes to, the pass returns no error.
StoreDefaults ==
    /\ worker.pc = "defaults"
    /\ \E o \in Outcomes("defaults", Accepted(worker.resFresh)) :
          /\ Pay(Accepted(worker.resFresh), o)
          /\ IF o.applied
             THEN StorePrimary([primary EXCEPT !.spec = worker.res.spec])
             ELSE UNCHANGED <<primary, primaryEvents>>
    /\ EndPass(FALSE)
    /\ UNCHANGED <<objects, informer, watching>>

\* UpdateStatusIfNeeded(resource, e): the status is written only when the
\* error is news; otherwise the pass goes on to return no error.
ReportError(e, requeues) ==
    LET handled == DefaultErrorHandler(worker.res.status, e)
    IN  IF handled.updated
        THEN /\ worker' = [worker EXCEPT !.pc = "status", !.err = e,
                                         !.res.status = handled.status]
             /\ UNCHANGED queued
        ELSE \E again \in requeues : EndPass(again)

CheckValidityFails ==
    /\ worker.pc = "prepare"
    /\ worker.res.spec.defaulted
    /\ ~worker.res.spec.valid
    /\ ReportError(InvalidSpec, {FALSE})
    /\ UNCHANGED <<cluster, informer, watching, left>>

InitDependentResources ==
    /\ worker.pc = "prepare"
    /\ worker.res.spec.defaulted
    /\ worker.res.spec.valid
    /\ \/ worker' = [worker EXCEPT !.pc = "watch"] /\ UNCHANGED <<queued, left>>
       \/ CanFail("init") /\ PayFault /\ EndPass(TRUE)
    /\ UNCHANGED <<cluster, informer, watching>>

NothingUnwatched == {}
Unwatched == {d \in Deps : Config[d].watched /\ Config[d].kind \notin watching}

FirstUnwatched == CHOOSE d \in Unwatched : \A e \in Unwatched : d <= e

\* The callback of createCallbackFor: the new watch has an informer of its
\* own (createSourceForGVK), which lists the objects of the kind and hands
\* each to the event handler.
RegisterWatch ==
    /\ worker.pc = "watch"
    /\ Unwatched # {}
    /\ LET k == Config[FirstUnwatched].kind
           listed == {d \in Deps : Config[d].kind = k}
       IN  \/ /\ watching' = watching \cup {k}
              /\ notices' = [d \in Deps |-> IF d \notin listed THEN notices[d]
                                            ELSE IF Owned(object[d]) THEN 1 ELSE 0]
              /\ outrun' = outrun \cup
                     {d \in listed : ~object[d].exists /\ objectEvents[d] # <<>>}
              /\ UNCHANGED <<worker, queued, left>>
           \/ /\ CanFail("watch")
              /\ PayFault
              /\ EndPass(TRUE)
              /\ UNCHANGED <<watching, notices, outrun>>
    /\ UNCHANGED <<primary, primaryEvents, object, objectEvents, everExisted,
                   cachedPrimary, cached>>

AllWatched ==
    /\ worker.pc = "watch"
    /\ Unwatched = {}
    /\ worker' = [worker EXCEPT !.pc = "dependent"]
    /\ UNCHANGED <<cluster, informer, watching, queued, left>>

-----------------------------------------------------------------------------
(***************************************************************************)
(* CreateOrUpdateDependents: CreateOrUpdate on each dependent in order; an *)
(* error stops the loop, and ComputeStatus follows the last dependent.     *)
(***************************************************************************)
NextDependentUnbounded(w) == [w EXCEPT !.pc = "dependent", !.next = @ + 1]

NextDependent(w) ==
    IF w.next < NDeps THEN [w EXCEPT !.pc = "dependent", !.next = @ + 1]
    ELSE [w EXCEPT !.pc = "check", !.next = 1]

Turn(pc) == worker.pc = pc /\ UNCHANGED <<informer, watching>>

IgnoreError == worker' = NextDependent(worker) /\ UNCHANGED queued

DependentError == ReportError(DependentFailed(worker.next), Requeues)

CreateOrUpdateExits ==
    /\ Turn("dependent")
    /\ ~Config[worker.next].created /\ ~Config[worker.next].updated
    /\ worker' = NextDependent(worker)
    /\ UNCHANGED <<cluster, queued, left>>

FetchDependent ==
    LET d == worker.next
        found == cached[d].exists
        outdated == Config[d].updated /\ cached[d].content # worker.res.spec.want
    IN  /\ Turn("dependent")
        /\ Config[d].created \/ Config[d].updated
        /\ \/ /\ found /\ outdated
              /\ worker' = [worker EXCEPT !.pc = "update",
                     !.fetched = [cached[d] EXCEPT !.content = worker.res.spec.want],
                     !.fetchedFresh = (objectEvents[d] = <<>>)]
              /\ UNCHANGED <<queued, left>>
           \/ /\ found /\ ~outdated
              /\ worker' = NextDependent(worker)
              /\ UNCHANGED <<queued, left>>
           \/ /\ ~found /\ Config[d].created
              /\ worker' = [worker EXCEPT !.pc = "create"]
              /\ UNCHANGED <<queued, left>>
           \/ /\ ~found /\ ~Config[d].created
              /\ DependentError
              /\ UNCHANGED left
           \/ /\ CanFail("get")
              /\ PayFault
              /\ DependentError
        /\ UNCHANGED cluster

\* Build or SetControllerReference returns an error.
BuildFails ==
    /\ Turn("create")
    /\ CanFail("build")
    /\ PayFault
    /\ DependentError
    /\ UNCHANGED cluster

\* The owner SetControllerReference records.
NoOwner(d) == 0
ControllerReference(d) == IF Config[d].owned THEN worker.res.uid ELSE 0

BuiltObjectAfresh(d) ==
    [exists |-> TRUE, owner |-> ControllerReference(d),
     content |-> primary.spec.want, ready |-> FALSE]

BuiltObject(d) ==
    [exists |-> TRUE, owner |-> ControllerReference(d),
     content |-> worker.res.spec.want, ready |-> FALSE]

CreateDependentExistsFails ==
    /\ Turn("create")
    /\ object[worker.next].exists
    /\ DependentError
    /\ UNCHANGED <<cluster, left>>

\* AlreadyExists, the answer when the cache was behind, is not an error.
CreateDependentExists ==
    /\ Turn("create")
    /\ object[worker.next].exists
    /\ worker' = NextDependent(worker)
    /\ UNCHANGED <<cluster, queued, left>>

CreateDependent ==
    LET d == worker.next
    IN  /\ Turn("create")
        /\ ~object[d].exists
        /\ \E o \in Outcomes("create", TRUE) :
              /\ Pay(TRUE, o)
              /\ IF o.applied THEN StoreObject(d, BuiltObject(d))
                 ELSE UNCHANGED objects
              /\ IF o.failed THEN DependentError
                 ELSE worker' = NextDependent(worker) /\ UNCHANGED queued
        /\ UNCHANGED <<primary, primaryEvents>>

UpdateDependent ==
    LET d == worker.next
    IN  /\ Turn("update")
        /\ \E o \in Outcomes("update", Accepted(worker.fetchedFresh)) :
              /\ Pay(Accepted(worker.fetchedFresh), o)
              /\ IF o.applied THEN StoreObject(d, worker.fetched)
                 ELSE UNCHANGED objects
              /\ IF o.failed THEN DependentError
                 ELSE worker' = NextDependent(worker) /\ UNCHANGED queued
        /\ UNCHANGED <<primary, primaryEvents>>

-----------------------------------------------------------------------------
(***************************************************************************)
(* UpdateStatusIfNeeded(resource, nil)                                     *)
(***************************************************************************)
AfterCheck(turn) ==
    LET w == [worker EXCEPT !.res.status = turn.status, !.changed = turn.updated]
    IN  \/ /\ worker.next < NDeps
           /\ worker' = [w EXCEPT !.next = @ + 1]
           /\ UNCHANGED queued
        \/ /\ worker.next = NDeps
           /\ turn.updated
           /\ worker' = [w EXCEPT !.pc = "status"]
           /\ UNCHANGED queued
        \/ /\ worker.next = NDeps
           /\ ~turn.updated
           /\ \E again \in Requeues : EndPass(again)

CheckDependent ==
    LET d == worker.next
        sofar == [updated |-> worker.changed, status |-> worker.res.status]
        turn(outcome) ==
            ComputeStatusTurn(sofar, d, GetCondition(outcome, cached[d].ready))
    IN  /\ Turn("check")
        /\ \/ /\ Config[d].checked
              /\ AfterCheck(turn(IF cached[d].exists THEN "found" ELSE "notFound"))
              /\ UNCHANGED left
           \/ /\ Config[d].checked
              /\ CanFail("check")
              /\ PayFault
              /\ AfterCheck(turn("failed"))
           \/ /\ ~Config[d].checked
              /\ AfterCheck(sofar)
              /\ UNCHANGED left
        /\ UNCHANGED cluster

\* Status().Update: an error is returned, and so retried, except where
\* Reconcile drops it because the primary could not be read at all.
WriteStatus ==
    /\ Turn("status")
    /\ \E o \in Outcomes("status", Accepted(worker.resFresh)) :
          /\ Pay(Accepted(worker.resFresh), o)
          /\ IF o.applied
             THEN StorePrimary([primary EXCEPT !.status = worker.res.status])
             ELSE UNCHANGED <<primary, primaryEvents>>
          /\ \E again \in Requeues :
                EndPass(CASE worker.err = FetchFailed -> FALSE
                          [] worker.err # FetchFailed /\ o.failed -> TRUE
                          [] worker.err = InvalidSpec /\ ~o.failed -> FALSE
                          [] OTHER -> again)
    /\ UNCHANGED objects

Reconcile ==
    \/ Dequeue \/ FetchPrimary \/ FetchPrimaryNotFound \/ FetchPrimaryFails
    \/ Delete \/ ProvideDefaultValues \/ StoreDefaults \/ CheckValidityFails
    \/ InitDependentResources \/ RegisterWatch \/ AllWatched
    \/ CreateOrUpdateExits \/ FetchDependent \/ BuildFails
    \/ CreateDependentExists \/ CreateDependent \/ UpdateDependent
    \/ CheckDependent \/ WriteStatus

-----------------------------------------------------------------------------
(***************************************************************************)
(* Informers, external: controller-runtime applies the versions of an      *)
(* object in order to a cache and then hands each to the event handlers.   *)
(* The primary is watched from RegisterNewReconciler on by the type it is  *)
(* read by, so one informer does both, and without a predicate, so writes  *)
(* of the status come back as requests too.  Dependents are watched as     *)
(* Unstructured objects and read as typed ones: controller-runtime keeps   *)
(* an informer for each form, and nothing orders the two.                  *)
(***************************************************************************)
DeliverPrimary ==
    /\ primaryEvents # <<>>
    /\ cachedPrimary' = Head(primaryEvents)
    /\ primaryEvents' = Tail(primaryEvents)
    /\ queued' = TRUE
    /\ UNCHANGED <<primary, objects, cached, watching, worker, left, outrun>>

DeliverObject(d) ==
    /\ objectEvents[d] # <<>>
    /\ cached' = [cached EXCEPT ![d] = Head(objectEvents[d])]
    /\ objectEvents' = [objectEvents EXCEPT ![d] = Tail(@)]
    /\ UNCHANGED <<primary, primaryEvents, object, notices, everExisted,
                   cachedPrimary, watching, queued, worker, left, outrun>>

DeliverNotice(d) ==
    /\ notices[d] > 0
    /\ notices' = [notices EXCEPT ![d] = @ - 1]
    /\ queued' = TRUE
    /\ outrun' = IF notices[d] = 1 /\ objectEvents[d] # <<>> THEN outrun \cup {d}
                 ELSE outrun
    /\ UNCHANGED <<primary, primaryEvents, object, objectEvents, everExisted,
                   cachedPrimary, cached, watching, worker, left>>

-----------------------------------------------------------------------------
(***************************************************************************)
(* Users, other controllers and the garbage collector, external            *)
(***************************************************************************)
PrimaryChanges(p) ==
    /\ StorePrimary(p)
    /\ worker' = [worker EXCEPT !.resFresh = FALSE]
    /\ UNCHANGED <<objects, informer, watching, queued>>

Disturb ==
    /\ left.disturbances > 0
    /\ left' = [left EXCEPT !.disturbances = @ - 1]

UserCreates ==
    /\ ~Exists(primary)
    /\ left.uids > 0
    /\ left' = [left EXCEPT !.uids = @ - 1]
    /\ \E s \in UserSpecs :
          PrimaryChanges([uid |-> MaxUid - left.uids + 1, spec |-> s,
                          status |-> EmptyStatus])

UserEdits ==
    /\ Exists(primary)
    /\ Disturb
    /\ \E s \in UserSpecs \ {primary.spec} : PrimaryChanges([primary EXCEPT !.spec = s])

UserDeletes ==
    /\ Exists(primary)
    /\ Disturb
    /\ PrimaryChanges(NoPrimary)

ObjectChanges(d, o) ==
    /\ StoreObject(d, o)
    /\ worker' = [worker EXCEPT !.fetchedFresh = @ /\ worker.next # d]
    /\ UNCHANGED <<primary, primaryEvents, informer, watching, queued>>

\* Another controller changes the readiness, or somebody the content.
OthersTouch(d) ==
    /\ object[d].exists
    /\ Disturb
    /\ \/ ObjectChanges(d, [object[d] EXCEPT !.ready = ~@])
       \/ \E c \in Wants \ {object[d].content} :
             ObjectChanges(d, [object[d] EXCEPT !.content = c])

OthersDelete(d) ==
    /\ object[d].exists
    /\ Disturb
    /\ ObjectChanges(d, NoObject)

OthersCreate(d) ==
    /\ d \in Foreign
    /\ ~object[d].exists
    /\ Disturb
    /\ \E c \in Wants :
          ObjectChanges(d, [exists |-> TRUE, owner |-> 0, content |-> c, ready |-> FALSE])

\* The owner an object refers to is gone.
Orphaned(d) == Owned(object[d]) /\ object[d].owner # primary.uid

GarbageCollect(d) ==
    /\ Orphaned(d)
    /\ Len(objectEvents[d]) < MaxLag /\ notices[d] < MaxLag
    /\ ObjectChanges(d, NoObject)
    /\ UNCHANGED left

\* The operator's process dies and starts again: its memory is lost, the
\* caches list the cluster anew, and every listed primary is a request.
Crash ==
    /\ Disturb
    /\ primaryEvents' = <<>>
    /\ objectEvents' = [d \in Deps |-> <<>>]
    /\ notices' = [d \in Deps |-> 0]
    /\ cachedPrimary' = primary
    /\ cached' = object
    /\ watching' = {}
    /\ worker' = Idle
    /\ queued' = Exists(primary)
    /\ outrun' = {}
    /\ UNCHANGED <<primary, object, everExisted>>

Environment ==
    \/ UserCreates \/ UserEdits \/ UserDeletes \/ Crash
    \/ \E d \in Deps : OthersTouch(d) \/ OthersDelete(d) \/ OthersCreate(d)

Next ==
    \/ Reconcile
    \/ DeliverPrimary
    \/ \E d \in Deps : DeliverObject(d) \/ DeliverNotice(d) \/ GarbageCollect(d)
    \/ Environment

Spec == Init /\ [][Next]_vars

(***************************************************************************)
(* The worker, the informers and the garbage collector keep running; users *)
(* and other controllers owe nothing.  It is enough that of the caches of  *)
(* the dependents one with something to deliver does, and so of their      *)
(* watches.                                                                *)
(***************************************************************************)
Fairness ==
    /\ WF_vars(Reconcile)
    /\ WF_vars(DeliverPrimary)
    /\ WF_vars(\E d \in Deps : DeliverObject(d))
    /\ WF_vars(\E d \in Deps : DeliverNotice(d))
    /\ WF_vars(\E d \in Deps : GarbageCollect(d))

FairSpec == Spec /\ Fairness
-----------------------------------------------------------------------------
(***************************************************************************)
(* Safety                                                                  *)
(***************************************************************************)
\* Dependents come into being in the order they were added
\* (AddDependentResource), whatever was stale, failed or restarted in
\* between: none the operator creates exists before every one ahead of it
\* that CreateOrUpdate handles has existed.
CreationOrder ==
    \A d \in everExisted \ Foreign, e \in Deps :
        e < d /\ (Config[e].created \/ Config[e].updated) => e \in everExisted

\* That, and more: the reconciler realises its dependents as Realisation has
\* it.  What it creates is what a valid spec asks for, though the user can
\* make the spec invalid during the pass.
Abstract == INSTANCE Realisation WITH
    Contents <- Wants,
    Askable <- {s.want : s \in {s \in UserSpecs : s.valid}},
    Creatable <- {d \in Deps : Config[d].created},
    Needs <- [d \in Deps |-> {e \in Deps : e < d /\ (Config[e].created \/ Config[e].updated)}],
    held <- [d \in Deps |-> IF object[d].exists THEN {object[d].content} ELSE {}],
    existed <- everExisted

RealisationSpec == Abstract!Spec

\* Nothing is under way and nothing is about to wake the operator.
Quiet ==
    /\ worker.pc = "idle"
    /\ ~queued
    /\ primaryEvents = <<>>
    /\ \A d \in Deps : objectEvents[d] = <<>> /\ notices[d] = 0 /\ ~Orphaned(d)

\* The dependents whose changes reach the controller: it creates them, with
\* a controller reference, and watches their kind.
Tracked(d) ==
    Config[d].watched /\ Config[d].owned /\ Config[d].created /\ d \notin Foreign

Realised(d) ==
    /\ Config[d].created => object[d].exists
    /\ object[d].exists /\ Config[d].updated => object[d].content = primary.spec.want

Accurate(d) ==
    Config[d].checked =>
        primary.status.conditions[d] =
            GetCondition(IF object[d].exists THEN "found" ELSE "notFound", object[d].ready)

Workable == Exists(primary) /\ primary.spec.defaulted /\ primary.spec.valid

\* No wake-up is lost but the one that outruns the cache: the operator never
\* comes to rest on a primary whose status claims all is well while a tracked
\* dependent is missing, is outdated or is reported wrongly, unless it was
\* told of the last version of a dependent before it could read it.
NoLostWakeup ==
    Quiet /\ outrun = {} /\ Exists(primary) /\ primary.status.reason # "Failed" =>
        \A d \in Deps : Tracked(d) => Realised(d) /\ Accurate(d)

\* As DependentResourceConfig has it, the operator is notified of a change of
\* a watched dependent, and so comes to rest on none it has not seen.
ChangesAreNoticed ==
    Quiet /\ Exists(primary) /\ primary.status.reason # "Failed" =>
        \A d \in Deps : Tracked(d) => Realised(d) /\ Accurate(d)

\* A request whose work is not done is made again: the operator never comes
\* to rest with the work undone, unless the user has to act on the spec or
\* it was told of the last version of a dependent before it could read it.
FailuresAreRetried ==
    Quiet /\ outrun = {} /\ Exists(primary)
          /\ (primary.spec.defaulted => primary.spec.valid) =>
        /\ primary.spec.defaulted
        /\ \A d \in Deps : Tracked(d) => Realised(d)

\* A failure is not reported once it is over and the operator has come to
\* rest: a pass without an error clears what an earlier one wrote.
FailureIsForgotten ==
    Quiet /\ outrun = {} /\ Workable /\ (\A d \in Deps : Tracked(d) => Realised(d)) =>
        primary.status.message = NoError

\* Without a failing call or a conflict, no dependent is ever reported as
\* failed: reading a cache that is behind is not an error (IsAlreadyExists
\* in CreateOrUpdate).
NoSpuriousFailure ==
    \A d \in Deps :
        Exists(primary) /\ primary.status.message = DependentFailed(d) =>
            left.faults < MaxFaults \/ Config[d].updated

\* As the comment of ComputeStatus has it, the status it computes is based
\* on every dependent that is checked for readiness: a primary is not
\* reported as ready before each of them has been looked at.
EveryCheckedDependentCounted ==
    primary.status.reason = "Ready" =>
        \A d \in Deps : Config[d].checked => primary.status.conditions[d] # "Unset"

(***************************************************************************)
(* Action properties                                                       *)
(***************************************************************************)
\* The operator changes nothing of a user's primary but its status and the
\* missing defaults: an edit is never overwritten from a stale copy.
UserSpecKept ==
    Reconcile =>
        /\ primary'.uid = primary.uid
        /\ primary'.spec \in {primary.spec, [primary.spec EXCEPT !.defaulted = TRUE]}

UserSpecPreserved == [][UserSpecKept]_vars

\* The operator only touches the content of an existing dependent, and only
\* if its configuration says updated: it keeps the owner and the readiness
\* others wrote since it read the object.
ObjectsKept ==
    Reconcile =>
        \A d \in Deps :
            object[d].exists /\ object'[d] # object[d] =>
                /\ Config[d].updated
                /\ \E c \in Wants : object'[d] = [object[d] EXCEPT !.content = c]

OnlyContentUpdated == [][ObjectsKept]_vars

(***************************************************************************)
(* Liveness                                                                *)
(***************************************************************************)
\* A dependent only others may create, and without which the loop over the
\* dependents stops.
Awaited(d) == ~Config[d].created /\ Config[d].updated /\ ~object[d].exists

\* The dependents the operator learns about: the tracked ones, or all of
\* them if the resource asks to be requeued.
Followed(d) == Tracked(d) \/ Requeues = {TRUE}

Converged ==
    Workable =>
        \/ /\ \A d \in Deps : Followed(d) => Realised(d) /\ Accurate(d)
           /\ primary.status.reason = AggregateReason(primary.status.conditions)
        \/ \E d \in Deps : Awaited(d) /\ primary.status.message = DependentFailed(d)

\* Nothing makes the operator look again at what it was told of too early.
Misled == outrun # {} /\ Requeues # {TRUE}

\* Once the others are done, the operator brings the cluster to the state
\* the spec asks for, reports it, and keeps it there; if it waits for a
\* dependent it may not create, it reports that.  Unless it asks to be
\* requeued, the last notice of a dependent must not outrun the cache.
EventuallyConverges == <>[](Converged \/ Misled)

\* Once the primary is gone for good, so is every dependent it should own,
\* those included that a pass under way created after the deletion.
NothingLeftBehind ==
    <>[](~Exists(primary)) =>
        <>[](\A d \in Deps \ Foreign : Config[d].owned => ~object[d].exists)
=============================================================================
