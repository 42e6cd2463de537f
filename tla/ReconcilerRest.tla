---------------------------- MODULE ReconcilerRest ----------------------------
(***************************************************************************)
(* What holds when the operator comes to rest (Reconciler), for every      *)
(* value of the constants: no wake-up is lost, no failure is given up on   *)
(* and none is reported for ever, unless the operator was told of the last *)
(* version of a dependent before the cache it reads had it.  Each property *)
(* says, under hypotheses about which calls can fail, that a state of rest *)
(* is a good one; the invariant behind them says of every position of a    *)
(* pass what will wake the operator once more if the work it leaves behind *)
(* is undone.                                                              *)
(***************************************************************************)
EXTENDS ReconcilerRefinement

(***************************************************************************)
(* Hypotheses                                                              *)
(***************************************************************************)
\* Reconcile drops the error of reading the primary, whose report the server
\* refuses, and that of storing the defaults: neither is retried.
DroppedErrorsDoNotOccur == "fetch" \notin FaultSites /\ "defaults" \notin FaultSites

\* UpdateStatusIfNeeded drops the error of a dependent that is reported
\* already, so only conflicts, which leave an event behind, are retried.
RepeatableErrorsDoNotOccur ==
    /\ FaultSites \cap {"get", "build", "create", "update"} = {}
    /\ \A d \in Deps : Handled(d) => Tracked(d)

(***************************************************************************)
(* The invariant                                                           *)
(***************************************************************************)
OwnedIfThere(o) == o.exists => Owned(o)

\* So each version of a tracked dependent is one the watch maps to a request.
OwnersKept == \A d \in Deps : Tracked(d) => OwnedIfThere(object[d])

\* What the cache has still to see of a tracked dependent, the operator has
\* still to be told of, or else the notice was the one that came too early.
Announced ==
    \A d \in Deps :
        Tracked(d) /\ Config[d].kind \in watching /\ objectEvents[d] # <<>> =>
            notices[d] > 0 \/ d \in outrun

Woken == queued \/ primaryEvents # <<>>

Still ==
    /\ ~Woken /\ outrun = {}
    /\ \A d \in Deps : Tracked(d) => objectEvents[d] = <<>> /\ notices[d] = 0

Looping == {"dependent", "create", "update", "check"}
Reading == {"prepare", "watch"} \cup Looping

\* A pass that works with an old copy will be followed by another.
Mindful ==
    /\ worker.pc = "delete" => queued \/ ~Exists(cachedPrimary)
    /\ worker.pc \in Reading \cup {"defaults", "status"} => worker.resFresh \/ Woken
    /\ worker.pc \in Reading /\ ~worker.changed /\ ~Woken => worker.res = primary
    /\ worker.pc \in Looping \cup {"watch"} => worker.res.spec.defaulted
    /\ worker.pc = "update" => worker.fetched.exists
    /\ worker.changed => worker.pc \in {"check", "status"}
    /\ worker.err # FetchFailed

\* Unless another pass follows, what the loops have passed is done.
Progress ==
    /\ worker.pc \in Looping => Unwatched = {}
    /\ Still /\ worker.pc \in {"dependent", "create", "update"} =>
          \A d \in Deps : Tracked(d) /\ d < worker.next => Realised(d)
    /\ Still /\ worker.pc = "create" /\ Tracked(worker.next) => ~object[worker.next].exists
    /\ Still /\ worker.pc = "update" /\ Tracked(worker.next) => worker.fetchedFresh
    /\ Still /\ worker.pc = "check" /\ ~worker.changed =>
          /\ \A d \in Deps : Tracked(d) => Realised(d)
          /\ \A d \in Deps : Tracked(d) /\ d < worker.next =>
                Accurate(d) \/ primary.status.reason = "Failed"
          /\ \A d \in Deps : Recomputes /\ Config[d].checked /\ d < worker.next =>
                primary.status.message = NoError

RestsWell ==
    primary.status.reason # "Failed" =>
        /\ Unwatched = {}
        /\ Still => \A d \in Deps : Tracked(d) => Realised(d) /\ Accurate(d)

RestsDone ==
    RepeatableErrorsDoNotOccur /\ (primary.spec.defaulted => primary.spec.valid) =>
        /\ Unwatched = {}
        /\ primary.spec.defaulted
        /\ Still => /\ \A d \in Deps : Tracked(d) => Realised(d)
                    /\ \A d \in Deps : Recomputes /\ Config[d].checked =>
                          primary.status.message = NoError

Rested == worker.pc = "idle" /\ ~Woken /\ Exists(primary) => RestsWell /\ RestsDone

PassInv == Mindful /\ Progress /\ Rested

RestInv == OrderInv /\ CopiesInv /\ HonestInv /\ OwnersKept /\ Announced /\ PassInv

(***************************************************************************)
(* The owners of the dependents, and what the operator is told of them.    *)
(***************************************************************************)
\* What the pass stores for a dependent is there and has its owner.
LEMMA PassStoresOwned ==
    ASSUME TypeOK, CopiesAgree, PassHonest, Mindful, OwnersKept,
           NEW o, Tracked(worker.next),
           \/ worker.pc = "create" /\ o = BuiltObject(worker.next)
           \/ worker.pc = "update" /\ worker.fetchedFresh /\ o = worker.fetched
    PROVE  o.exists /\ Owned(o)
<1>1. worker.next \in Deps
  BY DEF TypeOK, Workers, Deps
<1>2. CASE worker.pc = "create" /\ o = BuiltObject(worker.next)
  <2>1. worker.res.uid # 0 /\ Config[worker.next].owned
    BY <1>2 DEF PassHonest, Realising, Exists, Tracked
  <2> QED BY <1>2, <2>1 DEF BuiltObject, ControllerReference, Owned
<1>3. CASE worker.pc = "update" /\ worker.fetchedFresh /\ o = worker.fetched
  <2>1. o.exists
    BY <1>3 DEF Mindful
  <2>2. PICK c \in Wants : o = [object[worker.next] EXCEPT !.content = c]
    BY <1>3 DEF CopiesAgree, Edited
  <2>3. o.exists = object[worker.next].exists /\ o.owner = object[worker.next].owner
    BY <1>1, <2>2 DEF TypeOK, Objects
  <2>4. OwnedIfThere(object[worker.next])
    BY <1>1 DEF OwnersKept
  <2> QED BY <2>1, <2>3, <2>4 DEF OwnedIfThere, Owned
<1> QED BY <1>2, <1>3

\* Nor do others take the owner of a dependent away.
LEMMA OthersLeaveOwner ==
    ASSUME TypeOK, OwnersKept, NEW d \in Deps,
           OthersTouch(d) \/ OthersDelete(d) \/ OthersCreate(d) \/ GarbageCollect(d)
    PROVE  \E o \in Objects :
              /\ ObjectChanges(d, o)
              /\ Tracked(d) => OwnedIfThere(o) /\ object[d].exists
<1>0. object[d] \in Objects /\ (Tracked(d) => OwnedIfThere(object[d]))
  BY DEF TypeOK, OwnersKept
<1>1. CASE OthersTouch(d)
  <2>1. PICK o \in Objects : /\ ObjectChanges(d, o)
                             /\ o.exists = object[d].exists /\ o.owner = object[d].owner
    <3>1. ASSUME NEW o, \/ o = [object[d] EXCEPT !.ready = ~@]
                        \/ \E c \in Wants : o = [object[d] EXCEPT !.content = c]
          PROVE  /\ o \in Objects
                 /\ o.exists = object[d].exists /\ o.owner = object[d].owner
      BY <1>0, <3>1 DEF Objects
    <3>2. PICK o : /\ ObjectChanges(d, o)
                   /\ \/ o = [object[d] EXCEPT !.ready = ~@]
                      \/ \E c \in Wants : o = [object[d] EXCEPT !.content = c]
      BY <1>1, Zenon DEF OthersTouch
    <3> QED BY <3>1, <3>2
  <2> QED BY <1>0, <1>1, <2>1 DEF OthersTouch, OwnedIfThere, Owned
<1>2. CASE OthersDelete(d) \/ GarbageCollect(d)
  <2>1. object[d].exists /\ ObjectChanges(d, NoObject)
    BY <1>2 DEF OthersDelete, GarbageCollect, Orphaned, Owned
  <2>2. NoObject \in Objects /\ OwnedIfThere(NoObject)
    BY RecordTypes DEF NoObject, OwnedIfThere
  <2> QED BY <2>1, <2>2
<1>3. CASE OthersCreate(d)
  <2>1. ~Tracked(d)
    BY <1>3 DEF OthersCreate, Tracked
  <2> QED BY <1>3, <2>1, OthersWrite
<1> QED BY <1>1, <1>2, <1>3

\* The watch maps a version of a tracked dependent to the primary by its
\* owner or, if it is deleted, by the owner it had.
LEMMA StoreIsAnnounced ==
    ASSUME TypeOK, OwnersKept, Announced, UNCHANGED <<watching, outrun>>,
           NEW d \in Deps, NEW o \in Objects, StoreObject(d, o),
           Tracked(d) => OwnedIfThere(o) /\ (o.exists \/ object[d].exists)
    PROVE  OwnersKept' /\ Announced'
<1>1. /\ object' = [object EXCEPT ![d] = o]
      /\ objectEvents' = [objectEvents EXCEPT ![d] = Append(@, o)]
      /\ notices' = [notices EXCEPT ![d] = IF Noticed(d, o) THEN @ + 1 ELSE @]
      /\ object \in [Deps -> Objects] /\ objectEvents \in [Deps -> Seq(Objects)]
      /\ notices \in [Deps -> Nat]
  BY DEF StoreObject, TypeOK
<1>2. OwnersKept'
  BY <1>1 DEF OwnersKept, Tracked
<1>3. ASSUME NEW e \in Deps, Tracked(e), Config[e].kind \in watching, objectEvents'[e] # <<>>
      PROVE  notices'[e] > 0 \/ e \in outrun
  <2>1. CASE e # d
    BY <1>1, <1>3, <2>1 DEF Announced
  <2>2. CASE e = d
    <3>1. Noticed(d, o)
      BY <1>3, <2>2 DEF OwnersKept, OwnedIfThere, Noticed
    <3> QED BY <1>1, <2>2, <3>1
  <2> QED BY <2>1, <2>2
<1> QED BY <1>2, <1>3 DEF Announced, Tracked

LEMMA OwnersAnnounced ==
    ASSUME OrderInv, CopiesInv, HonestInv, OwnersKept, Announced, Mindful, [Next]_vars
    PROVE  OwnersKept' /\ Announced'
<1>0. TypeOK /\ CopiesAgree /\ PassHonest
  BY DEF CopiesInv, HonestInv
<1>1. ASSUME UNCHANGED <<object, objectEvents, notices, watching>>,
             \A d \in Deps : d \in outrun /\ objectEvents[d] # <<>> => d \in outrun'
      PROVE  OwnersKept' /\ Announced'
  BY <1>1 DEF OwnersKept, Announced, Tracked
<1>2. CASE Reconcile /\ ~Dequeue /\ ~RegisterWatch
  <2>1. UNCHANGED <<watching, outrun>>
    BY <1>2 DEF Reconcile, FetchPrimary, FetchPrimaryNotFound, FetchPrimaryFails, Delete,
       ProvideDefaultValues, StoreDefaults, CheckValidityFails, InitDependentResources,
       AllWatched, CreateOrUpdateExits, FetchDependent, BuildFails, CreateDependentExists,
       CreateDependent, UpdateDependent, CheckDependent, WriteStatus, Turn, informer
  <2>2. CASE ~CreateDependent /\ ~UpdateDependent
    <3>1. UNCHANGED objects
      BY <1>2, <2>2 DEF Reconcile, FetchPrimary, FetchPrimaryNotFound, FetchPrimaryFails, Delete,
         ProvideDefaultValues, StoreDefaults, CheckValidityFails, InitDependentResources,
         AllWatched, CreateOrUpdateExits, FetchDependent, BuildFails, CreateDependentExists,
         CheckDependent, WriteStatus, cluster
    <3> QED BY <1>1, <2>1, <3>1 DEF objects
  <2>3. CASE CreateDependent \/ UpdateDependent
    <3>1. \/ UNCHANGED objects
          \/ worker.pc = "create" /\ StoreObject(worker.next, BuiltObject(worker.next))
          \/ /\ worker.pc = "update" /\ worker.fetchedFresh
             /\ StoreObject(worker.next, worker.fetched)
      <4>1. \A o \in Outcomes("update", Accepted(worker.fetchedFresh)) :
               o.applied => worker.fetchedFresh
        BY DEF Outcomes, Accepted
      <4> QED BY <2>3, <4>1, Zenon DEF CreateDependent, UpdateDependent, Turn
    <3>2. /\ worker.next \in Deps
          /\ worker.fetched \in Objects /\ BuiltObject(worker.next) \in Objects
      BY <1>0, BuiltType DEF TypeOK, Workers, Deps
    <3>3. ASSUME NEW o \in Objects, StoreObject(worker.next, o),
                 \/ worker.pc = "create" /\ o = BuiltObject(worker.next)
                 \/ worker.pc = "update" /\ worker.fetchedFresh /\ o = worker.fetched
          PROVE  OwnersKept' /\ Announced'
      <4>1. Tracked(worker.next) =>
               OwnedIfThere(o) /\ (o.exists \/ object[worker.next].exists)
        BY <1>0, <3>3, PassStoresOwned DEF OwnedIfThere
      <4> QED BY <1>0, <2>1, <3>2, <3>3, <4>1, StoreIsAnnounced
    <3>4. UNCHANGED objects => OwnersKept' /\ Announced'
      BY <1>1, <2>1 DEF objects
    <3> QED BY <3>1, <3>2, <3>3, <3>4
  <2> QED BY <2>2, <2>3
<1>3. CASE Dequeue
  BY <1>1, <1>3 DEF Dequeue, cluster, objects
<1>4. CASE RegisterWatch
  <2> DEFINE k == Config[FirstUnwatched].kind
             listed == {d \in Deps : Config[d].kind = k}
  <2>1. CASE UNCHANGED <<watching, notices, outrun>>
    BY <1>1, <1>4, <2>1 DEF RegisterWatch
  <2>2. CASE /\ watching' = watching \cup {k}
             /\ notices' = [d \in Deps |-> IF d \notin listed THEN notices[d]
                                          ELSE IF Owned(object[d]) THEN 1 ELSE 0]
             /\ outrun' = outrun \cup
                    {d \in listed : ~object[d].exists /\ objectEvents[d] # <<>>}
    <3>1. UNCHANGED <<object, objectEvents>>
      BY <1>4 DEF RegisterWatch
    <3>2. OwnersKept'
      BY <3>1 DEF OwnersKept, Tracked
    <3> HIDE DEF k
    <3>3. ASSUME NEW d \in Deps, Tracked(d), Config[d].kind \in watching',
                 objectEvents[d] # <<>>
          PROVE  notices'[d] > 0 \/ d \in outrun'
      <4>1. CASE d \notin listed
        <5>1. Config[d].kind \in watching /\ notices'[d] = notices[d]
          BY <2>2, <3>3, <4>1
        <5> QED BY <2>2, <3>3, <5>1 DEF Announced
      <4>2. CASE d \in listed /\ object[d].exists
        BY <2>2, <3>3, <4>2 DEF OwnersKept, OwnedIfThere
      <4>3. CASE d \in listed /\ ~object[d].exists
        BY <2>2, <3>3, <4>3
      <4> QED BY <4>1, <4>2, <4>3
    <3> QED BY <3>1, <3>2, <3>3 DEF Announced, Tracked
  <2> QED BY <1>4, <2>1, <2>2, Zenon DEF RegisterWatch
<1>5. ASSUME NEW d \in Deps, DeliverObject(d)
      PROVE  OwnersKept' /\ Announced'
  <2>1. /\ objectEvents' = [objectEvents EXCEPT ![d] = Tail(@)] /\ objectEvents[d] # <<>>
        /\ UNCHANGED <<object, notices, outrun, watching>>
        /\ objectEvents \in [Deps -> Seq(Objects)]
    BY <1>0, <1>5 DEF DeliverObject, TypeOK
  <2>2. \A e \in Deps : objectEvents'[e] # <<>> => objectEvents[e] # <<>>
    BY <2>1
  <2> QED BY <2>1, <2>2 DEF OwnersKept, Announced, Tracked
<1>6. ASSUME NEW d \in Deps, DeliverNotice(d)
      PROVE  OwnersKept' /\ Announced'
  <2>1. /\ notices' = [notices EXCEPT ![d] = @ - 1] /\ notices \in [Deps -> Nat]
        /\ notices[d] > 0
        /\ outrun' = IF notices[d] = 1 /\ objectEvents[d] # <<>> THEN outrun \cup {d}
                     ELSE outrun
        /\ UNCHANGED <<object, objectEvents, watching>>
    BY <1>0, <1>6 DEF DeliverNotice, TypeOK
  <2>2. \A e \in Deps : e # d => notices'[e] = notices[e]
    BY <2>1
  <2>3. objectEvents[d] # <<>> => notices'[d] > 0 \/ d \in outrun'
    BY <2>1
  <2> QED BY <2>1, <2>2, <2>3 DEF OwnersKept, Announced, Tracked
<1>7. ASSUME NEW d \in Deps,
             OthersTouch(d) \/ OthersDelete(d) \/ OthersCreate(d) \/ GarbageCollect(d)
      PROVE  OwnersKept' /\ Announced'
  <2>1. PICK o \in Objects : /\ ObjectChanges(d, o)
                             /\ Tracked(d) => OwnedIfThere(o) /\ object[d].exists
    BY <1>0, <1>7, OthersLeaveOwner
  <2> QED BY <1>0, <2>1, StoreIsAnnounced DEF ObjectChanges, informer
<1>8. CASE DeliverPrimary \/ UserCreates \/ UserEdits \/ UserDeletes
  BY <1>1, <1>8 DEF DeliverPrimary, UserCreates, UserEdits, UserDeletes, PrimaryChanges,
     informer, objects
<1>9. CASE Crash
  <2>1. /\ object' = object /\ objectEvents' = [d \in Deps |-> <<>>]
    BY <1>9 DEF Crash
  <2> QED BY <2>1 DEF OwnersKept, Announced, Tracked
<1>10. CASE UNCHANGED vars
  BY <1>1, <1>10 DEF vars
<1> QED BY <1>2, <1>3, <1>4, <1>5, <1>6, <1>7, <1>8, <1>9, <1>10 DEF Next, Environment

\* What the cache has still to see of a tracked dependent will wake the
\* operator, once its kind is watched.
LEMMA DeliveryIsAnnounced ==
    ASSUME Announced, NEW d \in Deps, Tracked(d), Unwatched = {}, DeliverObject(d)
    PROVE  notices[d] # 0 \/ outrun # {}
<1>1. Config[d].kind \in watching
  BY DEF Unwatched, Tracked
<1> QED BY <1>1 DEF DeliverObject, Announced

(***************************************************************************)
(* What the steps leave of the work and of the wake-ups.                   *)
(***************************************************************************)
LEMMA NextDependentFields ==
    ASSUME TypeOK, worker' = NextDependent(worker)
    PROVE  /\ worker'.res = worker.res /\ worker'.resFresh = worker.resFresh
           /\ worker'.changed = worker.changed /\ worker'.err = worker.err
           /\ \/ worker'.pc = "dependent" /\ worker'.next = worker.next + 1
              \/ worker'.pc = "check" /\ worker'.next = 1 /\ worker.next = NDeps
<1>1. worker \in Workers /\ worker.next \in 1..NDeps
  BY DEF TypeOK, Workers
<1>2. CASE worker.next < NDeps
  <2>1. worker' = [worker EXCEPT !.pc = "dependent", !.next = worker.next + 1]
    BY <1>2 DEF NextDependent
  <2> QED BY <1>1, <2>1, Zenon DEF Workers
<1>3. CASE ~(worker.next < NDeps)
  <2>1. worker' = [worker EXCEPT !.pc = "check", !.next = 1]
    BY <1>3 DEF NextDependent
  <2>2. worker.next = NDeps
    BY <1>1, <1>3, NDepsAssumption
  <2> QED BY <1>1, <2>1, <2>2, Zenon DEF Workers
<1> QED BY <1>2, <1>3

LEMMA ErrorFields ==
    ASSUME TypeOK, NEW e, NEW requeues \in SUBSET BOOLEAN, ReportError(e, requeues)
    PROVE  /\ queued => queued'
           /\ \/ /\ worker'.pc = "status" /\ worker'.resFresh = worker.resFresh
                 /\ worker'.err = e
              \/ worker' = Idle /\ worker.res.status.reason = "Failed"
<1> DEFINE handled == DefaultErrorHandler(worker.res.status, e)
           s == handled.status
<1>1. worker \in Workers /\ worker.res \in Primaries
  BY DEF TypeOK, Workers
<1>2. CASE handled.updated
  <2>1. worker' = [worker EXCEPT !.pc = "status", !.err = e, !.res.status = s]
        /\ queued' = queued
    BY <1>2, Zenon DEF ReportError
  <2> HIDE DEF s
  <2> QED BY <1>1, <2>1, Zenon DEF Workers, Primaries
<1>3. CASE ~handled.updated
  <2>1. \E again \in requeues : EndPass(again)
    BY <1>3, Zenon DEF ReportError
  <2>2. worker.res.status.reason = "Failed"
    BY <1>3 DEF DefaultErrorHandler
  <2> QED BY <2>1, <2>2 DEF EndPass
<1> QED BY <1>2, <1>3

\* A step that leaves the operator still found it so, and wrote to no
\* tracked dependent.
LEMMA StillBefore ==
    ASSUME TypeOK, queued => queued', UNCHANGED <<primaryEvents, outrun>>, NEW d \in Deps,
           \/ UNCHANGED <<object, objectEvents, notices>>
           \/ \E o \in Objects : StoreObject(d, o),
           Still'
    PROVE  /\ Still
           /\ \A e \in Deps : Tracked(e) => object'[e] = object[e]
<1>0. /\ object \in [Deps -> Objects] /\ objectEvents \in [Deps -> Seq(Objects)]
      /\ \A e \in Deps : Tracked(e)' <=> Tracked(e)
  BY DEF TypeOK, Tracked
<1>1. ~Woken
  BY DEF Still, Woken
<1>2. CASE UNCHANGED <<object, objectEvents, notices>>
  BY <1>0, <1>1, <1>2 DEF Still
<1>3. ASSUME NEW o \in Objects, StoreObject(d, o)
      PROVE  /\ Still
             /\ \A e \in Deps : Tracked(e) => object'[e] = object[e]
  <2>1. Append(objectEvents[d], o) # <<>>
    BY <1>0, AppendProperties
  <2>2. /\ objectEvents' = [objectEvents EXCEPT ![d] = Append(objectEvents[d], o)]
        /\ object' = [object EXCEPT ![d] = o]
        /\ \A e \in Deps : e # d => notices'[e] = notices[e]
    BY <1>3 DEF StoreObject, TypeOK
  <2>3. ~Tracked(d)
    BY <1>0, <2>1, <2>2 DEF Still
  <2> QED BY <1>0, <1>1, <2>2, <2>3 DEF Still
<1> QED BY <1>2, <1>3

LEMMA RealisedStays ==
    ASSUME NEW d, object'[d] = object[d], UNCHANGED primary
    PROVE  /\ Realised(d) => Realised(d)'
           /\ Accurate(d) => Accurate(d)'
BY DEF Realised, Accurate

(***************************************************************************)
(* The ways a step of the pass can go on.                                  *)
(***************************************************************************)
LEMMA PassEndsWoken ==
    ASSUME worker' = Idle, Exists(primary') => Woken'
    PROVE  PassInv'
BY DEF Idle, PassInv, Mindful, Progress, Rested, Reading, Looping, FetchFailed, NoError

LEMMA PassReports ==
    ASSUME worker'.pc = "status", worker'.resFresh \/ Woken', worker'.err # FetchFailed
    PROVE  PassInv'
BY DEF PassInv, Mindful, Progress, Rested, Reading, Looping

\* An error that is reported already ends the pass for good: that happens
\* only while a failure is on the status, or if some error can repeat.
LEMMA ErrorStops ==
    ASSUME TypeOK, PassInv, UNCHANGED <<primary, primaryEvents, watching>>,
           worker.pc \in {"dependent", "create", "update"}, DependentError,
           Still' => ~RepeatableErrorsDoNotOccur
    PROVE  PassInv'
<1>1. /\ queued => queued'
      /\ \/ /\ worker'.pc = "status" /\ worker'.resFresh = worker.resFresh
            /\ worker'.err = DependentFailed(worker.next)
         \/ worker' = Idle /\ worker.res.status.reason = "Failed"
  BY ErrorFields, EnvironmentAssumption DEF DependentError
<1>2. Woken => Woken'
  BY <1>1 DEF Woken
<1>3. CASE worker'.pc = "status"
  <2>1. worker.resFresh \/ Woken
    BY DEF PassInv, Mindful, Reading, Looping
  <2>2. worker'.resFresh = worker.resFresh /\ worker'.err # FetchFailed
    BY <1>1, <1>3 DEF Idle, DependentFailed, FetchFailed
  <2> QED BY <1>2, <1>3, <2>1, <2>2, PassReports
<1>4. CASE worker' = Idle /\ worker.res.status.reason = "Failed" /\ ~Woken'
  <2>1. /\ worker.res = primary /\ worker.res.spec.defaulted
        /\ Unwatched = {}
    BY <1>2, <1>4 DEF PassInv, Mindful, Progress, Reading, Looping
  <2>2. /\ primary' = primary /\ primary.status.reason = "Failed" /\ primary.spec.defaulted
        /\ Unwatched' = {}
    BY <1>4, <2>1 DEF Unwatched
  <2>3. RestsWell'
    BY <2>2 DEF RestsWell
  <2>4. RestsDone'
    BY <2>2 DEF RestsDone, RepeatableErrorsDoNotOccur, Handled, Tracked
  <2>5. Rested'
    BY <2>3, <2>4 DEF Rested
  <2>6. worker'.pc = "idle" /\ worker'.err = NoError /\ ~worker'.changed
    BY <1>4 DEF Idle
  <2> QED BY <2>5, <2>6 DEF PassInv, Mindful, Progress, Reading, Looping, FetchFailed, NoError
<1> QED BY <1>1, <1>3, <1>4, PassEndsWoken

\* Moving on to the next dependent, or to the status, leaves this one done.
LEMMA PassAdvances ==
    ASSUME TypeOK, PassInv, UNCHANGED <<primary, primaryEvents, watching, queued, outrun>>,
           worker.pc \in {"dependent", "create", "update"},
           worker' = NextDependent(worker),
           \/ UNCHANGED <<object, objectEvents, notices>>
           \/ \E o \in Objects : StoreObject(worker.next, o),
           \A d \in Deps : Still' /\ d = worker.next /\ Tracked(d) => Realised(d)'
    PROVE  PassInv'
<1>0. worker.next \in Deps /\ ~worker.changed
  BY DEF TypeOK, Workers, Deps, PassInv, Mindful
<1>1. /\ worker'.res = worker.res /\ worker'.resFresh = worker.resFresh
      /\ worker'.changed = worker.changed /\ worker'.err = worker.err
      /\ \/ worker'.pc = "dependent" /\ worker'.next = worker.next + 1
         \/ worker'.pc = "check" /\ worker'.next = 1 /\ worker.next = NDeps
  BY NextDependentFields
<1>2. Woken' = Woken /\ Unwatched' = Unwatched
  BY DEF Woken, Unwatched
<1>3. Mindful'
  BY <1>0, <1>1, <1>2 DEF PassInv, Mindful, Reading, Looping
<1>4. ASSUME Still', NEW d \in Deps, Tracked(d), d < worker.next + 1
      PROVE  Realised(d)'
  <2>1. Still /\ object'[d] = object[d]
    BY <1>0, <1>4, StillBefore
  <2>2. CASE d < worker.next
    BY <1>4, <2>1, <2>2, RealisedStays DEF PassInv, Progress
  <2>3. CASE d = worker.next
    BY <1>4, <2>3
  <2>4. d < worker.next \/ d = worker.next
    BY <1>0, <1>4, NDepsAssumption DEF Deps
  <2> QED BY <2>2, <2>3, <2>4
<1>5. Progress'
  <2>1. Unwatched' = {}
    BY <1>2 DEF PassInv, Progress, Looping
  <2>2. CASE worker'.pc = "dependent" /\ worker'.next = worker.next + 1
    BY <1>4, <2>1, <2>2 DEF Progress, Tracked
  <2>3. CASE worker'.pc = "check" /\ worker'.next = 1 /\ worker.next = NDeps
    <3>1. Still' => \A d \in Deps : Tracked(d) => Realised(d)'
      BY <1>4, <2>3, NDepsAssumption DEF Deps
    <3>2. \A d \in Deps : ~(d < worker'.next)
      BY <2>3 DEF Deps
    <3> QED BY <2>1, <2>3, <3>1, <3>2 DEF Progress, Tracked
  <2> QED BY <1>1, <2>2, <2>3
<1>6. Rested'
  BY <1>1 DEF Rested
<1> QED BY <1>3, <1>5, <1>6 DEF PassInv

(***************************************************************************)
(* The steps of the pass.                                                  *)
(***************************************************************************)
LEMMA RestPrepare ==
    ASSUME TypeOK, CachesCatchUp, LoopInOrder, PassInv, DroppedErrorsDoNotOccur,
           \/ Dequeue \/ FetchPrimary \/ FetchPrimaryNotFound \/ FetchPrimaryFails
           \/ Delete \/ ProvideDefaultValues \/ StoreDefaults \/ CheckValidityFails
           \/ InitDependentResources \/ RegisterWatch \/ AllWatched
    PROVE  PassInv'
<1>0. worker \in Workers /\ worker.res \in Primaries /\ Mindful /\ Progress
  BY DEF TypeOK, Workers, PassInv
<1>1. \A again : again /\ EndPass(again) => PassInv'
  BY PassEndsWoken DEF EndPass, Woken
<1>2. CASE Dequeue
  <2>1. /\ worker'.pc = "fetch" /\ worker'.changed = worker.changed
        /\ worker'.err = worker.err /\ worker.pc = "idle"
    BY <1>0, <1>2, Zenon DEF Dequeue, Workers
  <2> QED BY <1>0, <2>1 DEF PassInv, Mindful, Progress, Rested, Reading, Looping
<1>3. CASE FetchPrimary
  <2>1. /\ worker'.pc = "prepare" /\ worker'.res = cachedPrimary
        /\ worker'.resFresh = (primaryEvents = <<>>)
        /\ worker'.changed = worker.changed /\ worker'.err = worker.err
        /\ worker.pc = "fetch"
    BY <1>0, <1>3, Zenon DEF FetchPrimary, Workers
  <2>2. UNCHANGED <<primary, primaryEvents, queued>>
    BY <1>3 DEF FetchPrimary, cluster, objects
  <2>3. ~Woken' => worker'.res = primary'
    BY <2>1, <2>2 DEF Woken, CachesCatchUp, Feeds
  <2>4. worker'.resFresh \/ Woken'
    BY <2>1, <2>2 DEF Woken
  <2> QED BY <1>0, <2>1, <2>3, <2>4 DEF PassInv, Mindful, Progress, Rested, Reading, Looping
<1>4. CASE FetchPrimaryNotFound
  <2>1. /\ worker'.pc = "delete" /\ worker'.changed = worker.changed
        /\ worker'.err = worker.err /\ worker.pc = "fetch"
    BY <1>0, <1>4, Zenon DEF FetchPrimaryNotFound, Workers
  <2>2. ~Exists(cachedPrimary')
    BY <1>4 DEF FetchPrimaryNotFound, informer, objects
  <2> QED BY <1>0, <2>1, <2>2 DEF PassInv, Mindful, Progress, Rested, Reading, Looping
<1>5. CASE FetchPrimaryFails
  BY <1>5 DEF FetchPrimaryFails, CanFail, DroppedErrorsDoNotOccur
<1>6. CASE Delete
  <2>1. CASE EndPass(FALSE)
    <3>1. queued \/ ~Exists(cachedPrimary)
      BY <1>0, <1>6 DEF Delete, Mindful
    <3>2. worker' = Idle /\ queued' = queued /\ UNCHANGED <<primary, primaryEvents>>
      BY <1>6, <2>1 DEF Delete, EndPass, cluster, objects, TypeOK
    <3>3. Exists(primary') => Woken'
      BY <3>1, <3>2 DEF Woken, CachesCatchUp, Feeds, Exists
    <3> QED BY <3>2, <3>3, PassEndsWoken
  <2> QED BY <1>1, <1>6, <2>1 DEF Delete
<1>7. CASE ProvideDefaultValues
  <2>1. /\ worker'.pc = "defaults" /\ worker'.resFresh = worker.resFresh
        /\ worker'.changed = worker.changed /\ worker'.err = worker.err
        /\ worker.pc = "prepare"
    BY <1>0, <1>7, Zenon DEF ProvideDefaultValues, Workers
  <2>2. Woken' = Woken
    BY <1>7 DEF ProvideDefaultValues, cluster, objects, Woken
  <2> QED BY <1>0, <2>1, <2>2 DEF PassInv, Mindful, Progress, Rested, Reading, Looping
<1>8. CASE StoreDefaults
  <2>1. PICK o \in Outcomes("defaults", Accepted(worker.resFresh)) :
          IF o.applied THEN StorePrimary([primary EXCEPT !.spec = worker.res.spec])
          ELSE UNCHANGED <<primary, primaryEvents>>
    BY <1>8, Zenon DEF StoreDefaults
  <2>2. worker' = Idle /\ (queued => queued') /\ worker.pc = "defaults"
    BY <1>8 DEF StoreDefaults, EndPass
  <2>3. CASE worker.resFresh
    <3>1. o.applied
      BY <2>1, <2>3 DEF Outcomes, Accepted, CanFail, DroppedErrorsDoNotOccur
    <3>2. primaryEvents' # <<>>
      <4>1. /\ primaryEvents' = Append(primaryEvents, [primary EXCEPT !.spec = worker.res.spec])
            /\ [primary EXCEPT !.spec = worker.res.spec] \in Primaries
            /\ primaryEvents \in Seq(Primaries)
        BY <1>0, <2>1, <3>1 DEF StorePrimary, TypeOK, Primaries
      <4> QED BY <4>1, AppendProperties
    <3> QED BY <2>2, <3>2, PassEndsWoken DEF Woken
  <2>4. CASE ~worker.resFresh
    <3>1. ~o.applied
      BY <2>1, <2>4 DEF Outcomes, Accepted
    <3>2. Woken
      BY <1>0, <2>2, <2>4 DEF Mindful
    <3> QED BY <2>1, <2>2, <3>1, <3>2, PassEndsWoken DEF Woken
  <2> QED BY <2>3, <2>4
<1>9. CASE CheckValidityFails
  <2>1. /\ queued => queued'
        /\ \/ /\ worker'.pc = "status" /\ worker'.resFresh = worker.resFresh
              /\ worker'.err = InvalidSpec
           \/ worker' = Idle /\ worker.res.status.reason = "Failed"
    BY <1>9, ErrorFields DEF CheckValidityFails
  <2>2. /\ worker.pc = "prepare" /\ worker.res.spec.defaulted /\ ~worker.res.spec.valid
        /\ UNCHANGED <<primary, primaryEvents>>
    BY <1>9 DEF CheckValidityFails, cluster, objects
  <2>3. Woken => Woken'
    BY <2>1, <2>2 DEF Woken
  <2>4. CASE worker'.pc = "status"
    <3>1. (worker.resFresh \/ Woken) /\ worker'.resFresh = worker.resFresh
          /\ worker'.err # FetchFailed
      BY <1>0, <2>1, <2>2, <2>4 DEF Mindful, Reading, Idle, InvalidSpec, FetchFailed
    <3> QED BY <2>3, <2>4, <3>1, PassReports
  <2>5. CASE worker' = Idle /\ worker.res.status.reason = "Failed" /\ ~Woken'
    <3>1. worker.res = primary
      BY <1>0, <2>2, <2>3, <2>5 DEF Mindful, Reading, Looping
    <3>2. /\ primary'.status.reason = "Failed"
          /\ primary'.spec.defaulted /\ ~primary'.spec.valid
      BY <2>2, <2>5, <3>1
    <3>3. Rested'
      BY <3>2 DEF Rested, RestsWell, RestsDone
    <3>4. worker'.pc = "idle" /\ worker'.err = NoError /\ ~worker'.changed
      BY <2>5 DEF Idle
    <3> QED BY <3>3, <3>4 DEF PassInv, Mindful, Progress, Reading, Looping, FetchFailed, NoError
  <2> QED BY <2>1, <2>4, <2>5, PassEndsWoken
<1>10. CASE InitDependentResources
  <2>1. CASE worker' = [worker EXCEPT !.pc = "watch"] /\ UNCHANGED queued
    <3>1. /\ worker'.pc = "watch" /\ worker'.resFresh = worker.resFresh
          /\ worker'.res = worker.res
          /\ worker'.changed = worker.changed /\ worker'.err = worker.err
      BY <1>0, <2>1, Zenon DEF Workers
    <3>2. worker.pc = "prepare" /\ worker.res.spec.defaulted /\ Woken' = Woken
          /\ primary' = primary
      BY <1>10, <2>1 DEF InitDependentResources, cluster, objects, Woken
    <3> QED BY <1>0, <3>1, <3>2 DEF PassInv, Mindful, Progress, Rested, Reading, Looping
  <2> QED BY <1>1, <1>10, <2>1 DEF InitDependentResources
<1>11. CASE RegisterWatch
  <2>1. CASE worker' = worker /\ queued' = queued
    <3>1. worker.pc = "watch" /\ Woken' = Woken /\ primary' = primary
      BY <1>11, <2>1 DEF RegisterWatch, Woken
    <3> QED BY <1>0, <2>1, <3>1 DEF PassInv, Mindful, Progress, Rested, Reading, Looping
  <2>2. \/ worker' = worker /\ queued' = queued
        \/ EndPass(TRUE)
    BY <1>11 DEF RegisterWatch
  <2> QED BY <1>1, <2>1, <2>2
<1>12. CASE AllWatched
  <2>1. /\ worker'.pc = "dependent" /\ worker'.resFresh = worker.resFresh
        /\ worker'.res = worker.res /\ worker'.next = worker.next
        /\ worker'.changed = worker.changed /\ worker'.err = worker.err
    BY <1>0, <1>12, Zenon DEF AllWatched, Workers
  <2>2. worker.pc = "watch" /\ Woken' = Woken /\ primary' = primary
    BY <1>12 DEF AllWatched, cluster, objects, Woken
  <2>3. worker.next = 1 /\ \A d \in Deps : ~(d < worker.next)
    BY <2>2 DEF LoopInOrder, Deps
  <2>4. Unwatched' = {}
    BY <1>12 DEF AllWatched, Unwatched
  <2> QED BY <1>0, <2>1, <2>2, <2>3, <2>4
          DEF PassInv, Mindful, Progress, Rested, Reading, Looping
<1> QED BY <1>2, <1>3, <1>4, <1>5, <1>6, <1>7, <1>8, <1>9, <1>10, <1>11, <1>12

LEMMA RestLoop ==
    ASSUME TypeOK, CachesCatchUp, CopiesAgree, PassInv,
           \/ CreateOrUpdateExits \/ FetchDependent \/ BuildFails
           \/ CreateDependentExists \/ CreateDependent \/ UpdateDependent
    PROVE  PassInv'
<1> DEFINE d == worker.next
<1>0. /\ worker \in Workers /\ d \in Deps /\ worker.res \in Primaries
      /\ Mindful /\ Progress
      /\ worker.pc \in {"dependent", "create", "update"}
      /\ UNCHANGED <<primary, primaryEvents, watching, outrun>>
  BY DEF TypeOK, Workers, Deps, PassInv, CreateOrUpdateExits, FetchDependent, BuildFails,
     CreateDependentExists, CreateDependent, UpdateDependent, Turn, cluster, informer
<1>1. ASSUME DependentError, Still' => ~RepeatableErrorsDoNotOccur
      PROVE  PassInv'
  BY <1>0, <1>1, ErrorStops
<1>2. ASSUME worker' = NextDependent(worker),
             UNCHANGED <<queued, object, objectEvents, notices>>,
             Still /\ Tracked(d) => Realised(d)
      PROVE  PassInv'
  <2>1. ASSUME NEW e \in Deps, e = d, Still', Tracked(e)
        PROVE  Realised(e)'
    <3>1. Still /\ object'[e] = object[e]
      BY <1>0, <1>2, <2>1, StillBefore
    <3> QED BY <1>0, <1>2, <2>1, <3>1, RealisedStays
  <2> QED BY <1>0, <1>2, <2>1, PassAdvances
<1>3. ASSUME worker' = NextDependent(worker), UNCHANGED queued,
             NEW o \in Objects, StoreObject(d, o)
      PROVE  PassInv'
  <2>1. ASSUME Still', Tracked(d)
        PROVE  FALSE
    <3>1. objectEvents \in [Deps -> Seq(Objects)] /\ objectEvents[d] \in Seq(Objects)
      BY <1>0 DEF TypeOK
    <3>2. Append(objectEvents[d], o) # <<>>
      BY <3>1, AppendProperties
    <3>3. objectEvents'[d] # <<>>
      BY <1>0, <1>3, <3>1, <3>2 DEF StoreObject
    <3> QED BY <1>0, <2>1, <3>3 DEF Still, Tracked
  <2> QED BY <1>0, <1>3, <2>1, PassAdvances
<1>4. Still => worker.res = primary
  BY <1>0 DEF Still, Mindful, Reading, Looping
<1>5. \A site : CanFail(site) /\ site \in {"get", "build", "create", "update"} =>
         ~RepeatableErrorsDoNotOccur
  BY DEF CanFail, RepeatableErrorsDoNotOccur
<1>6. CASE CreateOrUpdateExits
  BY <1>2, <1>6 DEF CreateOrUpdateExits, cluster, objects, Tracked
<1>7. CASE FetchDependent
  <2> DEFINE fetched == [cached[d] EXCEPT !.content = worker.res.spec.want]
             fresh == (objectEvents[d] = <<>>)
  <2>0. /\ UNCHANGED <<object, objectEvents, notices>> /\ worker.pc = "dependent"
        /\ Config[d].created \/ Config[d].updated
        /\ (Still /\ Tracked(d) => objectEvents[d] = <<>> /\ cached[d] = object[d])
        /\ cached[d] \in Objects
    BY <1>0, <1>7 DEF FetchDependent, Turn, cluster, objects, Still, CachesCatchUp, Feeds, TypeOK
  <2>1. CASE /\ cached[d].exists
             /\ worker' = [worker EXCEPT !.pc = "update", !.fetched = fetched,
                                         !.fetchedFresh = fresh]
             /\ UNCHANGED queued
    <3>1. fetched.exists
      BY <2>0, <2>1 DEF Objects
    <3>2. Still /\ Tracked(d) => fresh
      BY <2>0
    <3> HIDE DEF fetched, fresh
    <3>3. /\ worker'.pc = "update" /\ worker'.fetched = fetched
          /\ worker'.fetchedFresh = fresh /\ worker'.next = d
          /\ worker'.res = worker.res /\ worker'.resFresh = worker.resFresh
          /\ worker'.changed = worker.changed /\ worker'.err = worker.err
      BY <1>0, <2>1, Zenon DEF Workers
    <3>4. Woken' = Woken /\ Unwatched' = Unwatched
      BY <1>0, <2>1 DEF Woken, Unwatched
    <3>5. Mindful'
      BY <1>0, <2>0, <3>1, <3>3, <3>4 DEF Mindful, Reading, Looping
    <3>6. Progress'
      <4>1. Still' => Still /\ \A e \in Deps : Tracked(e) /\ Realised(e) => Realised(e)'
        <5>1. ASSUME Still'
              PROVE  Still /\ \A e \in Deps : Tracked(e) => object'[e] = object[e]
          BY <1>0, <2>0, <2>1, <5>1, StillBefore
        <5> QED BY <1>0, <5>1, RealisedStays
      <4>2. Unwatched' = {}
        BY <1>0, <3>4 DEF Progress, Looping
      <4> QED BY <1>0, <2>0, <3>2, <3>3, <4>1, <4>2 DEF Progress, Tracked
    <3> QED BY <3>3, <3>5, <3>6 DEF PassInv, Rested
  <2>2. CASE /\ cached[d].exists
             /\ ~(Config[d].updated /\ cached[d].content # worker.res.spec.want)
             /\ worker' = NextDependent(worker) /\ UNCHANGED queued
    <3>1. Still /\ Tracked(d) => Realised(d)
      BY <1>4, <2>0, <2>2 DEF Realised
    <3> QED BY <1>2, <2>0, <2>2, <3>1
  <2>3. CASE /\ ~cached[d].exists
             /\ worker' = [worker EXCEPT !.pc = "create"] /\ UNCHANGED queued
    <3>1. /\ worker'.pc = "create" /\ worker'.next = d
          /\ worker'.res = worker.res /\ worker'.resFresh = worker.resFresh
          /\ worker'.changed = worker.changed /\ worker'.err = worker.err
      BY <1>0, <2>3, Zenon DEF Workers
    <3>2. Woken' = Woken /\ Unwatched' = Unwatched
      BY <1>0, <2>3 DEF Woken, Unwatched
    <3>3. Mindful'
      BY <1>0, <2>0, <3>1, <3>2 DEF Mindful, Reading, Looping
    <3>4. Progress'
      <4>1. Still' => Still /\ \A e \in Deps : Tracked(e) /\ Realised(e) => Realised(e)'
        <5>1. ASSUME Still'
              PROVE  Still /\ \A e \in Deps : Tracked(e) => object'[e] = object[e]
          BY <1>0, <2>0, <2>3, <5>1, StillBefore
        <5> QED BY <1>0, <5>1, RealisedStays
      <4>2. Unwatched' = {}
        BY <1>0, <3>2 DEF Progress, Looping
      <4>3. Still /\ Tracked(d) => ~object'[d].exists
        BY <2>0, <2>3
      <4> QED BY <1>0, <2>0, <3>1, <4>1, <4>2, <4>3 DEF Progress, Tracked
    <3> QED BY <3>1, <3>3, <3>4 DEF PassInv, Rested
  <2>4. CASE ~Config[d].created /\ DependentError
    <3>1. ~RepeatableErrorsDoNotOccur
      BY <1>0, <2>0, <2>4 DEF RepeatableErrorsDoNotOccur, Handled, Tracked
    <3> QED BY <1>1, <2>4, <3>1
  <2>5. CASE CanFail("get") /\ DependentError
    BY <1>1, <1>5, <2>5
  <2> QED BY <1>7, <2>1, <2>2, <2>3, <2>4, <2>5, Zenon DEF FetchDependent
<1>8. CASE BuildFails
  BY <1>1, <1>5, <1>8 DEF BuildFails
<1>9. CASE CreateDependentExists
  <2>1. /\ worker.pc = "create" /\ object[d].exists
        /\ worker' = NextDependent(worker) /\ UNCHANGED <<queued, object, objectEvents, notices>>
    BY <1>9 DEF CreateDependentExists, Turn, cluster, objects
  <2>2. ~(Still /\ Tracked(d))
    BY <1>0, <2>1 DEF Progress
  <2> QED BY <1>2, <2>1, <2>2
<1>10. CASE CreateDependent
  <2>1. PICK o \in Outcomes("create", TRUE) :
          /\ IF o.applied THEN StoreObject(d, BuiltObject(d))
             ELSE UNCHANGED objects
          /\ IF o.failed THEN DependentError
             ELSE worker' = NextDependent(worker) /\ UNCHANGED queued
    BY <1>10, Zenon DEF CreateDependent
  <2>2. (o.failed => CanFail("create")) /\ (~o.failed => o.applied)
    BY DEF Outcomes
  <2>3. CASE o.failed
    BY <1>1, <1>5, <2>1, <2>2, <2>3
  <2>4. CASE ~o.failed
    BY <1>3, <2>1, <2>2, <2>4, BuiltType
  <2> QED BY <2>3, <2>4
<1>11. CASE UpdateDependent
  <2>1. PICK o \in Outcomes("update", Accepted(worker.fetchedFresh)) :
          /\ IF o.applied THEN StoreObject(d, worker.fetched)
             ELSE UNCHANGED objects
          /\ IF o.failed THEN DependentError
             ELSE worker' = NextDependent(worker) /\ UNCHANGED queued
    BY <1>11, Zenon DEF UpdateDependent
  <2>2. /\ o.failed => CanFail("update") \/ (~worker.fetchedFresh /\ ~o.applied)
        /\ ~o.failed => o.applied
    BY DEF Outcomes, Accepted
  <2>3. CASE o.failed /\ CanFail("update")
    BY <1>1, <1>5, <2>1, <2>3
  <2>4. CASE o.failed /\ ~worker.fetchedFresh /\ ~o.applied
    <3>1. worker.pc = "update" /\ Config[d].updated
      BY <1>11 DEF UpdateDependent, Turn, CopiesAgree
    <3>2. ASSUME Still', RepeatableErrorsDoNotOccur
          PROVE  FALSE
      <4>1. Tracked(d)
        BY <1>0, <3>1, <3>2 DEF RepeatableErrorsDoNotOccur, Handled
      <4>2. queued => queued'
        BY <2>1, <2>4, ErrorFields, EnvironmentAssumption DEF DependentError
      <4>3. Still
        BY <1>0, <2>1, <2>4, <3>2, <4>2, StillBefore DEF objects
      <4> QED BY <1>0, <2>4, <3>1, <4>1, <4>3 DEF Progress
    <3> QED BY <1>1, <2>1, <2>4, <3>2
  <2>5. CASE ~o.failed
    <3>1. worker.fetched \in Objects
      BY <1>0 DEF Workers
    <3> QED BY <1>3, <2>1, <2>2, <2>5, <3>1
  <2> QED BY <2>2, <2>3, <2>4, <2>5
<1> QED BY <1>6, <1>7, <1>8, <1>9, <1>10, <1>11

\* A turn that leaves the status as it is found it right.
LEMMA TurnSettles ==
    ASSUME TypeOK, CachesCatchUp, PassHonest, NEW t, ~t.updated,
           LET d == worker.next
               sofar == [updated |-> worker.changed, status |-> worker.res.status]
           IN  \/ t = sofar /\ ~Config[d].checked
               \/ \E outcome \in {IF cached[d].exists THEN "found" ELSE "notFound", "failed"} :
                     t = ComputeStatusTurn(sofar, d, GetCondition(outcome, cached[d].ready))
    PROVE  /\ ~worker.changed /\ t.status = worker.res.status
           /\ worker.res = primary =>
                 /\ Recomputes /\ Config[worker.next].checked => primary.status.message = NoError
                 /\ Still /\ Tracked(worker.next) =>
                       Accurate(worker.next) \/ primary.status.reason = "Failed"
<1> DEFINE d == worker.next
           status == worker.res.status
           sofar == [updated |-> worker.changed, status |-> status]
<1>0. /\ d \in Deps /\ status \in Statuses
      /\ (Still /\ Tracked(d) => cached[d] = object[d])
  BY DEF TypeOK, Workers, Primaries, Deps, Still, CachesCatchUp, Feeds
<1>1. CASE t = sofar /\ ~Config[d].checked
  BY <1>1 DEF Accurate
<1>2. ASSUME NEW outcome \in {IF cached[d].exists THEN "found" ELSE "notFound", "failed"},
             t = ComputeStatusTurn(sofar, d, GetCondition(outcome, cached[d].ready))
      PROVE  /\ ~worker.changed /\ t.status = status
             /\ worker.res = primary =>
                   /\ Recomputes /\ Config[d].checked => primary.status.message = NoError
                   /\ Still /\ Tracked(d) => Accurate(d) \/ primary.status.reason = "Failed"
  <2> DEFINE c == GetCondition(outcome, cached[d].ready)
  <2>1. ~worker.changed /\ t = SetCondition(status, d, c)
    <3>1. CASE worker.changed
      BY <1>2, <3>1 DEF ComputeStatusTurn
    <3>2. CASE ~worker.changed
      BY <1>2, <3>2 DEF ComputeStatusTurn
    <3> QED BY <3>1, <3>2
  <2>2. WithCondition(status, d, c) = status /\ t.status = status
    BY <2>1 DEF SetCondition
  <2>3. c = "Failed" \/ outcome = IF cached[d].exists THEN "found" ELSE "notFound"
    BY <1>2, Zenon DEF GetCondition, ErrorDependentCondition
  <2> HIDE DEF c
  <2>4. status.conditions \in [Deps -> Conditions] /\ Consistent(status)
    BY <1>0 DEF Statuses, PassHonest, Sound
  <2>5. /\ status.conditions[d] = c
        /\ Recomputes => status.message = NoError
    <3>1. CASE status.conditions[d] = c /\ ~Recomputes
      BY <3>1
    <3>2. CASE ~(status.conditions[d] = c /\ ~Recomputes)
      <4> DEFINE recorded == [status.conditions EXCEPT ![d] = c]
      <4>1. status = [reason |-> AggregateReason(recorded), message |-> NoError,
                      conditions |-> recorded]
        BY <2>2, <3>2 DEF WithCondition
      <4> HIDE DEF recorded
      <4>2. status.message = NoError /\ status.conditions = recorded
        BY <4>1
      <4> QED BY <1>0, <2>4, <4>2 DEF recorded
    <3> QED BY <3>1, <3>2
  <2>6. c = "Failed" => status.reason = "Failed"
    BY <1>0, <2>4, <2>5 DEF Consistent
  <2>7. ASSUME worker.res = primary, Still, Tracked(d), c # "Failed"
        PROVE  Accurate(d)
    <3>1. cached[d] = object[d] /\ primary.status.conditions[d] = c
      BY <1>0, <2>5, <2>7
    <3>2. c = GetCondition(IF object[d].exists THEN "found" ELSE "notFound", object[d].ready)
      BY <2>3, <2>7, <3>1 DEF c
    <3> QED BY <3>1, <3>2 DEF Accurate
  <2> QED BY <2>1, <2>2, <2>5, <2>6, <2>7
<1> QED BY <1>1, <1>2

LEMMA RestCheck ==
    ASSUME TypeOK, CachesCatchUp, PassHonest, PassInv, CheckDependent
    PROVE  PassInv'
<1> DEFINE d == worker.next
           sofar == [updated |-> worker.changed, status |-> worker.res.status]
<1>0. /\ worker \in Workers /\ worker.res \in Primaries /\ d \in Deps
      /\ Mindful /\ Progress /\ worker.pc = "check"
      /\ UNCHANGED <<primary, primaryEvents, object, objectEvents, notices, outrun, watching>>
  BY DEF TypeOK, Workers, Deps, PassInv, CheckDependent, Turn, cluster, objects, informer
<1>1. PICK t : /\ AfterCheck(t)
               /\ \/ t = sofar /\ ~Config[d].checked
                  \/ \E outcome \in {IF cached[d].exists THEN "found" ELSE "notFound", "failed"} :
                        t = ComputeStatusTurn(sofar, d, GetCondition(outcome, cached[d].ready))
  BY Zenon DEF CheckDependent
<1>2. ASSUME ~t.updated
      PROVE  /\ ~worker.changed /\ t.status = worker.res.status
             /\ worker.res = primary =>
                   /\ Recomputes /\ Config[d].checked => primary.status.message = NoError
                   /\ Still /\ Tracked(d) => Accurate(d) \/ primary.status.reason = "Failed"
  BY <1>1, <1>2, TurnSettles
<1>3. \A e \in Deps : /\ Realised(e) => Realised(e)'
                      /\ Accurate(e) => Accurate(e)'
  BY <1>0, RealisedStays
<1>4. ASSUME NEW e \in Deps, e < d + 1
      PROVE  e < d \/ e = d
  BY <1>0, <1>4, NDepsAssumption DEF Deps
<1>5. ASSUME Still, ~t.updated
      PROVE  /\ worker.res = primary
             /\ \A e \in Deps : Tracked(e) => Realised(e)
             /\ \A e \in Deps : Tracked(e) /\ e < d + 1 =>
                   Accurate(e) \/ primary.status.reason = "Failed"
             /\ \A e \in Deps : Recomputes /\ Config[e].checked /\ e < d + 1 =>
                   primary.status.message = NoError
  <2>1. worker.res = primary /\ ~worker.changed
    BY <1>0, <1>2, <1>5 DEF Still, Mindful, Reading, Looping
  <2> QED BY <1>0, <1>2, <1>4, <1>5, <2>1 DEF Progress
<1> DEFINE res == [worker.res EXCEPT !.status = t.status]
           v == [worker EXCEPT !.res = res, !.changed = t.updated]
<1>6. \/ /\ worker' = [v EXCEPT !.next = @ + 1] /\ UNCHANGED queued
      \/ worker' = [v EXCEPT !.pc = "status"] /\ UNCHANGED queued /\ t.updated
      \/ /\ worker.next = NDeps /\ ~t.updated /\ worker' = Idle
         /\ queued => queued'
  BY <1>0, <1>1, Zenon DEF AfterCheck, EndPass, Workers, Primaries
<1>7. res.spec = worker.res.spec /\ (t.status = worker.res.status => res = worker.res)
  BY <1>0 DEF Primaries
<1> HIDE DEF res
<1>8. /\ v.pc = "check" /\ v.res = res /\ v.changed = t.updated /\ v.next = worker.next
      /\ v.resFresh = worker.resFresh /\ v.err = worker.err
      /\ v \in [DOMAIN worker -> {v[f] : f \in DOMAIN worker}]
  BY <1>0, Zenon DEF Workers
<1> HIDE DEF v
<1>9. (Woken => Woken') /\ Unwatched' = {} /\ worker.res.spec.defaulted
      /\ worker.err # FetchFailed /\ (worker.resFresh \/ Woken)
  BY <1>0, <1>6, Zenon DEF Woken, Unwatched, Mindful, Progress, Reading, Looping
<1>10. Still' => Still
  BY <1>0, <1>9 DEF Still, Tracked
<1>11. CASE worker' = [v EXCEPT !.next = @ + 1] /\ UNCHANGED queued
  <2>1. /\ worker'.pc = "check" /\ worker'.res = res /\ worker'.changed = t.updated
        /\ worker'.next = d + 1
        /\ worker'.resFresh = worker.resFresh /\ worker'.err = worker.err
    BY <1>0, <1>8, <1>11, Zenon DEF Workers
  <2>2. Mindful'
    <3>1. ~t.updated /\ ~Woken' => res = primary'
      BY <1>0, <1>2, <1>7, <1>9 DEF Mindful, Reading, Looping
    <3> QED BY <1>7, <1>9, <2>1, <3>1 DEF Mindful, Reading, Looping
  <2>3. Progress'
    BY <1>0, <1>3, <1>5, <1>9, <1>10, <2>1 DEF Progress, Tracked
  <2> QED BY <2>1, <2>2, <2>3 DEF PassInv, Rested
<1>12. CASE worker' = [v EXCEPT !.pc = "status"]
  <2>1. /\ worker'.pc = "status" /\ worker'.resFresh = worker.resFresh
        /\ worker'.err = worker.err
    BY <1>0, <1>8, <1>12, Zenon DEF Workers
  <2> QED BY <1>9, <2>1, PassReports
<1>13. CASE worker.next = NDeps /\ ~t.updated /\ worker' = Idle /\ ~Woken'
  <2>1. worker.res = primary
    BY <1>0, <1>2, <1>9, <1>13 DEF Mindful, Reading, Looping
  <2>2. \A e \in Deps : e < d + 1
    BY <1>13, NDepsAssumption DEF Deps
  <2>3. RestsWell'
    BY <1>0, <1>3, <1>5, <1>9, <1>10, <1>13, <2>2 DEF RestsWell, Tracked
  <2>4. RestsDone'
    BY <1>0, <1>3, <1>5, <1>9, <1>10, <1>13, <2>1, <2>2 DEF RestsDone, Tracked
  <2>5. worker'.pc = "idle" /\ worker'.err = NoError /\ ~worker'.changed
    BY <1>13 DEF Idle
  <2> QED BY <2>3, <2>4, <2>5
          DEF PassInv, Mindful, Progress, Rested, Reading, Looping, FetchFailed, NoError
<1> QED BY <1>6, <1>11, <1>12, <1>13, PassEndsWoken

LEMMA RestWriteStatus ==
    ASSUME TypeOK, PassInv, WriteStatus
    PROVE  PassInv'
<1>0. /\ worker.pc = "status" /\ worker.res \in Primaries
      /\ worker.err # FetchFailed /\ (worker.resFresh \/ Woken)
  BY DEF WriteStatus, Turn, TypeOK, Workers, PassInv, Mindful
<1>1. PICK o \in Outcomes("status", Accepted(worker.resFresh)), again \in Requeues :
        /\ IF o.applied
           THEN StorePrimary([primary EXCEPT !.status = worker.res.status])
           ELSE UNCHANGED <<primary, primaryEvents>>
        /\ EndPass(CASE worker.err = FetchFailed -> FALSE
                     [] worker.err # FetchFailed /\ o.failed -> TRUE
                     [] worker.err = InvalidSpec /\ ~o.failed -> FALSE
                     [] OTHER -> again)
  BY Zenon DEF WriteStatus
<1>2. o.applied \/ o.failed
  BY DEF Outcomes
<1>3. worker' = Idle
  BY <1>1 DEF EndPass
<1>4. CASE o.applied
  <2>1. /\ primaryEvents' = Append(primaryEvents, [primary EXCEPT !.status = worker.res.status])
        /\ [primary EXCEPT !.status = worker.res.status] \in Primaries
        /\ primaryEvents \in Seq(Primaries)
    BY <1>0, <1>1, <1>4 DEF StorePrimary, TypeOK, Primaries
  <2>2. primaryEvents' # <<>>
    BY <2>1, AppendProperties
  <2> QED BY <1>3, <2>2, PassEndsWoken DEF Woken
<1>5. CASE o.failed
  <2>1. EndPass(TRUE)
    BY <1>0, <1>1, <1>5, Zenon
  <2> QED BY <1>3, <2>1, PassEndsWoken DEF EndPass, Woken
<1> QED BY <1>2, <1>4, <1>5

(***************************************************************************)
(* The informers, users and other controllers.                             *)
(***************************************************************************)
LEMMA PrimaryChangeWakes ==
    ASSUME TypeOK, PassInv, NEW p \in Primaries, PrimaryChanges(p)
    PROVE  PassInv'
<1>0. worker \in Workers /\ Mindful /\ Progress
  BY DEF TypeOK, PassInv
<1>1. /\ worker' = [worker EXCEPT !.resFresh = FALSE]
      /\ primaryEvents' = Append(primaryEvents, p) /\ primaryEvents \in Seq(Primaries)
      /\ UNCHANGED <<cachedPrimary, watching, queued>>
  BY DEF PrimaryChanges, StorePrimary, informer, objects, TypeOK
<1>2. Woken' /\ ~Still'
  <2>1. primaryEvents' # <<>>
    BY <1>1, AppendProperties
  <2> QED BY <2>1 DEF Woken, Still
<1>3. /\ worker'.pc = worker.pc /\ worker'.res = worker.res
      /\ worker'.changed = worker.changed /\ worker'.err = worker.err
      /\ worker'.fetched = worker.fetched
  BY <1>0, <1>1, Zenon DEF Workers
<1>4. Mindful'
  BY <1>0, <1>1, <1>2, <1>3 DEF Mindful
<1>5. Progress'
  BY <1>0, <1>1, <1>2, <1>3 DEF Progress, Unwatched
<1> QED BY <1>2, <1>4, <1>5 DEF PassInv, Rested

LEMMA ObjectChangeIsSeen ==
    ASSUME TypeOK, PassInv, NEW d \in Deps, NEW o \in Objects, ObjectChanges(d, o)
    PROVE  PassInv'
<1>0. worker \in Workers /\ Mindful /\ Progress /\ Rested
  BY DEF TypeOK, PassInv
<1>1. /\ worker' = [worker EXCEPT !.fetchedFresh = @ /\ worker.next # d]
      /\ StoreObject(d, o)
      /\ UNCHANGED <<primary, primaryEvents, cachedPrimary, watching, queued, outrun>>
  BY DEF ObjectChanges, informer
<1>2. /\ worker'.pc = worker.pc /\ worker'.res = worker.res /\ worker'.next = worker.next
      /\ worker'.changed = worker.changed /\ worker'.err = worker.err
      /\ worker'.fetched = worker.fetched /\ worker'.resFresh = worker.resFresh
      /\ worker.fetchedFresh /\ worker.next # d => worker'.fetchedFresh
  BY <1>0, <1>1, Zenon DEF Workers
<1>3. Woken' = Woken /\ Unwatched' = Unwatched
  BY <1>1 DEF Woken, Unwatched
<1>4. Still' => /\ Still
                /\ \A e \in Deps : Tracked(e) => object'[e] = object[e]
                /\ ~Tracked(d)
  <2>1. ASSUME Still', Tracked(d)
        PROVE  FALSE
    <3>1. objectEvents \in [Deps -> Seq(Objects)] /\ objectEvents[d] \in Seq(Objects)
      BY DEF TypeOK
    <3>2. Append(objectEvents[d], o) # <<>>
      BY <3>1, AppendProperties
    <3>3. objectEvents'[d] # <<>>
      BY <1>1, <3>1, <3>2 DEF StoreObject
    <3> QED BY <2>1, <3>3 DEF Still, Tracked
  <2> QED BY <1>1, <2>1, StillBefore
<1>5. Still' => \A e \in Deps : Tracked(e) => /\ Realised(e) => Realised(e)'
                                              /\ Accurate(e) => Accurate(e)'
  BY <1>1, <1>4, RealisedStays
<1>6. Mindful'
  BY <1>0, <1>1, <1>2, <1>3 DEF Mindful
<1>7. Progress'
  <2>1. Still' /\ Tracked(worker.next) /\ worker.pc = "create" =>
           ~object'[worker.next].exists
    <3>1. worker.next \in Deps
      BY <1>0 DEF Workers, Deps
    <3> QED BY <1>0, <1>4, <3>1 DEF Progress
  <2>2. primary' = primary
    BY <1>1
  <2> QED BY <1>0, <1>2, <1>3, <1>4, <1>5, <2>1, <2>2 DEF Progress, Tracked
<1>8. Rested'
  <2>1. RestsWell => RestsWell'
    BY <1>1, <1>3, <1>4, <1>5 DEF RestsWell, Tracked
  <2>2. RestsDone => RestsDone'
    BY <1>1, <1>3, <1>4, <1>5 DEF RestsDone, RepeatableErrorsDoNotOccur, Handled, Tracked
  <2> QED BY <1>0, <1>1, <1>2, <1>3, <2>1, <2>2 DEF Rested
<1> QED BY <1>6, <1>7, <1>8 DEF PassInv

LEMMA DeliveryIsNoticed ==
    ASSUME TypeOK, Announced, PassInv, NEW d \in Deps, DeliverObject(d) \/ DeliverNotice(d)
    PROVE  PassInv'
<1>0. Mindful /\ Progress /\ Rested
  BY DEF PassInv
<1>1. /\ UNCHANGED <<primary, object, primaryEvents, cachedPrimary, watching, worker>>
      /\ queued => queued'
  BY DEF DeliverObject, DeliverNotice
<1>2. (Woken => Woken') /\ Unwatched' = Unwatched
  BY <1>1 DEF Woken, Unwatched
<1>3. Unwatched = {} /\ Still' => Still
  <2>1. CASE DeliverObject(d)
    <3>1. /\ objectEvents' = [objectEvents EXCEPT ![d] = Tail(@)]
          /\ objectEvents \in [Deps -> Seq(Objects)] /\ UNCHANGED <<notices, outrun>>
      BY <2>1 DEF DeliverObject, TypeOK
    <3>2. Unwatched = {} /\ Still' => ~Tracked(d)
      BY <2>1, <3>1, DeliveryIsAnnounced DEF Still, Tracked
    <3> QED BY <1>2, <3>1, <3>2 DEF Still, Tracked
  <2>2. CASE DeliverNotice(d)
    BY <2>2 DEF DeliverNotice, Still, Woken
  <2> QED BY <2>1, <2>2
<1>4. /\ \A e \in Deps : Tracked(e) => /\ Realised(e) => Realised(e)'
                                       /\ Accurate(e) => Accurate(e)'
      /\ primary' = primary /\ worker' = worker /\ object' = object
  BY <1>1, RealisedStays
<1>5. Mindful'
  BY <1>0, <1>1, <1>2 DEF Mindful
<1>6. Progress'
  BY <1>0, <1>2, <1>3, <1>4 DEF Progress, Tracked, Looping
<1>7. Rested'
  <2>1. RestsWell => RestsWell'
    BY <1>2, <1>3, <1>4 DEF RestsWell, Tracked
  <2>2. RestsDone => RestsDone'
    BY <1>2, <1>3, <1>4 DEF RestsDone, RepeatableErrorsDoNotOccur, Handled, Tracked
  <2> QED BY <1>0, <1>1, <1>2, <2>1, <2>2 DEF Rested
<1> QED BY <1>5, <1>6, <1>7 DEF PassInv

LEMMA RestStep ==
    ASSUME DroppedErrorsDoNotOccur
    PROVE  RestInv /\ [Next]_vars => RestInv'
<1> SUFFICES ASSUME OrderInv, CopiesInv, HonestInv, OwnersKept, Announced, PassInv, [Next]_vars
             PROVE  RestInv'
  BY DEF RestInv
<1>0. /\ TypeOK /\ CachesCatchUp /\ CopiesAgree /\ LoopInOrder /\ PassHonest
      /\ Mindful /\ Progress /\ Rested
  BY DEF CopiesInv, OrderInv, HonestInv, PassInv
<1>1. OrderInv' /\ CopiesInv' /\ HonestInv' /\ OwnersKept' /\ Announced'
  BY <1>0, OrderStep, CopiesStep, HonestStep, OwnersAnnounced
<1>2. PassInv'
  <2>1. CASE Reconcile
    BY <1>0, <2>1, RestPrepare, RestLoop, RestCheck, RestWriteStatus DEF Reconcile
  <2>2. CASE DeliverPrimary
    <3>1. queued' /\ UNCHANGED <<worker, watching>>
      BY <2>2 DEF DeliverPrimary
    <3>2. Woken' /\ ~Still' /\ Unwatched' = Unwatched
      BY <3>1 DEF Woken, Still, Unwatched
    <3>3. Mindful'
      BY <1>0, <3>1, <3>2 DEF Mindful
    <3>4. Progress'
      BY <1>0, <3>1, <3>2 DEF Progress
    <3> QED BY <3>2, <3>3, <3>4 DEF PassInv, Rested
  <2>3. ASSUME NEW d \in Deps, DeliverObject(d) \/ DeliverNotice(d)
        PROVE  PassInv'
    BY <1>0, <2>3, DeliveryIsNoticed
  <2>4. ASSUME NEW d \in Deps, GarbageCollect(d)
        PROVE  PassInv'
    BY <1>0, <2>4, RecordTypes, ObjectChangeIsSeen DEF GarbageCollect
  <2>5. CASE UserCreates \/ UserEdits \/ UserDeletes
    BY <1>0, <2>5, UserWrites, PrimaryChangeWakes
  <2>6. CASE \E d \in Deps : OthersTouch(d) \/ OthersDelete(d) \/ OthersCreate(d)
    BY <1>0, <2>6, OthersWrite, ObjectChangeIsSeen, Zenon
  <2>7. CASE Crash
    BY <2>7, PassEndsWoken DEF Crash, Woken
  <2>8. CASE UNCHANGED vars
    BY <1>0, <2>8 DEF vars, PassInv, Mindful, Progress, Rested, RestsWell, RestsDone, Woken,
       Still, Unwatched, Realised, Accurate, Tracked, RepeatableErrorsDoNotOccur, Handled
  <2> QED BY <2>1, <2>2, <2>3, <2>4, <2>5, <2>6, <2>7, <2>8 DEF Next, Environment
<1> QED BY <1>1, <1>2 DEF RestInv

LEMMA RestInit == Init => RestInv
<1> SUFFICES ASSUME Init
             PROVE  OwnersKept /\ Announced /\ PassInv
  BY OrderInit, CopiesInit, HonestInit DEF RestInv
<1>1. OwnersKept /\ Announced
  BY DEF Init, OwnersKept, Announced, OwnedIfThere, NoObject
<1>2. worker = Idle /\ ~Exists(primary)
  BY DEF Init, NoPrimary, Exists
<1>3. PassInv
  BY <1>2 DEF Idle, PassInv, Mindful, Progress, Rested, Reading, Looping, FetchFailed, NoError
<1> QED BY <1>1, <1>3

\* What a state of rest owes to the invariant.
LEMMA QuietIsStill ==
    RestInv /\ Quiet /\ outrun = {} /\ Exists(primary) => Still /\ RestsWell /\ RestsDone
BY DEF RestInv, PassInv, Rested, Quiet, Still, Woken

(***************************************************************************)
(* The theorems.                                                           *)
(***************************************************************************)
\* Whatever fails or conflicts, is edited, deleted or restarted: if the
\* operator comes to rest under a status that claims all is well while a
\* dependent it tracks is missing, outdated or reported wrongly, the last
\* notice of a dependent reached it before the version it tells of reached
\* the cache (outrun).  No other wake-up is lost, as long as no error is one
\* that Reconcile drops.
THEOREM NoWakeupIsLost ==
    ASSUME DroppedErrorsDoNotOccur
    PROVE  Spec => []NoLostWakeup
<1>1. RestInv => NoLostWakeup
  BY QuietIsStill DEF NoLostWakeup, RestsWell
<1> QED BY <1>1, RestInit, RestStep, PTL DEF Spec

\* Nor does it, such a notice apart, come to rest with the work undone, for
\* as long as no error can repeat itself (UpdateStatusIfNeeded drops the
\* second): a conflict, a crash, an init, watch, delete or status call that
\* fails is made up for.
THEOREM EveryFailureIsRetried ==
    ASSUME DroppedErrorsDoNotOccur, RepeatableErrorsDoNotOccur
    PROVE  Spec => []FailuresAreRetried
<1>1. RestInv => FailuresAreRetried
  BY QuietIsStill DEF FailuresAreRetried, RestsDone
<1> QED BY <1>1, RestInit, RestStep, PTL DEF Spec

\* Nor does it, such a notice apart, come to rest with the work done and a
\* message that names a failure, if it checks a dependent and SetCondition
\* recomputes a status that holds the condition already.
THEOREM FailuresAreForgotten ==
    ASSUME DroppedErrorsDoNotOccur, RepeatableErrorsDoNotOccur,
           Recomputes, \E d \in Deps : Config[d].checked
    PROVE  Spec => []FailureIsForgotten
<1>1. RestInv => FailureIsForgotten
  BY QuietIsStill DEF FailureIsForgotten, RestsDone, Workable
<1> QED BY <1>1, RestInit, RestStep, PTL DEF Spec
=============================================================================
