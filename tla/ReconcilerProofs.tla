-------------------------- MODULE ReconcilerProofs --------------------------
(***************************************************************************)
(* Theorems about Reconciler, for every value of its constants.            *)
(***************************************************************************)
EXTENDS Reconciler, WellFoundedInduction, SequenceTheorems, TLAPS

(***************************************************************************)
(* Types                                                                   *)
(***************************************************************************)
LEMMA ErrorTypes ==
    /\ NoError \in Errors /\ FetchFailed \in Errors /\ InvalidSpec \in Errors
    /\ \A d \in Deps : DependentFailed(d) \in Errors
BY DEF Errors

LEMMA StatusTypes ==
    /\ EmptyStatus \in Statuses
    /\ \A s \in Statuses, e \in Errors : DefaultErrorHandler(s, e).status \in Statuses
    /\ \A s \in Statuses, d \in Deps, c \in Conditions :
          WithCondition(s, d, c) \in Statuses
<1>1. EmptyStatus \in Statuses
  BY ErrorTypes DEF EmptyStatus, Statuses, Reasons, Conditions
<1>2. ASSUME NEW s \in Statuses, NEW e \in Errors
      PROVE  DefaultErrorHandler(s, e).status \in Statuses
  BY Zenon DEF DefaultErrorHandler, Statuses, Reasons
<1>3. ASSUME NEW s \in Statuses, NEW d \in Deps, NEW c \in Conditions
      PROVE  WithCondition(s, d, c) \in Statuses
  <2> DEFINE recorded == [s.conditions EXCEPT ![d] = c]
  <2>1. recorded \in [Deps -> Conditions]
    BY DEF Statuses
  <2> HIDE DEF recorded
  <2>2. AggregateReason(recorded) \in Reasons
    BY DEF AggregateReason, Reasons
  <2>3. WithCondition(s, d, c) \in
          {s, [reason |-> AggregateReason(recorded), message |-> NoError,
               conditions |-> recorded]}
    BY DEF WithCondition, recorded
  <2> QED BY <2>1, <2>2, <2>3, ErrorTypes DEF Statuses
<1> QED BY <1>1, <1>2, <1>3

LEMMA RecordTypes ==
    /\ SomeSpec \in Specs
    /\ SomeWant \in Wants
    /\ NoPrimary \in Primaries
    /\ NoObject \in Objects
    /\ Idle \in Workers
<1>1. Specs # {} /\ SomeWant \in Wants
  <2>1. PICK w : w \in Wants
    BY EnvironmentAssumption
  <2>2. [defaulted |-> TRUE, valid |-> TRUE, want |-> w] \in Specs
    BY <2>1 DEF Specs
  <2> QED BY <2>1, <2>2 DEF SomeWant
<1>2. SomeSpec \in Specs
  BY <1>1 DEF SomeSpec
<1>3. NoPrimary \in Primaries
  BY <1>2, StatusTypes, BoundsAssumption DEF NoPrimary, Primaries
<1>4. NoObject \in Objects
  BY <1>1, BoundsAssumption DEF NoObject, Objects
<1>5. Idle \in Workers
  BY <1>3, <1>4, ErrorTypes, NDepsAssumption DEF Idle, Workers, Positions
<1> QED BY <1>1, <1>2, <1>3, <1>4, <1>5

\* The loop over the dependents does not run past the last one.
LEMMA NextDependentType ==
    ASSUME NEW w \in Workers
    PROVE  NextDependent(w) \in Workers
<1>1. CASE w.next < NDeps
  <2>1. w.next + 1 \in 1..NDeps
    BY <1>1, NDepsAssumption DEF Workers
  <2>2. NextDependent(w) = [w EXCEPT !.pc = "dependent", !.next = w.next + 1]
    BY <1>1 DEF NextDependent
  <2> QED BY <2>1, <2>2, Zenon DEF Workers, Positions
<1>2. CASE ~(w.next < NDeps)
  <2>1. 1 \in 1..NDeps
    BY NDepsAssumption
  <2>2. NextDependent(w) = [w EXCEPT !.pc = "check", !.next = 1]
    BY <1>2 DEF NextDependent
  <2> QED BY <2>1, <2>2, Zenon DEF Workers, Positions
<1> QED BY <1>1, <1>2

\* The first watch to add exists while one is missing.
LEMMA FirstUnwatchedExists ==
    Unwatched # {} => FirstUnwatched \in Unwatched
<1> DEFINE R == OpToRel(<, Nat)
<1>1. IsWellFoundedOn(R, Nat)
  BY NatLessThanWellFounded
<1>2. Unwatched \subseteq Nat
  BY NDepsAssumption DEF Unwatched, Deps
<1>3. \A d, e \in Nat : <<e, d>> \notin R => d <= e
  BY DEF OpToRel
<1> HIDE DEF R
<1>4. ASSUME Unwatched # {}
      PROVE  \E d \in Unwatched : \A e \in Unwatched : <<e, d>> \notin R
  BY <1>1, <1>2, <1>4, WFMin, Zenon
<1>5. ASSUME Unwatched # {}
      PROVE  \E d \in Unwatched : \A e \in Unwatched : d <= e
  BY <1>2, <1>3, <1>4, <1>5
<1> QED BY <1>5, Zenon DEF FirstUnwatched

LEMMA PayTypes ==
    ASSUME left \in Bounds
    PROVE  /\ \A site : CanFail(site) /\ PayFault => left' \in Bounds
           /\ \A site, acceptable : \A o \in Outcomes(site, acceptable) :
                 Pay(acceptable, o) => left' \in Bounds
           /\ Disturb => left' \in Bounds
           /\ UserCreates => left' \in Bounds
<1>1. ASSUME NEW site, CanFail(site), PayFault
      PROVE  left' \in Bounds
  BY <1>1, BoundsAssumption DEF CanFail, PayFault, Bounds
<1>2. ASSUME NEW site, NEW acceptable, NEW o \in Outcomes(site, acceptable),
             Pay(acceptable, o)
      PROVE  left' \in Bounds
  <2>1. CASE acceptable /\ o.failed
    <3>1. CanFail(site)
      BY <1>2, <2>1 DEF Outcomes
    <3> QED BY <1>1, <1>2, <2>1, <3>1 DEF Pay
  <2>2. CASE ~(acceptable /\ o.failed)
    BY <1>2, <2>2 DEF Pay
  <2> QED BY <2>1, <2>2
<1>3. Disturb => left' \in Bounds
  BY BoundsAssumption DEF Disturb, Bounds
<1>4. UserCreates => left' \in Bounds
  BY BoundsAssumption DEF UserCreates, Bounds
<1> QED BY <1>1, <1>2, <1>3, <1>4

LEMMA StoreTypes ==
    ASSUME TypeOK
    PROVE  /\ \A p \in Primaries : StorePrimary(p) =>
                 primary' \in Primaries /\ primaryEvents' \in Seq(Primaries)
           /\ \A d \in Deps, o \in Objects : StoreObject(d, o) =>
                 /\ object' \in [Deps -> Objects]
                 /\ objectEvents' \in [Deps -> Seq(Objects)]
                 /\ notices' \in [Deps -> Nat]
                 /\ everExisted' \subseteq Deps
<1>1. ASSUME NEW p \in Primaries, StorePrimary(p)
      PROVE  primary' \in Primaries /\ primaryEvents' \in Seq(Primaries)
  BY <1>1, AppendProperties, SMT DEF TypeOK, StorePrimary
<1>2. ASSUME NEW d \in Deps, NEW o \in Objects, StoreObject(d, o)
      PROVE  /\ object' \in [Deps -> Objects]
             /\ objectEvents' \in [Deps -> Seq(Objects)]
             /\ notices' \in [Deps -> Nat]
             /\ everExisted' \subseteq Deps
  <2>1. Append(objectEvents[d], o) \in Seq(Objects)
    BY AppendProperties DEF TypeOK
  <2> QED BY <1>2, <2>1 DEF TypeOK, StoreObject
<1> QED BY <1>1, <1>2

\* What a pass writes on its own record.
LEMMA WorkerTypes ==
    ASSUME TypeOK
    PROVE  /\ \A again \in BOOLEAN : EndPass(again) =>
                 worker' \in Workers /\ queued' \in BOOLEAN
           /\ \A e \in Errors, requeues \in SUBSET BOOLEAN : ReportError(e, requeues) =>
                 worker' \in Workers /\ queued' \in BOOLEAN
<1>1. ASSUME NEW again \in BOOLEAN, EndPass(again)
      PROVE  worker' \in Workers /\ queued' \in BOOLEAN
  BY <1>1, RecordTypes DEF EndPass, TypeOK
<1>2. ASSUME NEW e \in Errors, NEW requeues \in SUBSET BOOLEAN, ReportError(e, requeues)
      PROVE  worker' \in Workers /\ queued' \in BOOLEAN
  <2> DEFINE handled == DefaultErrorHandler(worker.res.status, e)
  <2>1. worker \in Workers /\ worker.res.status \in Statuses /\ queued \in BOOLEAN
    BY DEF TypeOK, Workers, Primaries
  <2>2. handled.status \in Statuses
    BY <2>1, StatusTypes
  <2> HIDE DEF handled
  <2>3. CASE handled.updated
    <3>1. /\ worker' = [worker EXCEPT !.pc = "status", !.err = e, !.res.status = handled.status]
          /\ queued' = queued
      BY <1>2, <2>3 DEF ReportError, handled
    <3> QED BY <2>1, <2>2, <3>1, Zenon DEF Workers, Primaries, Positions
  <2>4. CASE ~handled.updated
    BY <1>1, <1>2, <2>4 DEF ReportError, handled
  <2> QED BY <2>3, <2>4
<1> QED BY <1>1, <1>2

LEMMA DependentErrorTypes ==
    ASSUME TypeOK, DependentError
    PROVE  worker' \in Workers /\ queued' \in BOOLEAN
<1>1. DependentFailed(worker.next) \in Errors
  BY ErrorTypes DEF TypeOK, Workers, Deps
<1> QED BY <1>1, WorkerTypes, EnvironmentAssumption DEF DependentError

\* The steps that read the primary and prepare the pass.
LEMMA PrepareTypes ==
    ASSUME TypeOK,
           \/ Dequeue \/ FetchPrimary \/ FetchPrimaryNotFound \/ FetchPrimaryFails
           \/ Delete \/ ProvideDefaultValues \/ StoreDefaults \/ CheckValidityFails
           \/ InitDependentResources \/ RegisterWatch \/ AllWatched
    PROVE  TypeOK'
<1> USE DEF TypeOK
<1>1. CASE Dequeue
  <2>1. worker' \in Workers
    BY <1>1, Zenon DEF Dequeue, Workers, Positions
  <2> QED BY <1>1, <2>1 DEF Dequeue, cluster, objects, informer
<1>2. CASE FetchPrimary
  <2>1. worker' \in Workers
    <3>1. (primaryEvents = <<>>) \in BOOLEAN
      OBVIOUS
    <3> QED BY <1>2, <3>1, Zenon DEF FetchPrimary, Workers, Positions
  <2> QED BY <1>2, <2>1 DEF FetchPrimary, cluster, objects, informer
<1>3. CASE FetchPrimaryNotFound
  <2>1. worker' \in Workers
    BY <1>3, Zenon DEF FetchPrimaryNotFound, Workers, Positions
  <2> QED BY <1>3, <2>1 DEF FetchPrimaryNotFound, cluster, objects, informer
<1>4. CASE FetchPrimaryFails
  <2>1. worker' \in Workers
    <3> DEFINE s == DefaultErrorHandler(worker.res.status, FetchFailed).status
    <3>1. s \in Statuses
      BY StatusTypes, ErrorTypes DEF Workers, Primaries
    <3>2. worker' = [worker EXCEPT !.pc = "status", !.err = FetchFailed, !.res.status = s]
      BY <1>4, Zenon DEF FetchPrimaryFails
    <3> HIDE DEF s
    <3> QED BY <3>1, <3>2, ErrorTypes, Zenon DEF Workers, Primaries, Positions
  <2>2. left' \in Bounds
    BY <1>4, PayTypes DEF FetchPrimaryFails
  <2> QED BY <1>4, <2>1, <2>2 DEF FetchPrimaryFails, cluster, objects, informer
<1>5. CASE Delete
  <2>1. worker' \in Workers /\ queued' \in BOOLEAN
    BY <1>5, WorkerTypes DEF Delete
  <2>2. left' \in Bounds
    BY <1>5, PayTypes DEF Delete
  <2> QED BY <1>5, <2>1, <2>2 DEF Delete, cluster, objects, informer
<1>6. CASE ProvideDefaultValues
  <2>1. worker' \in Workers
    BY <1>6, Zenon DEF ProvideDefaultValues, Workers, Primaries, Specs, Positions
  <2> QED BY <1>6, <2>1 DEF ProvideDefaultValues, cluster, objects, informer
<1>7. CASE StoreDefaults
  <2>1. worker' \in Workers /\ queued' \in BOOLEAN
    BY <1>7, WorkerTypes DEF StoreDefaults
  <2>2. left' \in Bounds
    BY <1>7, PayTypes DEF StoreDefaults
  <2>3. primary' \in Primaries /\ primaryEvents' \in Seq(Primaries)
    <3>1. [primary EXCEPT !.spec = worker.res.spec] \in Primaries
      BY DEF Workers, Primaries
    <3> QED BY <1>7, <3>1, StoreTypes DEF StoreDefaults
  <2> QED BY <1>7, <2>1, <2>2, <2>3 DEF StoreDefaults, informer, objects
<1>8. CASE CheckValidityFails
  <2>1. worker' \in Workers /\ queued' \in BOOLEAN
    BY <1>8, WorkerTypes, ErrorTypes DEF CheckValidityFails
  <2> QED BY <1>8, <2>1 DEF CheckValidityFails, cluster, objects, informer
<1>9. CASE InitDependentResources
  <2>1. worker' \in Workers /\ queued' \in BOOLEAN
    <3>1. [worker EXCEPT !.pc = "watch"] \in Workers
      BY DEF Workers, Positions
    <3> QED BY <1>9, <3>1, WorkerTypes DEF InitDependentResources
  <2>2. left' \in Bounds
    BY <1>9, PayTypes DEF InitDependentResources
  <2> QED BY <1>9, <2>1, <2>2 DEF InitDependentResources, cluster, objects, informer
<1>10. CASE RegisterWatch
  <2>1. Config[FirstUnwatched].kind \in Kinds
    BY <1>10, FirstUnwatchedExists, ConfigAssumption
       DEF RegisterWatch, Unwatched, DependentResourceConfig
  <2>2. /\ worker' \in Workers /\ queued' \in BOOLEAN /\ watching' \subseteq Kinds
        /\ left' \in Bounds /\ notices' \in [Deps -> Nat] /\ outrun' \subseteq Deps
    <3> DEFINE listed == {d \in Deps : Config[d].kind = Config[FirstUnwatched].kind}
    <3>1. CASE /\ watching' = watching \cup {Config[FirstUnwatched].kind}
               /\ notices' = [d \in Deps |-> IF d \notin listed THEN notices[d]
                                             ELSE IF Owned(object[d]) THEN 1 ELSE 0]
               /\ outrun' = outrun \cup
                      {d \in listed : ~object[d].exists /\ objectEvents[d] # <<>>}
               /\ UNCHANGED <<worker, queued, left>>
      BY <2>1, <3>1
    <3>2. CASE /\ CanFail("watch") /\ PayFault /\ EndPass(TRUE)
               /\ UNCHANGED <<watching, notices, outrun>>
      BY <3>2, WorkerTypes, PayTypes
    <3> QED BY <1>10, <3>1, <3>2 DEF RegisterWatch
  <2> QED BY <1>10, <2>2 DEF RegisterWatch, cluster, objects, informer
<1>11. CASE AllWatched
  <2>1. worker' \in Workers
    BY <1>11, Zenon DEF AllWatched, Workers, Positions
  <2> QED BY <1>11, <2>1 DEF AllWatched, cluster, objects, informer
<1> QED BY <1>1, <1>2, <1>3, <1>4, <1>5, <1>6, <1>7, <1>8, <1>9, <1>10, <1>11

\* The steps of CreateOrUpdate.
LEMMA CreateOrUpdateTypes ==
    ASSUME TypeOK,
           \/ CreateOrUpdateExits \/ FetchDependent \/ BuildFails
           \/ CreateDependentExists \/ CreateDependent \/ UpdateDependent
    PROVE  TypeOK'
<1> USE DEF TypeOK, Turn, informer, objects
<1> DEFINE d == worker.next
<1>0. d \in Deps /\ NextDependent(worker) \in Workers
  BY NextDependentType DEF Workers, Deps
<1>1. CASE CreateOrUpdateExits
  BY <1>0, <1>1 DEF CreateOrUpdateExits, cluster, objects
<1>2. CASE FetchDependent
  <2> DEFINE w == worker.res.spec.want
             o == [cached[d] EXCEPT !.content = w]
  <2>1. worker' \in Workers /\ queued' \in BOOLEAN /\ left' \in Bounds
    <3>1. CASE /\ worker' = [worker EXCEPT !.pc = "update", !.fetched = o,
                                           !.fetchedFresh = (objectEvents[d] = <<>>)]
               /\ UNCHANGED <<queued, left>>
      <4>1. o \in Objects
        <5>1. w \in Wants /\ cached[d] \in Objects
          BY <1>0 DEF Workers, Primaries, Specs
        <5> QED BY <5>1 DEF Objects
      <4>2. (objectEvents[d] = <<>>) \in BOOLEAN
        OBVIOUS
      <4> HIDE DEF o
      <4>3. worker' \in Workers
        BY <3>1, <4>1, <4>2, Zenon DEF Workers, Positions
      <4> QED BY <3>1, <4>3
    <3>2. CASE worker' = NextDependent(worker) /\ UNCHANGED <<queued, left>>
      BY <1>0, <3>2
    <3>3. CASE worker' = [worker EXCEPT !.pc = "create"] /\ UNCHANGED <<queued, left>>
      BY <3>3 DEF Workers, Positions
    <3>4. CASE DependentError /\ UNCHANGED left
      BY <3>4, DependentErrorTypes
    <3>5. CASE CanFail("get") /\ PayFault /\ DependentError
      BY <3>5, DependentErrorTypes, PayTypes
    <3> QED BY <1>2, <3>1, <3>2, <3>3, <3>4, <3>5, Zenon DEF FetchDependent
  <2> QED BY <1>2, <2>1 DEF FetchDependent, cluster, objects
<1>3. CASE BuildFails
  <2>1. worker' \in Workers /\ queued' \in BOOLEAN /\ left' \in Bounds
    BY <1>3, DependentErrorTypes, PayTypes DEF BuildFails
  <2> QED BY <1>3, <2>1 DEF BuildFails, cluster, objects
<1>4. CASE CreateDependentExists
  BY <1>0, <1>4 DEF CreateDependentExists, cluster, objects
<1>5. CASE CreateDependent
  <2>1. PICK o \in Outcomes("create", TRUE) :
          /\ Pay(TRUE, o)
          /\ IF o.applied THEN StoreObject(d, BuiltObject(d))
             ELSE UNCHANGED objects
          /\ IF o.failed THEN DependentError
             ELSE worker' = NextDependent(worker) /\ UNCHANGED queued
    BY <1>5, Zenon DEF CreateDependent
  <2>2. BuiltObject(d) \in Objects
    <3>1. worker.res.spec.want \in Wants /\ worker.res.uid \in 0..MaxUid
      BY DEF Workers, Primaries, Specs
    <3> QED BY <3>1, BoundsAssumption DEF BuiltObject, ControllerReference, Objects
  <2>3. /\ object' \in [Deps -> Objects]
        /\ objectEvents' \in [Deps -> Seq(Objects)]
        /\ notices' \in [Deps -> Nat]
        /\ everExisted' \subseteq Deps
    BY <1>0, <2>1, <2>2, StoreTypes
  <2>4. worker' \in Workers /\ queued' \in BOOLEAN
    BY <1>0, <2>1, DependentErrorTypes
  <2>5. left' \in Bounds
    BY <2>1, PayTypes
  <2> QED BY <1>5, <2>3, <2>4, <2>5 DEF CreateDependent
<1>6. CASE UpdateDependent
  <2>1. PICK o \in Outcomes("update", Accepted(worker.fetchedFresh)) :
          /\ Pay(Accepted(worker.fetchedFresh), o)
          /\ IF o.applied THEN StoreObject(d, worker.fetched)
             ELSE UNCHANGED objects
          /\ IF o.failed THEN DependentError
             ELSE worker' = NextDependent(worker) /\ UNCHANGED queued
    BY <1>6, Zenon DEF UpdateDependent
  <2>2. worker.fetched \in Objects
    BY DEF Workers
  <2>3. /\ object' \in [Deps -> Objects]
        /\ objectEvents' \in [Deps -> Seq(Objects)]
        /\ notices' \in [Deps -> Nat]
        /\ everExisted' \subseteq Deps
    BY <1>0, <2>1, <2>2, StoreTypes
  <2>4. worker' \in Workers /\ queued' \in BOOLEAN
    BY <1>0, <2>1, DependentErrorTypes
  <2>5. left' \in Bounds
    BY <2>1, PayTypes
  <2> QED BY <1>6, <2>3, <2>4, <2>5 DEF UpdateDependent
<1> QED BY <1>1, <1>2, <1>3, <1>4, <1>5, <1>6

\* The steps of UpdateStatusIfNeeded.
LEMMA StatusStepTypes ==
    ASSUME TypeOK, CheckDependent \/ WriteStatus
    PROVE  TypeOK'
<1> USE DEF TypeOK, Turn, informer, objects
<1>1. CASE CheckDependent
  <2> DEFINE d == worker.next
             sofar == [updated |-> worker.changed, status |-> worker.res.status]
             turn(outcome) ==
               ComputeStatusTurn(sofar, d, GetCondition(outcome, cached[d].ready))
  <2>1. /\ d \in Deps
        /\ sofar.updated \in BOOLEAN
        /\ sofar.status \in Statuses
    BY DEF Workers, Primaries, Deps
  <2>2. \A outcome : turn(outcome).updated \in BOOLEAN /\ turn(outcome).status \in Statuses
    <3>1. ASSUME NEW outcome
          PROVE  turn(outcome).updated \in BOOLEAN /\ turn(outcome).status \in Statuses
      <4> DEFINE c == GetCondition(outcome, cached[d].ready)
      <4>1. c \in Conditions
        BY Zenon DEF GetCondition, ErrorDependentCondition, Conditions
      <4> HIDE DEF c
      <4>2. WithCondition(sofar.status, d, c) \in Statuses
        BY <2>1, <4>1, StatusTypes
      <4>3. ComputeStatusTurn(sofar, d, c).updated \in BOOLEAN
            /\ ComputeStatusTurn(sofar, d, c).status \in Statuses
        BY <2>1, <4>2, Zenon DEF ComputeStatusTurn, SetCondition
      <4> QED BY <4>3 DEF c
    <3> QED BY <3>1
  <2>3. ASSUME NEW t, t.updated \in BOOLEAN, t.status \in Statuses, AfterCheck(t)
        PROVE  worker' \in Workers /\ queued' \in BOOLEAN
    <3> DEFINE v == [worker EXCEPT !.res.status = t.status, !.changed = t.updated]
    <3>1. v \in Workers /\ v.next = worker.next
      BY <2>3, Zenon DEF Workers, Primaries
    <3> HIDE DEF v
    <3>2. \/ worker.next < NDeps /\ worker' = [v EXCEPT !.next = @ + 1] /\ UNCHANGED queued
          \/ worker' = [v EXCEPT !.pc = "status"] /\ UNCHANGED queued
          \/ \E again \in Requeues : EndPass(again)
      BY <2>3, Zenon DEF AfterCheck, v
    <3>3. worker.next < NDeps => v.next + 1 \in 1..NDeps
      BY <3>1, NDepsAssumption DEF Workers
    <3>4. CASE worker.next < NDeps /\ worker' = [v EXCEPT !.next = @ + 1] /\ UNCHANGED queued
      BY <3>1, <3>3, <3>4 DEF Workers
    <3>5. CASE worker' = [v EXCEPT !.pc = "status"] /\ UNCHANGED queued
      BY <3>1, <3>5, Zenon DEF Workers, Positions
    <3>6. CASE \E again \in Requeues : EndPass(again)
      BY <3>6, WorkerTypes, EnvironmentAssumption
    <3> QED BY <3>2, <3>4, <3>5, <3>6
  <2> HIDE DEF sofar, turn
  <2>4. \E t : t.updated \in BOOLEAN /\ t.status \in Statuses /\ AfterCheck(t)
    <3>1. CheckDependent =>
            \/ \E outcome : AfterCheck(turn(outcome))
            \/ AfterCheck(sofar)
      BY Zenon DEF CheckDependent, turn, sofar
    <3> QED BY <1>1, <2>1, <2>2, <3>1
  <2>5. left' \in Bounds
    BY <1>1, PayTypes DEF CheckDependent
  <2>6. worker' \in Workers /\ queued' \in BOOLEAN
    BY <2>3, <2>4
  <2> QED BY <1>1, <2>5, <2>6 DEF CheckDependent, cluster, objects
<1>2. CASE WriteStatus
  <2>1. PICK o \in Outcomes("status", Accepted(worker.resFresh)) :
          /\ Pay(Accepted(worker.resFresh), o)
          /\ IF o.applied
             THEN StorePrimary([primary EXCEPT !.status = worker.res.status])
             ELSE UNCHANGED <<primary, primaryEvents>>
          /\ \E again \in BOOLEAN : EndPass(again)
    <3>1. PICK o \in Outcomes("status", Accepted(worker.resFresh)), again \in Requeues :
            /\ Pay(Accepted(worker.resFresh), o)
            /\ IF o.applied
               THEN StorePrimary([primary EXCEPT !.status = worker.res.status])
               ELSE UNCHANGED <<primary, primaryEvents>>
            /\ EndPass(CASE worker.err = FetchFailed -> FALSE
                         [] worker.err # FetchFailed /\ o.failed -> TRUE
                         [] worker.err = InvalidSpec /\ ~o.failed -> FALSE
                         [] OTHER -> again)
      BY <1>2, Zenon DEF WriteStatus
    <3> DEFINE r == CASE worker.err = FetchFailed -> FALSE
                      [] worker.err # FetchFailed /\ o.failed -> TRUE
                      [] worker.err = InvalidSpec /\ ~o.failed -> FALSE
                      [] OTHER -> again
    <3>2. r \in BOOLEAN
      BY EnvironmentAssumption, Zenon
    <3> HIDE DEF r
    <3> QED BY <3>1, <3>2 DEF r
  <2>2. [primary EXCEPT !.status = worker.res.status] \in Primaries
    BY DEF Workers, Primaries
  <2>3. primary' \in Primaries /\ primaryEvents' \in Seq(Primaries)
    BY <2>1, <2>2, StoreTypes
  <2>4. worker' \in Workers /\ queued' \in BOOLEAN
    BY <2>1, WorkerTypes
  <2>5. left' \in Bounds
    BY <2>1, PayTypes
  <2> QED BY <1>2, <2>3, <2>4, <2>5 DEF WriteStatus
<1> QED BY <1>1, <1>2

\* The informers, users, other controllers, the garbage collector, a crash.
LEMMA EnvironmentTypes ==
    ASSUME TypeOK,
           \/ DeliverPrimary
           \/ \E d \in Deps : DeliverObject(d) \/ DeliverNotice(d) \/ GarbageCollect(d)
           \/ Environment
    PROVE  TypeOK'
<1> USE DEF TypeOK, informer, objects
<1>1. ASSUME NEW p \in Primaries, PrimaryChanges(p), left' \in Bounds
      PROVE  TypeOK'
  <2>1. worker' \in Workers
    BY <1>1 DEF PrimaryChanges, Workers
  <2>2. primary' \in Primaries /\ primaryEvents' \in Seq(Primaries)
    BY <1>1, StoreTypes DEF PrimaryChanges
  <2> QED BY <1>1, <2>1, <2>2 DEF PrimaryChanges
<1>2. ASSUME NEW d \in Deps, NEW o \in Objects, ObjectChanges(d, o), left' \in Bounds
      PROVE  TypeOK'
  <2>1. worker' \in Workers
    BY <1>2 DEF ObjectChanges, Workers
  <2>2. /\ object' \in [Deps -> Objects]
        /\ objectEvents' \in [Deps -> Seq(Objects)]
        /\ notices' \in [Deps -> Nat]
        /\ everExisted' \subseteq Deps
    BY <1>2, StoreTypes DEF ObjectChanges
  <2> QED BY <1>2, <2>1, <2>2 DEF ObjectChanges
<1>3. Disturb => left' \in Bounds
  BY PayTypes
<1>4. CASE DeliverPrimary
  <2>1. Head(primaryEvents) \in Primaries /\ Tail(primaryEvents) \in Seq(Primaries)
    BY <1>4, HeadTailProperties DEF DeliverPrimary
  <2> QED BY <1>4, <2>1 DEF DeliverPrimary
<1>5. ASSUME NEW d \in Deps, DeliverObject(d)
      PROVE  TypeOK'
  <2>1. Head(objectEvents[d]) \in Objects /\ Tail(objectEvents[d]) \in Seq(Objects)
    BY <1>5, HeadTailProperties DEF DeliverObject
  <2>2. /\ cached' \in [Deps -> Objects]
        /\ objectEvents' \in [Deps -> Seq(Objects)]
    BY <1>5, <2>1 DEF DeliverObject
  <2> QED BY <1>5, <2>2 DEF DeliverObject
<1>6. ASSUME NEW d \in Deps, GarbageCollect(d)
      PROVE  TypeOK'
  BY <1>2, <1>6, RecordTypes DEF GarbageCollect
<1>7. CASE UserCreates
  <2>1. left' \in Bounds
    BY <1>7, PayTypes
  <2>2. ASSUME NEW s \in UserSpecs
        PROVE  [uid |-> MaxUid - left.uids + 1, spec |-> s, status |-> EmptyStatus]
                 \in Primaries
    <3>1. MaxUid - left.uids + 1 \in 0..MaxUid
      BY <1>7, BoundsAssumption DEF UserCreates, Bounds
    <3> QED BY <3>1, StatusTypes, EnvironmentAssumption DEF Primaries
  <2> QED BY <1>1, <1>7, <2>1, <2>2, Zenon DEF UserCreates
<1>8. CASE UserEdits
  <2>1. ASSUME NEW s \in UserSpecs \ {primary.spec}
        PROVE  [primary EXCEPT !.spec = s] \in Primaries
    BY EnvironmentAssumption DEF Primaries
  <2> QED BY <1>1, <1>3, <1>8, <2>1, Zenon DEF UserEdits
<1>9. CASE UserDeletes
  BY <1>1, <1>3, <1>9, RecordTypes, Zenon DEF UserDeletes
<1>10. CASE Crash
  <2>1. [d \in Deps |-> <<>>] \in [Deps -> Seq(Objects)] /\ <<>> \in Seq(Primaries)
    BY EmptySeq
  <2>2. left' \in Bounds /\ worker' \in Workers
    BY <1>3, <1>10, RecordTypes DEF Crash
  <2> QED BY <1>10, <2>1, <2>2 DEF Crash, Exists
<1>11. ASSUME NEW d \in Deps, OthersTouch(d)
       PROVE  TypeOK'
  <2>1. /\ [object[d] EXCEPT !.ready = ~@] \in Objects
        /\ \A c \in Wants : [object[d] EXCEPT !.content = c] \in Objects
    BY DEF Objects
  <2> QED BY <1>2, <1>3, <1>11, <2>1, Zenon DEF OthersTouch
<1>12. ASSUME NEW d \in Deps, OthersDelete(d)
       PROVE  TypeOK'
  BY <1>2, <1>3, <1>12, RecordTypes, Zenon DEF OthersDelete
<1>13. ASSUME NEW d \in Deps, OthersCreate(d)
       PROVE  TypeOK'
  <2>1. \A c \in Wants :
          [exists |-> TRUE, owner |-> 0, content |-> c, ready |-> FALSE] \in Objects
    BY BoundsAssumption DEF Objects
  <2> QED BY <1>2, <1>3, <1>13, <2>1, Zenon DEF OthersCreate
<1>14. ASSUME NEW d \in Deps, DeliverNotice(d)
       PROVE  TypeOK'
  <2>1. notices' \in [Deps -> Nat] /\ outrun' \subseteq Deps
    BY <1>14 DEF DeliverNotice
  <2> QED BY <1>14, <2>1 DEF DeliverNotice
<1> QED
  BY <1>4, <1>5, <1>6, <1>7, <1>8, <1>9, <1>10, <1>11, <1>12, <1>13, <1>14, Zenon
     DEF Environment

LEMMA TypeStep == TypeOK /\ [Next]_vars => TypeOK'
<1> SUFFICES ASSUME TypeOK, [Next]_vars
             PROVE  TypeOK'
  OBVIOUS
<1>1. CASE Reconcile
  BY <1>1, PrepareTypes, CreateOrUpdateTypes, StatusStepTypes DEF Reconcile
<1>2. CASE \/ DeliverPrimary
           \/ \E d \in Deps : DeliverObject(d) \/ DeliverNotice(d) \/ GarbageCollect(d)
           \/ Environment
  BY <1>2, EnvironmentTypes
<1>3. CASE UNCHANGED vars
  BY <1>3 DEF TypeOK, vars
<1> QED BY <1>1, <1>2, <1>3 DEF Next

LEMMA InitTypes == Init => TypeOK
<1>1. [d \in Deps |-> <<>>] \in [Deps -> Seq(Objects)] /\ <<>> \in Seq(Primaries)
  BY EmptySeq
<1>2. [uids |-> MaxUid, disturbances |-> MaxDisturbances, faults |-> MaxFaults] \in Bounds
  BY BoundsAssumption DEF Bounds
<1>3. [d \in Deps |-> 0] \in [Deps -> Nat]
  OBVIOUS
<1> QED BY RecordTypes, <1>1, <1>2, <1>3 DEF Init, TypeOK

\* Every state the model reaches is one the program can be in: among them
\* the loop index stays within the dependents, and a stored status is one
\* UpdateStatusIfNeeded computed.
THEOREM TypeCorrectness == Spec => []TypeOK
BY InitTypes, TypeStep, PTL DEF Spec

(***************************************************************************)
(* The order of creation.  CreationOrder is not inductive: it holds        *)
(* because nothing is known of an object that never existed, and because   *)
(* the loop over the dependents only moves past one that has existed.      *)
(***************************************************************************)
Handled(d) == Config[d].created \/ Config[d].updated

AllBefore(d) == \A e \in Deps : e < d /\ Handled(e) => e \in everExisted

KnownHasExisted ==
    \A d \in Deps :
        \/ object[d].exists
        \/ cached[d].exists
        \/ \E i \in 1..Len(objectEvents[d]) : objectEvents[d][i].exists
        => d \in everExisted

LoopInOrder ==
    /\ worker.pc \in {"idle", "fetch", "delete", "prepare", "defaults", "watch"} =>
          worker.next = 1
    /\ worker.pc \in {"dependent", "create", "update"} => AllBefore(worker.next)
    /\ worker.pc = "update" => worker.next \in everExisted

OrderInv == TypeOK /\ KnownHasExisted /\ LoopInOrder /\ CreationOrder

\* A write extends what has existed by its own dependent only.
LEMMA StoreKeepsOrder ==
    ASSUME TypeOK, KnownHasExisted, CreationOrder,
           NEW d \in Deps, NEW o \in Objects, StoreObject(d, o), UNCHANGED cached,
           o.exists => d \in everExisted \/ d \in Foreign \/ AllBefore(d)
    PROVE  /\ KnownHasExisted' /\ CreationOrder'
           /\ everExisted \subseteq everExisted'
<1>1. /\ everExisted' = IF o.exists THEN everExisted \cup {d} ELSE everExisted
      /\ object' = [object EXCEPT ![d] = o]
      /\ objectEvents' = [objectEvents EXCEPT ![d] = Append(@, o)]
      /\ object \in [Deps -> Objects]
      /\ objectEvents \in [Deps -> Seq(Objects)]
  BY DEF StoreObject, TypeOK
<1>2. CreationOrder'
  BY <1>1 DEF CreationOrder, AllBefore, Handled
<1>3. ASSUME NEW e \in Deps,
             \/ object'[e].exists
             \/ cached'[e].exists
             \/ \E i \in 1..Len(objectEvents'[e]) : objectEvents'[e][i].exists
      PROVE  e \in everExisted'
  <2>1. CASE e # d
    BY <1>1, <1>3, <2>1 DEF KnownHasExisted
  <2>2. CASE e = d
    <3>1. object'[e] = o /\ objectEvents'[e] = Append(objectEvents[e], o)
      BY <1>1, <2>2
    <3>2. \A i \in 1..Len(objectEvents'[e]) :
             \/ objectEvents'[e][i] = o
             \/ /\ i \in 1..Len(objectEvents[e])
                /\ objectEvents'[e][i] = objectEvents[e][i]
      BY <1>1, <3>1, AppendProperties
    <3> QED BY <1>1, <1>3, <2>2, <3>1, <3>2 DEF KnownHasExisted
  <2> QED BY <2>1, <2>2
<1> QED BY <1>1, <1>2, <1>3 DEF KnownHasExisted

\* Where a pass goes next.
LEMMA NextDependentPosition ==
    ASSUME TypeOK, worker' = NextDependent(worker)
    PROVE  /\ \/ worker'.pc = "dependent" /\ worker'.next = worker.next + 1
              \/ worker'.pc = "check"
           /\ worker'.res = worker.res /\ worker'.resFresh = worker.resFresh
<1>1. worker \in Workers
  BY DEF TypeOK
<1>2. CASE worker.next < NDeps
  <2>1. worker' = [worker EXCEPT !.pc = "dependent", !.next = worker.next + 1]
    BY <1>2 DEF NextDependent
  <2> QED BY <1>1, <2>1, Zenon DEF Workers
<1>3. CASE ~(worker.next < NDeps)
  <2>1. worker' = [worker EXCEPT !.pc = "check", !.next = 1]
    BY <1>3 DEF NextDependent
  <2> QED BY <1>1, <2>1, Zenon DEF Workers
<1> QED BY <1>2, <1>3

LEMMA ErrorPosition ==
    ASSUME TypeOK
    PROVE  \A e, requeues : ReportError(e, requeues) =>
              \/ worker' = Idle
              \/ /\ worker'.pc = "status" /\ worker'.next = worker.next
                 /\ worker'.resFresh = worker.resFresh
                 /\ worker'.res.spec = worker.res.spec
<1>1. worker \in Workers /\ worker.res \in Primaries
  BY DEF TypeOK, Workers
<1>2. ASSUME NEW e, NEW requeues, ReportError(e, requeues), worker' # Idle
      PROVE  /\ worker'.pc = "status" /\ worker'.next = worker.next
             /\ worker'.resFresh = worker.resFresh
             /\ worker'.res.spec = worker.res.spec
  <2> DEFINE s == DefaultErrorHandler(worker.res.status, e).status
  <2>1. worker' = [worker EXCEPT !.pc = "status", !.err = e, !.res.status = s]
    BY <1>2, Zenon DEF ReportError, EndPass
  <2> HIDE DEF s
  <2> QED BY <1>1, <2>1, Zenon DEF Workers, Primaries
<1> QED BY <1>2

\* The pass never skips a dependent that has not existed yet.
LEMMA LoopMovesOn ==
    ASSUME TypeOK, LoopInOrder, everExisted \subseteq everExisted',
           worker' = NextDependent(worker),
           worker.pc \in {"dependent", "create", "update"},
           Handled(worker.next) => worker.next \in everExisted'
    PROVE  LoopInOrder'
<1>1. /\ worker.next \in 1..NDeps
      /\ \/ worker'.pc = "dependent" /\ worker'.next = worker.next + 1
         \/ worker'.pc = "check"
  BY NextDependentPosition DEF TypeOK, Workers
<1>2. AllBefore(worker.next)
  BY DEF LoopInOrder
<1>3. ASSUME NEW e \in Deps, e < worker.next + 1, Handled(e)
      PROVE  e \in everExisted'
  BY <1>1, <1>2, <1>3, NDepsAssumption DEF AllBefore, Deps
<1>4. worker'.pc = "dependent" => AllBefore(worker.next)'
  BY <1>1, <1>3 DEF AllBefore, Handled
<1> QED BY <1>1, <1>4 DEF LoopInOrder

LEMMA LoopStops ==
    ASSUME TypeOK,
           worker' = Idle \/ worker'.pc = "status"
    PROVE  LoopInOrder'
BY DEF Idle, LoopInOrder

LEMMA OrderPrepare ==
    ASSUME OrderInv,
           \/ Dequeue \/ FetchPrimary \/ FetchPrimaryNotFound \/ FetchPrimaryFails
           \/ Delete \/ ProvideDefaultValues \/ StoreDefaults \/ CheckValidityFails
           \/ InitDependentResources \/ RegisterWatch \/ AllWatched
    PROVE  KnownHasExisted' /\ LoopInOrder' /\ CreationOrder'
<1>0. TypeOK /\ worker \in Workers
  BY DEF OrderInv, TypeOK
<1>1. UNCHANGED <<object, cached, objectEvents, everExisted>>
  BY DEF Dequeue, FetchPrimary, FetchPrimaryNotFound, FetchPrimaryFails, Delete,
     ProvideDefaultValues, StoreDefaults, CheckValidityFails, InitDependentResources,
     RegisterWatch, AllWatched, cluster, objects, informer
<1>2. KnownHasExisted' /\ CreationOrder'
  BY <1>1 DEF OrderInv, KnownHasExisted, CreationOrder
<1>3. worker.next = 1
  BY DEF OrderInv, LoopInOrder, Dequeue, FetchPrimary, FetchPrimaryNotFound,
     FetchPrimaryFails, Delete, ProvideDefaultValues, StoreDefaults, CheckValidityFails,
     InitDependentResources, RegisterWatch, AllWatched
<1>4. \/ worker' = worker
      \/ worker' = Idle
      \/ worker'.pc = "status"
      \/ /\ worker'.pc \in {"fetch", "delete", "prepare", "defaults", "watch", "dependent"}
         /\ worker'.next = worker.next
  <2>1. CASE Dequeue
    BY <1>0, <2>1, Zenon DEF Dequeue, Workers
  <2>2. CASE FetchPrimary
    BY <1>0, <2>2, Zenon DEF FetchPrimary, Workers
  <2>3. CASE FetchPrimaryNotFound
    BY <1>0, <2>3, Zenon DEF FetchPrimaryNotFound, Workers
  <2>4. CASE FetchPrimaryFails
    BY <1>0, <2>4, Zenon DEF FetchPrimaryFails, Workers
  <2>5. CASE Delete \/ StoreDefaults
    BY <2>5 DEF Delete, StoreDefaults, EndPass
  <2>6. CASE ProvideDefaultValues
    BY <1>0, <2>6, Zenon DEF ProvideDefaultValues, Workers
  <2>7. CASE CheckValidityFails
    BY <1>0, <2>7, ErrorPosition DEF CheckValidityFails
  <2>8. CASE InitDependentResources
    BY <1>0, <2>8, Zenon DEF InitDependentResources, EndPass, Workers
  <2>9. CASE RegisterWatch
    BY <2>9 DEF RegisterWatch, EndPass
  <2>10. CASE AllWatched
    BY <1>0, <2>10, Zenon DEF AllWatched, Workers
  <2> QED BY <2>1, <2>2, <2>3, <2>4, <2>5, <2>6, <2>7, <2>8, <2>9, <2>10
<1>5. worker'.next = 1 => AllBefore(worker.next)'
  BY NDepsAssumption DEF AllBefore, Deps
<1>6. LoopInOrder'
  <2>1. CASE worker' = worker
    BY <1>1, <2>1 DEF OrderInv, LoopInOrder, AllBefore, Handled
  <2>2. CASE worker' = Idle \/ worker'.pc = "status"
    BY <1>0, <2>2, LoopStops
  <2>3. CASE /\ worker'.pc \in {"fetch", "delete", "prepare", "defaults", "watch", "dependent"}
             /\ worker'.next = worker.next
    BY <1>3, <1>5, <2>3 DEF LoopInOrder
  <2> QED BY <1>4, <2>1, <2>2, <2>3
<1> QED BY <1>2, <1>6

LEMMA OrderCreateOrUpdate ==
    ASSUME OrderInv,
           \/ CreateOrUpdateExits \/ FetchDependent \/ BuildFails
           \/ CreateDependentExists \/ CreateDependent \/ UpdateDependent
    PROVE  KnownHasExisted' /\ LoopInOrder' /\ CreationOrder'
<1> DEFINE d == worker.next
<1>0. /\ TypeOK /\ worker \in Workers /\ d \in Deps
      /\ KnownHasExisted /\ LoopInOrder /\ CreationOrder
  BY DEF OrderInv, TypeOK, Workers, Deps
<1>1. UNCHANGED cached
  BY DEF CreateOrUpdateExits, FetchDependent, BuildFails, CreateDependentExists,
     CreateDependent, UpdateDependent, Turn, informer, objects
<1>2. DependentError => LoopInOrder'
  BY <1>0, ErrorPosition, LoopStops DEF DependentError
<1>3. UNCHANGED objects => KnownHasExisted' /\ CreationOrder'
  BY <1>0, <1>1 DEF objects, KnownHasExisted, CreationOrder
<1>4. CASE CreateOrUpdateExits
  <2>1. LoopInOrder'
    BY <1>0, <1>4, LoopMovesOn DEF CreateOrUpdateExits, Turn, Handled, cluster, objects
  <2> QED BY <1>3, <1>4, <2>1 DEF CreateOrUpdateExits, cluster, objects
<1>5. CASE FetchDependent
  <2>1. UNCHANGED objects /\ worker.pc = "dependent"
    BY <1>5 DEF FetchDependent, cluster, objects, Turn
  <2>2. AllBefore(d) /\ (cached[d].exists => d \in everExisted)
    BY <1>0, <2>1 DEF LoopInOrder, KnownHasExisted
  <2>3. LoopInOrder'
    <3>1. CASE /\ cached[d].exists
               /\ worker' = [worker EXCEPT !.pc = "update",
                       !.fetched = [cached[d] EXCEPT !.content = worker.res.spec.want],
                       !.fetchedFresh = (objectEvents[d] = <<>>)]
      <4>1. worker'.pc = "update" /\ worker'.next = d
        BY <1>0, <3>1, Zenon DEF Workers
      <4> QED BY <2>1, <2>2, <3>1, <4>1 DEF objects, LoopInOrder, AllBefore, Handled
    <3>2. CASE cached[d].exists /\ worker' = NextDependent(worker)
      BY <1>0, <2>1, <2>2, <3>2, LoopMovesOn DEF objects
    <3>3. CASE worker' = [worker EXCEPT !.pc = "create"]
      <4>1. worker'.pc = "create" /\ worker'.next = d
        BY <1>0, <3>3, Zenon DEF Workers
      <4> QED BY <2>1, <2>2, <4>1 DEF objects, LoopInOrder, AllBefore, Handled
    <3>4. CASE DependentError
      BY <1>2, <3>4
    <3> QED BY <1>5, <3>1, <3>2, <3>3, <3>4, Zenon DEF FetchDependent
  <2> QED BY <1>3, <2>1, <2>3
<1>6. CASE BuildFails
  BY <1>2, <1>3, <1>6 DEF BuildFails, cluster, objects
<1>7. CASE CreateDependentExists
  <2>1. d \in everExisted
    BY <1>0, <1>7 DEF CreateDependentExists, KnownHasExisted
  <2>2. LoopInOrder'
    BY <1>0, <1>7, <2>1, LoopMovesOn DEF CreateDependentExists, Turn, cluster, objects
  <2> QED BY <1>3, <1>7, <2>2 DEF CreateDependentExists, cluster, objects
<1>8. CASE CreateDependent
  <2>1. PICK o \in Outcomes("create", TRUE) :
          /\ IF o.applied THEN StoreObject(d, BuiltObject(d))
             ELSE UNCHANGED objects
          /\ IF o.failed THEN DependentError
             ELSE worker' = NextDependent(worker) /\ UNCHANGED queued
    BY <1>8, Zenon DEF CreateDependent
  <2>2. worker.pc = "create" /\ AllBefore(d)
    BY <1>0, <1>8 DEF CreateDependent, Turn, LoopInOrder
  <2>3. BuiltObject(d) \in Objects /\ BuiltObject(d).exists
    <3>1. worker.res.spec.want \in Wants /\ worker.res.uid \in 0..MaxUid
      BY <1>0 DEF Workers, Primaries, Specs
    <3> QED BY <3>1, BoundsAssumption DEF BuiltObject, ControllerReference, Objects
  <2>4. /\ KnownHasExisted' /\ CreationOrder'
        /\ everExisted \subseteq everExisted'
    BY <1>0, <1>1, <1>3, <2>1, <2>2, <2>3, StoreKeepsOrder DEF objects
  <2>5. o.applied => d \in everExisted'
    BY <2>1, <2>3 DEF StoreObject
  <2>6. o.applied \/ o.failed
    BY DEF Outcomes
  <2>7. LoopInOrder'
    BY <1>0, <1>2, <2>1, <2>2, <2>4, <2>5, <2>6, LoopMovesOn
  <2> QED BY <2>4, <2>7
<1>9. CASE UpdateDependent
  <2>1. PICK o \in Outcomes("update", Accepted(worker.fetchedFresh)) :
          /\ IF o.applied THEN StoreObject(d, worker.fetched)
             ELSE UNCHANGED objects
          /\ IF o.failed THEN DependentError
             ELSE worker' = NextDependent(worker) /\ UNCHANGED queued
    BY <1>9, Zenon DEF UpdateDependent
  <2>2. worker.pc = "update" /\ d \in everExisted
    BY <1>0, <1>9 DEF UpdateDependent, Turn, LoopInOrder
  <2>3. worker.fetched \in Objects
    BY <1>0 DEF Workers
  <2>4. /\ KnownHasExisted' /\ CreationOrder'
        /\ everExisted \subseteq everExisted'
    BY <1>0, <1>1, <1>3, <2>1, <2>2, <2>3, StoreKeepsOrder DEF objects
  <2>5. LoopInOrder'
    BY <1>0, <1>2, <2>1, <2>2, <2>4, LoopMovesOn
  <2> QED BY <2>4, <2>5
<1> QED BY <1>4, <1>5, <1>6, <1>7, <1>8, <1>9

LEMMA OrderStatus ==
    ASSUME OrderInv, CheckDependent \/ WriteStatus
    PROVE  KnownHasExisted' /\ LoopInOrder' /\ CreationOrder'
<1>0. TypeOK /\ worker \in Workers
  BY DEF OrderInv, TypeOK
<1>1. UNCHANGED <<object, cached, objectEvents, everExisted>>
  BY DEF CheckDependent, WriteStatus, Turn, cluster, objects, informer
<1>2. KnownHasExisted' /\ CreationOrder'
  BY <1>1 DEF OrderInv, KnownHasExisted, CreationOrder
<1>3. worker' = Idle \/ worker'.pc \in {"check", "status"}
  <2>1. CASE CheckDependent
    <3>1. ASSUME NEW t, AfterCheck(t), worker.pc = "check"
          PROVE  worker' = Idle \/ worker'.pc \in {"check", "status"}
      <4> DEFINE v == [worker EXCEPT !.res.status = t.status, !.changed = t.updated]
      <4>1. v.pc = "check" /\ v \in [DOMAIN worker -> {v[f] : f \in DOMAIN worker}]
        BY <1>0, <3>1, Zenon DEF Workers
      <4>2. \/ worker' = [v EXCEPT !.next = @ + 1]
            \/ worker' = [v EXCEPT !.pc = "status"]
            \/ worker' = Idle
        BY <3>1, Zenon DEF AfterCheck, EndPass, v
      <4> HIDE DEF v
      <4> QED BY <1>0, <4>1, <4>2, Zenon DEF Workers
    <3>2. worker.pc = "check" /\ \E t : AfterCheck(t)
      BY <2>1, Zenon DEF CheckDependent, Turn
    <3> QED BY <3>1, <3>2
  <2>2. CASE WriteStatus
    BY <2>2, Zenon DEF WriteStatus, EndPass
  <2> QED BY <2>1, <2>2
<1>4. LoopInOrder'
  BY <1>0, <1>3 DEF LoopInOrder, Idle
<1> QED BY <1>2, <1>4

LEMMA OrderEnvironment ==
    ASSUME OrderInv,
           \/ DeliverPrimary
           \/ \E d \in Deps : DeliverObject(d) \/ DeliverNotice(d) \/ GarbageCollect(d)
           \/ Environment
    PROVE  KnownHasExisted' /\ LoopInOrder' /\ CreationOrder'
<1>0. /\ TypeOK /\ worker \in Workers
      /\ KnownHasExisted /\ LoopInOrder /\ CreationOrder
  BY DEF OrderInv, TypeOK
<1>1. ASSUME everExisted \subseteq everExisted',
             worker'.pc = worker.pc, worker'.next = worker.next
      PROVE  LoopInOrder'
  BY <1>0, <1>1 DEF LoopInOrder, AllBefore, Handled
<1>2. ASSUME NEW p, PrimaryChanges(p)
      PROVE  KnownHasExisted' /\ LoopInOrder' /\ CreationOrder'
  <2>1. /\ UNCHANGED <<object, cached, objectEvents, everExisted>>
        /\ worker' = [worker EXCEPT !.resFresh = FALSE]
    BY <1>2 DEF PrimaryChanges, informer, objects
  <2>2. worker'.pc = worker.pc /\ worker'.next = worker.next
    BY <1>0, <2>1, Zenon DEF Workers
  <2> QED BY <1>0, <1>1, <2>1, <2>2 DEF KnownHasExisted, CreationOrder
<1>3. ASSUME NEW d \in Deps, NEW o \in Objects, ObjectChanges(d, o),
             o.exists => d \in everExisted \/ d \in Foreign
      PROVE  KnownHasExisted' /\ LoopInOrder' /\ CreationOrder'
  <2>1. /\ StoreObject(d, o) /\ UNCHANGED cached
        /\ worker' = [worker EXCEPT !.fetchedFresh = @ /\ worker.next # d]
    BY <1>3 DEF ObjectChanges, informer, objects
  <2>2. worker'.pc = worker.pc /\ worker'.next = worker.next
    BY <1>0, <2>1, Zenon DEF Workers
  <2> QED BY <1>0, <1>1, <1>3, <2>1, <2>2, StoreKeepsOrder
<1>4. CASE DeliverPrimary
  BY <1>0, <1>1, <1>4 DEF DeliverPrimary, objects, KnownHasExisted, CreationOrder
<1>5. ASSUME NEW d \in Deps, DeliverObject(d)
      PROVE  KnownHasExisted' /\ LoopInOrder' /\ CreationOrder'
  <2> DEFINE s == objectEvents[d]
  <2>1. /\ s \in Seq(Objects) /\ s # <<>>
        /\ cached' = [cached EXCEPT ![d] = Head(s)]
        /\ objectEvents' = [objectEvents EXCEPT ![d] = Tail(s)]
        /\ UNCHANGED <<object, worker, everExisted>>
    BY <1>0, <1>5 DEF DeliverObject, TypeOK
  <2>2. /\ Head(s) = s[1] /\ 1 \in 1..Len(s)
        /\ \A i \in 1..Len(Tail(s)) : i + 1 \in 1..Len(s) /\ Tail(s)[i] = s[i + 1]
    BY <2>1, HeadTailProperties
  <2>3. KnownHasExisted'
    BY <1>0, <2>1, <2>2 DEF KnownHasExisted, TypeOK
  <2> QED BY <1>0, <1>1, <2>1, <2>3 DEF CreationOrder
<1>6. ASSUME NEW d \in Deps, GarbageCollect(d)
      PROVE  KnownHasExisted' /\ LoopInOrder' /\ CreationOrder'
  BY <1>3, <1>6, RecordTypes DEF GarbageCollect, NoObject
<1>7. CASE UserCreates \/ UserEdits \/ UserDeletes
  BY <1>2, <1>7, Zenon DEF UserCreates, UserEdits, UserDeletes
<1>8. CASE Crash
  <2>1. KnownHasExisted' /\ CreationOrder'
    BY <1>0, <1>8 DEF Crash, KnownHasExisted, CreationOrder
  <2> QED BY <1>0, <1>8, <2>1, LoopStops DEF Crash
<1>9. ASSUME NEW d \in Deps, OthersTouch(d)
      PROVE  KnownHasExisted' /\ LoopInOrder' /\ CreationOrder'
  <2>1. /\ [object[d] EXCEPT !.ready = ~@] \in Objects
        /\ \A c \in Wants : [object[d] EXCEPT !.content = c] \in Objects
    BY <1>0 DEF Objects, TypeOK
  <2>2. d \in everExisted
    BY <1>0, <1>9 DEF OthersTouch, KnownHasExisted
  <2> QED BY <1>3, <1>9, <2>1, <2>2, Zenon DEF OthersTouch
<1>10. ASSUME NEW d \in Deps, OthersDelete(d)
       PROVE  KnownHasExisted' /\ LoopInOrder' /\ CreationOrder'
  BY <1>3, <1>10, RecordTypes DEF OthersDelete, NoObject
<1>11. ASSUME NEW d \in Deps, OthersCreate(d)
       PROVE  KnownHasExisted' /\ LoopInOrder' /\ CreationOrder'
  <2>1. \A c \in Wants :
          [exists |-> TRUE, owner |-> 0, content |-> c, ready |-> FALSE] \in Objects
    BY BoundsAssumption DEF Objects
  <2> QED BY <1>3, <1>11, <2>1, Zenon DEF OthersCreate
<1>12. ASSUME NEW d \in Deps, DeliverNotice(d)
       PROVE  KnownHasExisted' /\ LoopInOrder' /\ CreationOrder'
  BY <1>0, <1>1, <1>12 DEF DeliverNotice, KnownHasExisted, CreationOrder
<1> QED
  BY <1>4, <1>5, <1>6, <1>7, <1>8, <1>9, <1>10, <1>11, <1>12, Zenon DEF Environment

LEMMA OrderStep == OrderInv /\ [Next]_vars => OrderInv'
<1> SUFFICES ASSUME OrderInv, [Next]_vars
             PROVE  OrderInv'
  OBVIOUS
<1>1. TypeOK'
  BY TypeStep DEF OrderInv
<1>2. CASE Reconcile
  BY <1>1, <1>2, OrderPrepare, OrderCreateOrUpdate, OrderStatus DEF OrderInv, Reconcile
<1>3. CASE \/ DeliverPrimary
           \/ \E d \in Deps : DeliverObject(d) \/ DeliverNotice(d) \/ GarbageCollect(d)
           \/ Environment
  BY <1>1, <1>3, OrderEnvironment DEF OrderInv
<1>4. CASE UNCHANGED vars
  BY <1>1, <1>4
     DEF vars, OrderInv, KnownHasExisted, LoopInOrder, AllBefore, CreationOrder, Handled
<1> QED BY <1>2, <1>3, <1>4 DEF Next

LEMMA OrderInit == Init => OrderInv
<1>1. Init => TypeOK
  BY InitTypes
<1>2. Init => KnownHasExisted /\ LoopInOrder /\ CreationOrder
  BY RecordTypes, EmptySeq DEF Init, KnownHasExisted, LoopInOrder, CreationOrder,
     NoObject, Idle, AllBefore
<1> QED BY <1>1, <1>2 DEF OrderInv

\* Dependents come into being in the order they were added, for any number
\* of dependents and any configuration of them, whatever fails, is delayed,
\* is done by others or crashes.
THEOREM CreationInOrder == Spec => []CreationOrder
<1>1. OrderInv => CreationOrder
  BY DEF OrderInv
<1> QED BY <1>1, OrderInit, OrderStep, PTL DEF Spec

\* The writes of users and of other controllers.
LEMMA UserWrites ==
    ASSUME TypeOK, UserCreates \/ UserEdits \/ UserDeletes
    PROVE  \E p \in Primaries : PrimaryChanges(p)
<1>1. CASE UserCreates
  <2>1. MaxUid - left.uids + 1 \in 0..MaxUid
    BY <1>1, BoundsAssumption DEF UserCreates, TypeOK, Bounds
  <2>2. \A s \in UserSpecs :
          [uid |-> MaxUid - left.uids + 1, spec |-> s, status |-> EmptyStatus] \in Primaries
    BY <2>1, StatusTypes, EnvironmentAssumption DEF Primaries
  <2> QED BY <1>1, <2>2, Zenon DEF UserCreates
<1>2. CASE UserEdits
  <2>1. ASSUME NEW s \in UserSpecs \ {primary.spec}
        PROVE  [primary EXCEPT !.spec = s] \in Primaries
    BY EnvironmentAssumption DEF Primaries, TypeOK
  <2> QED BY <1>2, <2>1, Zenon DEF UserEdits
<1>3. CASE UserDeletes
  BY <1>3, RecordTypes, Zenon DEF UserDeletes
<1> QED BY <1>1, <1>2, <1>3

LEMMA OthersWrite ==
    ASSUME TypeOK, NEW d \in Deps, OthersTouch(d) \/ OthersDelete(d) \/ OthersCreate(d)
    PROVE  \E o \in Objects :
              /\ ObjectChanges(d, o)
              /\ o.exists => object[d].exists \/ d \in Foreign
<1>1. CASE OthersTouch(d)
  <2>1. /\ [object[d] EXCEPT !.ready = ~@] \in Objects
        /\ \A c \in Wants : [object[d] EXCEPT !.content = c] \in Objects
    BY DEF Objects, TypeOK
  <2> QED BY <1>1, <2>1, Zenon DEF OthersTouch
<1>2. CASE OthersDelete(d)
  <2>1. NoObject \in Objects /\ ~NoObject.exists
    BY RecordTypes DEF NoObject
  <2> QED BY <1>2, <2>1, Zenon DEF OthersDelete
<1>3. CASE OthersCreate(d)
  <2>1. \A c \in Wants :
          [exists |-> TRUE, owner |-> 0, content |-> c, ready |-> FALSE] \in Objects
    BY BoundsAssumption DEF Objects
  <2> QED BY <1>3, <2>1, Zenon DEF OthersCreate
<1> QED BY <1>1, <1>2, <1>3

(***************************************************************************)
(* Stale copies.  A pass writes what it read earlier; nothing of others is *)
(* lost because a copy that is still fresh differs from the server's       *)
(* object only by what the pass itself changed, and the server refuses the *)
(* others.                                                                 *)
(***************************************************************************)
\* The last version on a watch stream is the server's; a drained stream has
\* brought the cache up to it.
Feeds(events, seen, actual) ==
    IF events = <<>> THEN seen = actual ELSE events[Len(events)] = actual

CachesCatchUp ==
    /\ Feeds(primaryEvents, cachedPrimary, primary)
    /\ \A d \in Deps : Feeds(objectEvents[d], cached[d], object[d])

SameSpec(s) == s \in {primary.spec, [primary.spec EXCEPT !.defaulted = TRUE]}

Edited(o, d) == \E c \in Wants : o = [object[d] EXCEPT !.content = c]

CopiesAgree ==
    /\ worker.resFresh => SameSpec(worker.res.spec)
    /\ worker.pc = "update" =>
          /\ Config[worker.next].updated
          /\ worker.fetchedFresh => Edited(worker.fetched, worker.next)

CopiesInv == TypeOK /\ CachesCatchUp /\ CopiesAgree

LEMMA FeedsAppend ==
    ASSUME NEW S, NEW s \in Seq(S), NEW a \in S, NEW seen
    PROVE  Feeds(Append(s, a), seen, a)
<1>1. Append(s, a) # <<>> /\ Append(s, a)[Len(Append(s, a))] = a
  BY AppendProperties
<1> QED BY <1>1 DEF Feeds

LEMMA FeedsTail ==
    ASSUME NEW S, NEW s \in Seq(S), s # <<>>, NEW seen, NEW a, Feeds(s, seen, a)
    PROVE  Feeds(Tail(s), Head(s), a)
<1>1. /\ s[Len(s)] = a /\ Len(s) \in Nat /\ Len(s) # 0
      /\ Head(s) = s[1] /\ Tail(s) \in Seq(S) /\ Len(Tail(s)) = Len(s) - 1
      /\ \A i \in 1..Len(Tail(s)) : Tail(s)[i] = s[i + 1]
  BY HeadTailProperties, EmptySeq, LenProperties DEF Feeds
<1>2. CASE Tail(s) = <<>>
  <2>1. Len(Tail(s)) = 0
    <3>1. Len(<<>>) = 0
      BY EmptySeq, Zenon
    <3> QED BY <1>2, <3>1, Zenon
  <2>2. Len(s) = 1
    <3>1. \A n \in Nat : n - 1 = 0 => n = 1
      OBVIOUS
    <3> QED BY <1>1, <2>1, <3>1, Zenon
  <2> QED BY <1>1, <1>2, <2>2 DEF Feeds
<1>3. CASE Tail(s) # <<>>
  <2>1. Len(Tail(s)) \in 1..Len(Tail(s))
    BY <1>1, <1>3, EmptySeq
  <2> QED BY <1>1, <1>3, <2>1 DEF Feeds
<1> QED BY <1>2, <1>3

\* Every write reaches the stream of its object.
LEMMA StoreFeeds ==
    ASSUME TypeOK, CachesCatchUp, UNCHANGED <<cachedPrimary, cached>>
    PROVE  /\ \A p \in Primaries :
                 StorePrimary(p) /\ UNCHANGED <<object, objectEvents>> => CachesCatchUp'
           /\ \A d \in Deps, o \in Objects :
                 StoreObject(d, o) /\ UNCHANGED <<primary, primaryEvents>> => CachesCatchUp'
<1>1. ASSUME NEW p \in Primaries, StorePrimary(p), UNCHANGED <<object, objectEvents>>
      PROVE  CachesCatchUp'
  <2>1. Feeds(Append(primaryEvents, p), cachedPrimary, p)
    BY FeedsAppend DEF TypeOK
  <2> QED BY <1>1, <2>1 DEF StorePrimary, CachesCatchUp
<1>2. ASSUME NEW d \in Deps, NEW o \in Objects, StoreObject(d, o),
             UNCHANGED <<primary, primaryEvents>>
      PROVE  CachesCatchUp'
  <2>1. Feeds(Append(objectEvents[d], o), cached[d], o)
    BY FeedsAppend DEF TypeOK
  <2>2. \A e \in Deps : Feeds(objectEvents'[e], cached[e], object'[e])
    BY <1>2, <2>1 DEF StoreObject, CachesCatchUp, TypeOK
  <2> QED BY <1>2, <2>2 DEF CachesCatchUp
<1> QED BY <1>1, <1>2

\* Which steps of a pass write what.
PassWrites ==
    \/ UNCHANGED <<primary, primaryEvents, object, objectEvents>>
    \/ /\ worker.resFresh
       /\ \/ /\ StorePrimary([primary EXCEPT !.spec = worker.res.spec])
             /\ UNCHANGED <<object, objectEvents>>
          \/ /\ StorePrimary([primary EXCEPT !.status = worker.res.status])
             /\ UNCHANGED <<object, objectEvents>>
    \/ /\ worker.pc = "create" /\ ~object[worker.next].exists
       /\ StoreObject(worker.next, BuiltObject(worker.next))
       /\ UNCHANGED <<primary, primaryEvents>>
    \/ /\ worker.pc = "update" /\ worker.fetchedFresh
       /\ StoreObject(worker.next, worker.fetched)
       /\ UNCHANGED <<primary, primaryEvents>>

LEMMA ReconcileWrites ==
    ASSUME TypeOK, Reconcile
    PROVE  PassWrites /\ UNCHANGED <<cachedPrimary, cached>>
<1>1. UNCHANGED <<cachedPrimary, cached>>
  BY DEF Reconcile, Dequeue, FetchPrimary, FetchPrimaryNotFound, FetchPrimaryFails, Delete,
     ProvideDefaultValues, StoreDefaults, CheckValidityFails, InitDependentResources,
     RegisterWatch, AllWatched, CreateOrUpdateExits, FetchDependent, BuildFails,
     CreateDependentExists, CreateDependent, UpdateDependent, CheckDependent, WriteStatus,
     Turn, informer, objects
<1>2. ASSUME NEW site, NEW fresh, NEW o \in Outcomes(site, Accepted(fresh)), o.applied
      PROVE  fresh
  BY <1>2 DEF Outcomes, Accepted
<1>3. CASE StoreDefaults
  <2>1. PICK o \in Outcomes("defaults", Accepted(worker.resFresh)) :
          IF o.applied THEN StorePrimary([primary EXCEPT !.spec = worker.res.spec])
          ELSE UNCHANGED <<primary, primaryEvents>>
    BY <1>3, Zenon DEF StoreDefaults
  <2>2. UNCHANGED <<object, objectEvents>>
    BY <1>3 DEF StoreDefaults, objects
  <2>3. o.applied => worker.resFresh
    BY <1>2, <2>1
  <2> QED BY <1>1, <2>1, <2>2, <2>3, Zenon DEF PassWrites
<1>4. CASE WriteStatus
  <2>1. PICK o \in Outcomes("status", Accepted(worker.resFresh)) :
          IF o.applied THEN StorePrimary([primary EXCEPT !.status = worker.res.status])
          ELSE UNCHANGED <<primary, primaryEvents>>
    BY <1>4, Zenon DEF WriteStatus
  <2>2. UNCHANGED <<object, objectEvents>>
    BY <1>4 DEF WriteStatus, objects
  <2>3. o.applied => worker.resFresh
    BY <1>2, <2>1
  <2> QED BY <1>1, <2>1, <2>2, <2>3, Zenon DEF PassWrites
<1>5. CASE CreateDependent
  <2>1. PICK o : IF o.applied THEN StoreObject(worker.next, BuiltObject(worker.next))
                 ELSE UNCHANGED objects
    BY <1>5, Zenon DEF CreateDependent
  <2>2. /\ UNCHANGED <<primary, primaryEvents>>
        /\ worker.pc = "create" /\ ~object[worker.next].exists
    BY <1>5 DEF CreateDependent, Turn
  <2> QED BY <1>1, <2>1, <2>2, Zenon DEF PassWrites, objects
<1>6. CASE UpdateDependent
  <2>1. PICK o \in Outcomes("update", Accepted(worker.fetchedFresh)) :
          IF o.applied THEN StoreObject(worker.next, worker.fetched)
          ELSE UNCHANGED objects
    BY <1>6, Zenon DEF UpdateDependent
  <2>2. UNCHANGED <<primary, primaryEvents>> /\ worker.pc = "update"
    BY <1>6 DEF UpdateDependent, Turn
  <2>3. o.applied => worker.fetchedFresh
    BY <1>2, <2>1
  <2> QED BY <1>1, <2>1, <2>2, <2>3, Zenon DEF PassWrites, objects
<1>7. CASE ~(StoreDefaults \/ WriteStatus \/ CreateDependent \/ UpdateDependent)
  BY <1>1, <1>7 DEF Reconcile, Dequeue, FetchPrimary, FetchPrimaryNotFound, FetchPrimaryFails,
     Delete, ProvideDefaultValues, CheckValidityFails, InitDependentResources,
     RegisterWatch, AllWatched, CreateOrUpdateExits, FetchDependent, BuildFails,
     CreateDependentExists, CheckDependent, cluster, objects, PassWrites
<1> QED BY <1>1, <1>3, <1>4, <1>5, <1>6, <1>7

LEMMA BuiltType == TypeOK => BuiltObject(worker.next) \in Objects
<1> SUFFICES ASSUME TypeOK
             PROVE  BuiltObject(worker.next) \in Objects
  OBVIOUS
<1>1. worker.res.spec.want \in Wants /\ worker.res.uid \in 0..MaxUid
  BY DEF TypeOK, Workers, Primaries, Specs
<1> QED BY <1>1, BoundsAssumption DEF BuiltObject, ControllerReference, Objects

LEMMA CachesStep == CopiesInv /\ [Next]_vars => CachesCatchUp'
<1> SUFFICES ASSUME TypeOK, CachesCatchUp, CopiesAgree, [Next]_vars
             PROVE  CachesCatchUp'
  BY DEF CopiesInv
<1>1. CASE Reconcile
  <2>1. PassWrites /\ UNCHANGED <<cachedPrimary, cached>>
    BY <1>1, ReconcileWrites
  <2>2. /\ [primary EXCEPT !.spec = worker.res.spec] \in Primaries
        /\ [primary EXCEPT !.status = worker.res.status] \in Primaries
        /\ worker.fetched \in Objects
        /\ worker.next \in Deps
    BY DEF TypeOK, Workers, Primaries, Deps
  <2>3. CASE UNCHANGED <<primary, primaryEvents, object, objectEvents>>
    BY <2>1, <2>3 DEF CachesCatchUp
  <2>4. CASE ~UNCHANGED <<primary, primaryEvents, object, objectEvents>>
    BY <2>1, <2>2, <2>4, StoreFeeds, BuiltType, Zenon DEF PassWrites
  <2> QED BY <2>3, <2>4
<1>2. ASSUME NEW p \in Primaries, PrimaryChanges(p)
      PROVE  CachesCatchUp'
  BY <1>2, StoreFeeds DEF PrimaryChanges, informer, objects
<1>3. ASSUME NEW d \in Deps, NEW o \in Objects, ObjectChanges(d, o)
      PROVE  CachesCatchUp'
  BY <1>3, StoreFeeds DEF ObjectChanges, informer, objects
<1>4. CASE DeliverPrimary
  <2>1. Feeds(Tail(primaryEvents), Head(primaryEvents), primary)
    BY <1>4, FeedsTail DEF DeliverPrimary, CachesCatchUp, TypeOK
  <2> QED BY <1>4, <2>1 DEF DeliverPrimary, objects, CachesCatchUp
<1>5. ASSUME NEW d \in Deps, DeliverObject(d)
      PROVE  CachesCatchUp'
  <2>1. Feeds(Tail(objectEvents[d]), Head(objectEvents[d]), object[d])
    BY <1>5, FeedsTail DEF DeliverObject, CachesCatchUp, TypeOK
  <2>2. \A e \in Deps : Feeds(objectEvents'[e], cached'[e], object[e])
    BY <1>5, <2>1 DEF DeliverObject, CachesCatchUp, TypeOK
  <2> QED BY <1>5, <2>2 DEF DeliverObject, CachesCatchUp
<1>6. ASSUME NEW d \in Deps, GarbageCollect(d)
      PROVE  CachesCatchUp'
  BY <1>3, <1>6, RecordTypes DEF GarbageCollect
<1>7. CASE Environment
  <2>1. CASE UserCreates \/ UserEdits \/ UserDeletes
    BY <1>2, <2>1, UserWrites
  <2>2. CASE Crash
    BY <2>2 DEF Crash, CachesCatchUp, Feeds
  <2>3. CASE \E d \in Deps : OthersTouch(d) \/ OthersDelete(d) \/ OthersCreate(d)
    BY <1>3, <2>3, OthersWrite
  <2> QED BY <1>7, <2>1, <2>2, <2>3 DEF Environment
<1>8. CASE UNCHANGED vars
  BY <1>8 DEF vars, CachesCatchUp
<1>9. ASSUME NEW d \in Deps, DeliverNotice(d)
      PROVE  CachesCatchUp'
  BY <1>9 DEF DeliverNotice, CachesCatchUp
<1> QED BY <1>1, <1>4, <1>5, <1>6, <1>7, <1>8, <1>9 DEF Next

\* What a step of others leaves of the worker's copies.
LEMMA OthersKeepCopies ==
    ASSUME TypeOK, CopiesAgree
    PROVE  /\ \A p : PrimaryChanges(p) => CopiesAgree'
           /\ \A d \in Deps : \A o : ObjectChanges(d, o) => CopiesAgree'
<1>0. worker \in Workers /\ object \in [Deps -> Objects]
  BY DEF TypeOK
<1>1. ASSUME NEW p, PrimaryChanges(p)
      PROVE  CopiesAgree'
  <2>1. worker' = [worker EXCEPT !.resFresh = FALSE] /\ object' = object
    BY <1>1 DEF PrimaryChanges, objects
  <2>2. /\ worker'.resFresh = FALSE
        /\ worker'.pc = worker.pc /\ worker'.next = worker.next
        /\ worker'.fetched = worker.fetched /\ worker'.fetchedFresh = worker.fetchedFresh
    BY <1>0, <2>1, Zenon DEF Workers
  <2> QED BY <2>1, <2>2 DEF CopiesAgree, Edited
<1>2. ASSUME NEW d \in Deps, NEW o, ObjectChanges(d, o)
      PROVE  CopiesAgree'
  <2>1. /\ worker' = [worker EXCEPT !.fetchedFresh = @ /\ worker.next # d]
        /\ object' = [object EXCEPT ![d] = o]
        /\ primary' = primary
    BY <1>2 DEF ObjectChanges, StoreObject
  <2>2. /\ worker'.fetchedFresh => worker.fetchedFresh /\ worker.next # d
        /\ worker'.pc = worker.pc /\ worker'.next = worker.next
        /\ worker'.fetched = worker.fetched
        /\ worker'.resFresh = worker.resFresh /\ worker'.res = worker.res
    BY <1>0, <2>1, Zenon DEF Workers
  <2>3. worker.next # d => object'[worker.next] = object[worker.next]
    BY <1>0, <2>1
  <2> QED BY <2>1, <2>2, <2>3 DEF CopiesAgree, Edited, SameSpec
<1> QED BY <1>1, <1>2

\* What a step of the pass makes of its copies.
LEMMA PassKeepsCopies ==
    ASSUME CopiesInv, Reconcile
    PROVE  CopiesAgree'
<1>0. /\ TypeOK /\ CachesCatchUp /\ CopiesAgree
      /\ worker \in Workers /\ worker.res \in Primaries /\ worker.next \in Deps
  BY DEF CopiesInv, TypeOK, Workers, Deps
<1>1. ASSUME worker' = Idle
      PROVE  CopiesAgree'
  BY <1>1 DEF Idle, CopiesAgree
<1>2. ASSUME worker'.pc # "update", UNCHANGED primary,
             worker'.resFresh = worker.resFresh, worker'.res.spec = worker.res.spec
      PROVE  CopiesAgree'
  BY <1>0, <1>2 DEF CopiesAgree, SameSpec
<1>3. ASSUME UNCHANGED primary, NEW e, NEW requeues, ReportError(e, requeues)
      PROVE  CopiesAgree'
  BY <1>0, <1>1, <1>2, <1>3, ErrorPosition
<1>4. ASSUME UNCHANGED primary, worker' = NextDependent(worker)
      PROVE  CopiesAgree'
  BY <1>0, <1>2, <1>4, NextDependentPosition
<1>5. CASE Dequeue
  BY <1>0, <1>2, <1>5 DEF Dequeue, Workers, cluster, objects
<1>6. CASE FetchPrimary
  <2>1. /\ worker'.pc = "prepare" /\ worker'.res = cachedPrimary
        /\ worker'.resFresh = (primaryEvents = <<>>)
    BY <1>0, <1>6, Zenon DEF FetchPrimary, Workers
  <2>2. primaryEvents = <<>> => cachedPrimary = primary
    BY <1>0 DEF CachesCatchUp, Feeds
  <2>3. primary' = primary
    BY <1>6 DEF FetchPrimary, cluster, objects
  <2> QED BY <2>1, <2>2, <2>3 DEF CopiesAgree, SameSpec
<1>7. CASE FetchPrimaryNotFound
  BY <1>0, <1>2, <1>7 DEF FetchPrimaryNotFound, Workers, cluster, objects
<1>8. CASE FetchPrimaryFails
  <2>1. /\ worker'.pc = "status" /\ worker'.resFresh = worker.resFresh
        /\ worker'.res.spec = worker.res.spec
    BY <1>0, <1>8, Zenon DEF FetchPrimaryFails, Workers, Primaries
  <2> QED BY <1>2, <1>8, <2>1 DEF FetchPrimaryFails, cluster, objects
<1>9. CASE Delete
  BY <1>1, <1>9 DEF Delete, EndPass
<1>10. CASE ProvideDefaultValues
  <2>1. /\ worker'.pc = "defaults" /\ worker'.resFresh = worker.resFresh
        /\ worker'.res.spec = [worker.res.spec EXCEPT !.defaulted = TRUE]
    BY <1>0, <1>10, Zenon DEF ProvideDefaultValues, Workers, Primaries
  <2>2. primary.spec \in Specs /\ primary' = primary
    BY <1>0, <1>10 DEF ProvideDefaultValues, cluster, objects, TypeOK, Primaries
  <2>3. SameSpec(worker.res.spec) => SameSpec([worker.res.spec EXCEPT !.defaulted = TRUE])
    BY <2>2 DEF SameSpec, Specs
  <2> QED BY <1>0, <2>1, <2>2, <2>3 DEF CopiesAgree, SameSpec
<1>11. CASE StoreDefaults
  BY <1>1, <1>11 DEF StoreDefaults, EndPass
<1>12. CASE CheckValidityFails
  BY <1>3, <1>12 DEF CheckValidityFails, cluster, objects
<1>13. CASE InitDependentResources
  BY <1>0, <1>1, <1>2, <1>13 DEF InitDependentResources, EndPass, Workers, cluster, objects
<1>14. CASE RegisterWatch
  <2>1. \/ worker' = Idle
        \/ worker' = worker /\ worker.pc = "watch"
    BY <1>14 DEF RegisterWatch, EndPass
  <2> QED BY <1>1, <1>2, <1>14, <2>1 DEF RegisterWatch, cluster, objects
<1>15. CASE AllWatched
  BY <1>0, <1>2, <1>15 DEF AllWatched, Workers, cluster, objects
<1>16. CASE CreateOrUpdateExits
  BY <1>4, <1>16 DEF CreateOrUpdateExits, cluster, objects
<1>17. CASE FetchDependent
  <2> DEFINE d == worker.next
             w == worker.res.spec.want
             fetched == [cached[d] EXCEPT !.content = w]
  <2>0. primary' = primary /\ object' = object
    BY <1>17 DEF FetchDependent, cluster, objects
  <2>1. CASE /\ Config[d].updated
             /\ worker' = [worker EXCEPT !.pc = "update", !.fetched = fetched,
                                         !.fetchedFresh = (objectEvents[d] = <<>>)]
    <3> HIDE DEF fetched
    <3>1. /\ worker'.pc = "update" /\ worker'.next = d /\ worker'.fetched = fetched
          /\ worker'.fetchedFresh = (objectEvents[d] = <<>>)
          /\ worker'.resFresh = worker.resFresh /\ worker'.res = worker.res
      BY <1>0, <2>1, Zenon DEF Workers
    <3>2. objectEvents[d] = <<>> => cached[d] = object[d]
      BY <1>0 DEF CachesCatchUp, Feeds
    <3>3. w \in Wants
      BY <1>0 DEF Primaries, Specs
    <3>4. worker'.fetchedFresh => Edited(fetched, d)
      BY <3>1, <3>2, <3>3 DEF Edited, fetched
    <3> QED BY <1>0, <2>0, <2>1, <3>1, <3>4 DEF CopiesAgree, Edited, SameSpec
  <2>2. CASE worker' = NextDependent(worker)
    BY <1>4, <2>0, <2>2
  <2>3. CASE worker' = [worker EXCEPT !.pc = "create"]
    <3>1. /\ worker'.pc = "create" /\ worker'.resFresh = worker.resFresh
          /\ worker'.res = worker.res
      BY <1>0, <2>3, Zenon DEF Workers
    <3> QED BY <1>2, <2>0, <3>1
  <2>4. CASE DependentError
    BY <1>3, <2>0, <2>4 DEF DependentError
  <2> QED BY <1>17, <2>1, <2>2, <2>3, <2>4, Zenon DEF FetchDependent
<1>18. CASE BuildFails
  BY <1>3, <1>18 DEF BuildFails, DependentError, cluster, objects
<1>19. CASE CreateDependentExists
  BY <1>4, <1>19 DEF CreateDependentExists, cluster, objects
<1>20. CASE CreateDependent
  <2>1. primary' = primary /\ (DependentError \/ worker' = NextDependent(worker))
    BY <1>20, Zenon DEF CreateDependent
  <2> QED BY <1>3, <1>4, <2>1 DEF DependentError
<1>21. CASE UpdateDependent
  <2>1. primary' = primary /\ (DependentError \/ worker' = NextDependent(worker))
    BY <1>21, Zenon DEF UpdateDependent
  <2> QED BY <1>3, <1>4, <2>1 DEF DependentError
<1>22. CASE CheckDependent
  <2>1. PICK t : AfterCheck(t)
    BY <1>22, Zenon DEF CheckDependent
  <2>2. worker.pc = "check" /\ primary' = primary
    BY <1>22 DEF CheckDependent, Turn, cluster, objects
  <2> DEFINE v == [worker EXCEPT !.res.status = t.status, !.changed = t.updated]
  <2>3. /\ v.pc = "check" /\ v.resFresh = worker.resFresh
        /\ v.res.spec = worker.res.spec
        /\ v \in [DOMAIN worker -> {v[f] : f \in DOMAIN worker}]
    BY <1>0, <2>2, Zenon DEF Workers, Primaries
  <2>4. \/ worker' = [v EXCEPT !.next = @ + 1]
        \/ worker' = [v EXCEPT !.pc = "status"]
        \/ worker' = Idle
    BY <2>1, Zenon DEF AfterCheck, EndPass
  <2> HIDE DEF v
  <2>5. worker' # Idle => /\ worker'.pc # "update"
                          /\ worker'.resFresh = worker.resFresh
                          /\ worker'.res.spec = worker.res.spec
    BY <1>0, <2>3, <2>4, Zenon DEF Workers
  <2> QED BY <1>1, <1>2, <2>2, <2>5
<1>23. CASE WriteStatus
  BY <1>1, <1>23 DEF WriteStatus, EndPass
<1> QED
  BY <1>5, <1>6, <1>7, <1>8, <1>9, <1>10, <1>11, <1>12, <1>13, <1>14, <1>15, <1>16,
     <1>17, <1>18, <1>19, <1>20, <1>21, <1>22, <1>23, Zenon DEF Reconcile

LEMMA CopiesStep == CopiesInv /\ [Next]_vars => CopiesInv'
<1> SUFFICES ASSUME CopiesInv, [Next]_vars
             PROVE  CopiesInv'
  OBVIOUS
<1>0. TypeOK /\ CachesCatchUp /\ CopiesAgree
  BY DEF CopiesInv
<1>1. TypeOK' /\ CachesCatchUp'
  BY <1>0, TypeStep, CachesStep
<1>2. CopiesAgree'
  <2>1. CASE Reconcile
    BY <2>1, PassKeepsCopies
  <2>2. CASE DeliverPrimary
    BY <1>0, <2>2 DEF DeliverPrimary, objects, CopiesAgree, SameSpec, Edited
  <2>3. ASSUME NEW d \in Deps, DeliverObject(d)
        PROVE  CopiesAgree'
    BY <1>0, <2>3 DEF DeliverObject, CopiesAgree, SameSpec, Edited
  <2>4. ASSUME NEW d \in Deps, GarbageCollect(d)
        PROVE  CopiesAgree'
    BY <1>0, <2>4, OthersKeepCopies DEF GarbageCollect
  <2>5. CASE UserCreates \/ UserEdits \/ UserDeletes
    BY <1>0, <2>5, UserWrites, OthersKeepCopies
  <2>6. CASE \E d \in Deps : OthersTouch(d) \/ OthersDelete(d) \/ OthersCreate(d)
    BY <1>0, <2>6, OthersWrite, OthersKeepCopies, Zenon
  <2>7. CASE Crash
    BY <2>7 DEF Crash, Idle, CopiesAgree
  <2>8. CASE UNCHANGED vars
    BY <1>0, <2>8 DEF vars, CopiesAgree, SameSpec, Edited
  <2>9. ASSUME NEW d \in Deps, DeliverNotice(d)
        PROVE  CopiesAgree'
    BY <1>0, <2>9 DEF DeliverNotice, CopiesAgree, SameSpec, Edited
  <2> QED BY <2>1, <2>2, <2>3, <2>4, <2>5, <2>6, <2>7, <2>8, <2>9 DEF Next, Environment
<1> QED BY <1>1, <1>2 DEF CopiesInv

LEMMA CopiesInit == Init => CopiesInv
BY InitTypes DEF Init, CopiesInv, CachesCatchUp, Feeds, CopiesAgree, Idle

\* Whatever a user does while a pass holds an older copy, no step of the
\* operator changes the spec but to add missing defaults, for every
\* schedule of edits, deletions, stale reads, conflicts and restarts.
THEOREM UserSpecIsPreserved == Spec => UserSpecPreserved
<1>1. CopiesInv /\ [Next]_vars => [UserSpecKept]_vars
  <2> SUFFICES ASSUME CopiesInv, Reconcile
               PROVE  UserSpecKept
    BY DEF UserSpecKept
  <2>0. TypeOK /\ CopiesAgree /\ primary \in Primaries
    BY DEF CopiesInv, TypeOK
  <2>1. PassWrites
    BY <2>0, ReconcileWrites
  <2>2. CASE UNCHANGED primary
    BY <2>2 DEF UserSpecKept
  <2>3. CASE worker.resFresh /\ StorePrimary([primary EXCEPT !.spec = worker.res.spec])
    <3>1. primary'.uid = primary.uid /\ primary'.spec = worker.res.spec
      BY <2>0, <2>3 DEF StorePrimary, Primaries
    <3>2. SameSpec(worker.res.spec)
      BY <2>0, <2>3 DEF CopiesAgree
    <3> QED BY <3>1, <3>2 DEF SameSpec, UserSpecKept
  <2>4. CASE StorePrimary([primary EXCEPT !.status = worker.res.status])
    BY <2>0, <2>4 DEF StorePrimary, Primaries, UserSpecKept
  <2> QED BY <2>1, <2>2, <2>3, <2>4 DEF PassWrites
<1> QED BY <1>1, CopiesInit, CopiesStep, PTL DEF Spec, UserSpecPreserved

\* The operator's writes to a dependent that exists change its content and
\* nothing else, and only if the configuration lets it, for every schedule.
THEOREM OnlyContentIsUpdated == Spec => OnlyContentUpdated
<1>1. CopiesInv /\ [Next]_vars => [ObjectsKept]_vars
  <2> SUFFICES ASSUME CopiesInv, Reconcile, NEW d \in Deps,
                      object[d].exists, object'[d] # object[d]
               PROVE  /\ Config[d].updated
                      /\ \E c \in Wants : object'[d] = [object[d] EXCEPT !.content = c]
    BY DEF ObjectsKept
  <2>0. TypeOK /\ CopiesAgree /\ object \in [Deps -> Objects] /\ worker.next \in Deps
    BY DEF CopiesInv, TypeOK, Workers, Deps
  <2>1. PassWrites
    BY <2>0, ReconcileWrites
  <2>2. \E o : /\ StoreObject(worker.next, o)
               /\ \/ ~object[worker.next].exists
                  \/ /\ worker.pc = "update" /\ worker.fetchedFresh
                     /\ o = worker.fetched
    BY <2>1, Zenon DEF PassWrites
  <2>3. /\ worker.next = d /\ worker.pc = "update" /\ worker.fetchedFresh
        /\ object'[d] = worker.fetched
    BY <2>0, <2>2 DEF StoreObject
  <2>4. Config[d].updated /\ Edited(worker.fetched, d)
    BY <2>0, <2>3 DEF CopiesAgree
  <2> QED BY <2>3, <2>4 DEF Edited
<1> QED BY <1>1, CopiesInit, CopiesStep, PTL DEF Spec, OnlyContentUpdated

=============================================================================
