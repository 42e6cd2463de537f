------------------------ MODULE ReconcilerRefinement ------------------------
(***************************************************************************)
(* Reconciler implements Realisation and blames a dependent in a status    *)
(* only for a reason, for every value of the constants.  Both rest on what *)
(* is known of every copy of the primary there is, on the server, on its   *)
(* way to the cache, in the cache and in the hands of the pass.            *)
(***************************************************************************)
EXTENDS ReconcilerProofs

\* The operator may have added the defaults, and nothing else.
Submitted(p) ==
    Exists(p) => \E s \in UserSpecs : s.valid = p.spec.valid /\ s.want = p.spec.want

\* A status names a dependent as failed after a call that failed, or one the
\* operator updates: waiting for it or a conflict is an error too.
Excused(status, faults) ==
    \A d \in Deps : status.message = DependentFailed(d) =>
        faults < MaxFaults \/ Config[d].updated

\* A status with a condition "Failed" has that reason.
Consistent(status) ==
    (\E d \in Deps : status.conditions[d] = "Failed") => status.reason = "Failed"

Sound(status, faults) == Excused(status, faults) /\ Consistent(status)

Honest(p, faults) == Submitted(p) /\ Sound(p.status, faults)

VersionsHonest ==
    /\ Honest(primary, left.faults)
    /\ Honest(cachedPrimary, left.faults)
    /\ \A i \in 1..Len(primaryEvents) : Honest(primaryEvents[i], left.faults)

Preparing == {"prepare", "defaults"}
Realising == {"watch", "dependent", "create", "update", "check"}

PassHonest ==
    /\ Sound(worker.res.status, left.faults)
    /\ worker.pc \in Preparing \cup Realising => Submitted(worker.res) /\ Exists(worker.res)
    /\ worker.pc \in Realising => worker.res.spec.valid
    /\ worker.pc = "create" => Config[worker.next].created

HonestInv == TypeOK /\ VersionsHonest /\ PassHonest

(***************************************************************************)
(* What the steps do to the faults that are left and to the versions.      *)
(***************************************************************************)
LEMMA FaultsAreSpent ==
    ASSUME TypeOK
    PROVE  /\ \A site : CanFail(site) /\ PayFault =>
                 left'.faults < MaxFaults /\ left'.faults <= left.faults
           /\ \A site, acceptable : \A o \in Outcomes(site, acceptable) :
                 Pay(acceptable, o) =>
                    /\ left'.faults <= left.faults
                    /\ acceptable /\ o.failed => left'.faults < MaxFaults
           /\ Disturb => left'.faults = left.faults
           /\ UserCreates => left'.faults = left.faults
<1>0. left \in Bounds
  BY DEF TypeOK
<1>1. ASSUME NEW site, CanFail(site), PayFault
      PROVE  left'.faults < MaxFaults /\ left'.faults <= left.faults
  BY <1>0, <1>1, BoundsAssumption DEF CanFail, PayFault, Bounds
<1>2. ASSUME NEW site, NEW acceptable, NEW o \in Outcomes(site, acceptable),
             Pay(acceptable, o)
      PROVE  /\ left'.faults <= left.faults
             /\ acceptable /\ o.failed => left'.faults < MaxFaults
  <2>1. CASE acceptable /\ o.failed
    <3>1. CanFail(site)
      BY <1>2, <2>1 DEF Outcomes
    <3> QED BY <1>1, <1>2, <2>1, <3>1 DEF Pay
  <2>2. CASE ~(acceptable /\ o.failed)
    <3>1. left' = left
      BY <1>2, <2>2 DEF Pay
    <3> QED BY <1>0, <2>2, <3>1, BoundsAssumption DEF Bounds
  <2> QED BY <2>1, <2>2
<1>3. Disturb => left'.faults = left.faults
  BY <1>0, BoundsAssumption DEF Disturb, Bounds
<1>4. UserCreates => left'.faults = left.faults
  BY <1>0, BoundsAssumption DEF UserCreates, Bounds
<1> QED BY <1>1, <1>2, <1>3, <1>4

\* A reason once given is one for ever.
LEMMA ExcuseLasts ==
    ASSUME TypeOK, TypeOK', left'.faults <= left.faults
    PROVE  \A s : Sound(s, left.faults) => Sound(s, left'.faults)
<1>1. left.faults \in Nat /\ left'.faults \in Nat /\ MaxFaults \in Nat
  BY BoundsAssumption DEF TypeOK, Bounds
<1> QED BY <1>1 DEF Sound, Excused

LEMMA NoDependentBlamed ==
    \A s, faults :
        s.message \in {NoError, FetchFailed, InvalidSpec} => Excused(s, faults)
<1>1. \A d : DependentFailed(d) \notin {NoError, FetchFailed, InvalidSpec}
  BY DEF DependentFailed, NoError, FetchFailed, InvalidSpec
<1> QED BY <1>1, Zenon DEF Excused

LEMMA EmptyIsSound == \A faults : Sound(EmptyStatus, faults)
<1>1. EmptyStatus.message = NoError
  BY DEF EmptyStatus
<1>2. Consistent(EmptyStatus)
  BY DEF EmptyStatus, Consistent
<1> QED BY <1>1, <1>2, NoDependentBlamed DEF Sound

\* What DefaultErrorHandler makes of a status depends on the error alone.
LEMMA HandledIsSound ==
    ASSUME NEW status \in Statuses, NEW e, NEW faults,
           \A s : s.message = e => Excused(s, faults)
    PROVE  Sound(DefaultErrorHandler(status, e).status, faults)
<1> DEFINE s == DefaultErrorHandler(status, e).status
<1>1. s.message = e /\ s.reason = "Failed"
  BY DEF DefaultErrorHandler, Statuses
<1> QED BY <1>1 DEF Sound, Consistent

\* Nor does a condition spoil a status, whether it is news or not.
LEMMA ConditionIsSound ==
    ASSUME NEW status, NEW faults, Sound(status, faults), NEW d, NEW c
    PROVE  Sound(WithCondition(status, d, c), faults)
<1> DEFINE recorded == [status.conditions EXCEPT ![d] = c]
           new == [reason |-> AggregateReason(recorded), message |-> NoError,
                   conditions |-> recorded]
<1>1. WithCondition(status, d, c) \in {status, new}
  BY DEF WithCondition
<1>2. Sound(new, faults)
  <2>1. Consistent(new)
    BY DEF Consistent, AggregateReason
  <2> QED BY <2>1, NoDependentBlamed DEF Sound
<1> QED BY <1>1, <1>2

LEMMA OneDependentBlamed ==
    ASSUME NEW d \in Deps, NEW faults, faults < MaxFaults \/ Config[d].updated
    PROVE  \A s : s.message = DependentFailed(d) => Excused(s, faults)
<1>1. \A e : DependentFailed(e) = DependentFailed(d) => e = d
  BY DEF DependentFailed
<1> QED BY <1>1 DEF Excused

LEMMA VersionsStayHonest ==
    ASSUME TypeOK, TypeOK', VersionsHonest, left'.faults <= left.faults, UNCHANGED cachedPrimary
    PROVE  /\ UNCHANGED <<primary, primaryEvents>> => VersionsHonest'
           /\ \A p \in Primaries : Honest(p, left'.faults) /\ StorePrimary(p) => VersionsHonest'
<1>1. \A p : Honest(p, left.faults) => Honest(p, left'.faults)
  BY ExcuseLasts DEF Honest
<1>2. ASSUME NEW p \in Primaries, Honest(p, left'.faults), StorePrimary(p)
      PROVE  VersionsHonest'
  <2>1. /\ primary' = p /\ primaryEvents' = Append(primaryEvents, p)
        /\ primaryEvents \in Seq(Primaries)
    BY <1>2 DEF StorePrimary, TypeOK
  <2>2. \A i \in 1..Len(primaryEvents') :
           \/ primaryEvents'[i] = p
           \/ i \in 1..Len(primaryEvents) /\ primaryEvents'[i] = primaryEvents[i]
    BY <2>1, AppendProperties
  <2>3. \A i \in 1..Len(primaryEvents') : Honest(primaryEvents'[i], left'.faults)
    BY <1>1, <1>2, <2>2 DEF VersionsHonest
  <2> QED BY <1>1, <1>2, <2>1, <2>3 DEF VersionsHonest
<1> QED BY <1>1, <1>2 DEF VersionsHonest

(***************************************************************************)
(* The pass.                                                               *)
(***************************************************************************)
LEMMA PassStaysHonest ==
    ASSUME TypeOK, TypeOK', PassHonest, left'.faults <= left.faults
    PROVE  /\ worker' = Idle => PassHonest'
           /\ /\ worker'.pc \in {"fetch", "delete", "status"}
              /\ Sound(worker'.res.status, left'.faults)
              => PassHonest'
           /\ /\ worker.pc \in Realising
              /\ worker'.pc \in Realising \ {"create"}
              /\ worker'.res = worker.res
              => PassHonest'
<1>1. Sound(worker.res.status, left'.faults)
  BY ExcuseLasts DEF PassHonest
<1>2. ASSUME worker' = Idle
      PROVE  PassHonest'
  <2>1. worker'.res.status = EmptyStatus /\ worker'.pc = "idle"
    BY <1>2 DEF Idle, NoPrimary
  <2> QED BY <2>1, EmptyIsSound DEF PassHonest, Preparing, Realising
<1>3. ASSUME worker'.pc \in {"fetch", "delete", "status"},
             Sound(worker'.res.status, left'.faults)
      PROVE  PassHonest'
  BY <1>3 DEF PassHonest, Preparing, Realising
<1>4. ASSUME worker.pc \in Realising, worker'.pc \in Realising \ {"create"},
             worker'.res = worker.res
      PROVE  PassHonest'
  BY <1>1, <1>4 DEF PassHonest, Submitted, Exists
<1> QED BY <1>2, <1>3, <1>4

\* A pass that stops on an error reports that one.
LEMMA ErrorReported ==
    ASSUME TypeOK, TypeOK', PassHonest, left'.faults <= left.faults,
           NEW e, NEW requeues, ReportError(e, requeues),
           \A s : s.message = e => Excused(s, left'.faults)
    PROVE  PassHonest'
<1> DEFINE s == DefaultErrorHandler(worker.res.status, e).status
<1>0. worker \in Workers /\ worker.res \in Primaries /\ worker.res.status \in Statuses
  BY DEF TypeOK, Workers, Primaries
<1>1. Sound(s, left'.faults)
  BY <1>0, HandledIsSound
<1>2. \/ worker' = Idle
      \/ worker' = [worker EXCEPT !.pc = "status", !.err = e, !.res.status = s]
  BY Zenon DEF ReportError, EndPass
<1> HIDE DEF s
<1>3. CASE worker' = [worker EXCEPT !.pc = "status", !.err = e, !.res.status = s]
  <2>1. worker'.pc = "status" /\ worker'.res.status = s
    BY <1>0, <1>3, Zenon DEF Workers, Primaries
  <2> QED BY <1>1, <2>1, PassStaysHonest
<1> QED BY <1>2, <1>3, PassStaysHonest

LEMMA DependentReported ==
    ASSUME TypeOK, TypeOK', PassHonest, left'.faults <= left.faults, DependentError,
           left'.faults < MaxFaults \/ Config[worker.next].updated
    PROVE  PassHonest'
<1>1. worker.next \in Deps
  BY DEF TypeOK, Workers, Deps
<1>2. \A s : s.message = DependentFailed(worker.next) => Excused(s, left'.faults)
  BY <1>1, OneDependentBlamed
<1> QED BY <1>2, ErrorReported DEF DependentError

LEMMA FaultsNeverReturn ==
    ASSUME TypeOK, [Next]_vars
    PROVE  left'.faults <= left.faults
<1>0. left.faults \in Nat
  BY DEF TypeOK, Bounds
<1>1. UNCHANGED left => left'.faults <= left.faults
  BY <1>0
<1>2. ASSUME NEW site, CanFail(site), PayFault
      PROVE  left'.faults <= left.faults
  BY <1>2, FaultsAreSpent
<1>3. ASSUME NEW site, NEW acceptable, NEW o \in Outcomes(site, acceptable), Pay(acceptable, o)
      PROVE  left'.faults <= left.faults
  BY <1>3, FaultsAreSpent
<1>4. CASE Reconcile
  <2>1. CASE \/ Dequeue \/ FetchPrimary \/ FetchPrimaryNotFound \/ ProvideDefaultValues
             \/ CheckValidityFails \/ AllWatched \/ CreateOrUpdateExits \/ CreateDependentExists
    BY <1>1, <2>1 DEF Dequeue, FetchPrimary, FetchPrimaryNotFound, ProvideDefaultValues,
       CheckValidityFails, AllWatched, CreateOrUpdateExits, CreateDependentExists
  <2>2. CASE \/ FetchPrimaryFails \/ Delete \/ InitDependentResources \/ RegisterWatch
             \/ FetchDependent \/ BuildFails \/ CheckDependent
    BY <1>1, <1>2, <2>2, Zenon DEF FetchPrimaryFails, Delete, InitDependentResources,
       RegisterWatch, FetchDependent, BuildFails, CheckDependent
  <2>3. CASE StoreDefaults \/ CreateDependent \/ UpdateDependent \/ WriteStatus
    BY <1>3, <2>3, Zenon DEF StoreDefaults, CreateDependent, UpdateDependent, WriteStatus
  <2> QED BY <1>4, <2>1, <2>2, <2>3 DEF Reconcile
<1>5. CASE \/ DeliverPrimary
           \/ \E d \in Deps : DeliverObject(d) \/ DeliverNotice(d) \/ GarbageCollect(d)
  BY <1>1, <1>5, Zenon DEF DeliverPrimary, DeliverObject, DeliverNotice, GarbageCollect
<1>6. CASE Environment
  <2>1. Disturb \/ UserCreates
    BY <1>6, Zenon DEF Environment, UserEdits, UserDeletes, Crash, OthersTouch, OthersDelete,
       OthersCreate
  <2> QED BY <1>0, <2>1, FaultsAreSpent
<1>7. CASE UNCHANGED vars
  BY <1>1, <1>7 DEF vars
<1> QED BY <1>4, <1>5, <1>6, <1>7 DEF Next

LEMMA PreparationStaysHonest ==
    ASSUME TypeOK, TypeOK', VersionsHonest, PassHonest, left'.faults <= left.faults,
           \/ Dequeue \/ FetchPrimary \/ FetchPrimaryNotFound \/ FetchPrimaryFails
           \/ Delete \/ ProvideDefaultValues \/ StoreDefaults \/ CheckValidityFails
           \/ InitDependentResources \/ RegisterWatch \/ AllWatched
    PROVE  PassHonest'
<1>0. /\ worker \in Workers /\ worker.res \in Primaries /\ worker.res.spec \in Specs
      /\ worker.res.status \in Statuses
      /\ Sound(worker.res.status, left'.faults)
  BY ExcuseLasts DEF TypeOK, Workers, Primaries, PassHonest
<1>1. CASE Dequeue
  <2>1. worker'.pc = "fetch" /\ worker'.res = worker.res
    BY <1>0, <1>1, Zenon DEF Dequeue, Workers
  <2> QED BY <1>0, <2>1, PassStaysHonest
<1>2. CASE FetchPrimary
  <2>1. worker'.pc = "prepare" /\ worker'.res = cachedPrimary
    BY <1>0, <1>2, Zenon DEF FetchPrimary, Workers
  <2>2. /\ Submitted(cachedPrimary) /\ Exists(cachedPrimary)
        /\ Sound(cachedPrimary.status, left'.faults)
    BY <1>2, ExcuseLasts DEF FetchPrimary, VersionsHonest, Honest
  <2> QED BY <2>1, <2>2 DEF PassHonest, Preparing, Realising, Submitted, Exists
<1>3. CASE FetchPrimaryNotFound
  <2>1. worker'.pc = "delete" /\ worker'.res = worker.res
    BY <1>0, <1>3, Zenon DEF FetchPrimaryNotFound, Workers
  <2> QED BY <1>0, <2>1, PassStaysHonest
<1>4. CASE FetchPrimaryFails
  <2> DEFINE s == DefaultErrorHandler(worker.res.status, FetchFailed).status
  <2>1. Sound(s, left'.faults)
    BY <1>0, NoDependentBlamed, HandledIsSound
  <2>2. worker' = [worker EXCEPT !.pc = "status", !.err = FetchFailed, !.res.status = s]
    BY <1>4, Zenon DEF FetchPrimaryFails
  <2> HIDE DEF s
  <2>3. worker'.pc = "status" /\ worker'.res.status = s
    BY <1>0, <2>2, Zenon DEF Workers, Primaries
  <2> QED BY <2>1, <2>3, PassStaysHonest
<1>5. CASE Delete \/ StoreDefaults
  BY <1>5, PassStaysHonest DEF Delete, StoreDefaults, EndPass
<1>6. CASE ProvideDefaultValues
  <2> DEFINE spec == [worker.res.spec EXCEPT !.defaulted = TRUE]
             res == [worker.res EXCEPT !.spec = spec]
  <2>1. worker' = [worker EXCEPT !.pc = "defaults", !.res = res]
    BY <1>0, <1>6, Zenon DEF ProvideDefaultValues, Workers, Primaries, Specs
  <2>2. /\ res.uid = worker.res.uid /\ res.status = worker.res.status
        /\ res.spec = spec
        /\ spec.valid = worker.res.spec.valid /\ spec.want = worker.res.spec.want
    BY <1>0 DEF Primaries, Specs
  <2> HIDE DEF res, spec
  <2>3. worker'.pc = "defaults" /\ worker'.res = res
    BY <1>0, <2>1, Zenon DEF Workers
  <2>4. Submitted(worker.res) /\ Exists(worker.res)
    BY <1>6 DEF ProvideDefaultValues, PassHonest, Preparing, Realising
  <2> QED BY <1>0, <2>2, <2>3, <2>4 DEF PassHonest, Preparing, Realising, Submitted, Exists
<1>7. CASE CheckValidityFails
  BY <1>7, NoDependentBlamed, ErrorReported DEF CheckValidityFails
<1>8. CASE InitDependentResources
  <2>1. CASE worker' = [worker EXCEPT !.pc = "watch"]
    <3>1. worker'.pc = "watch" /\ worker'.res = worker.res
      BY <1>0, <2>1, Zenon DEF Workers
    <3>2. /\ Submitted(worker.res) /\ Exists(worker.res) /\ worker.res.spec.valid
      BY <1>8 DEF InitDependentResources, PassHonest, Preparing, Realising
    <3> QED BY <1>0, <3>1, <3>2 DEF PassHonest, Preparing, Realising, Submitted, Exists
  <2> QED BY <1>8, <2>1, PassStaysHonest DEF InitDependentResources, EndPass
<1>9. CASE RegisterWatch
  BY <1>9, PassStaysHonest DEF RegisterWatch, EndPass, Realising
<1>10. CASE AllWatched
  <2>1. worker'.pc = "dependent" /\ worker'.res = worker.res /\ worker.pc = "watch"
    BY <1>0, <1>10, Zenon DEF AllWatched, Workers
  <2> QED BY <2>1, PassStaysHonest DEF Realising
<1> QED BY <1>1, <1>2, <1>3, <1>4, <1>5, <1>6, <1>7, <1>8, <1>9, <1>10

LEMMA LoopStaysHonest ==
    ASSUME TypeOK, TypeOK', CopiesAgree, PassHonest, left'.faults <= left.faults,
           \/ CreateOrUpdateExits \/ FetchDependent \/ BuildFails
           \/ CreateDependentExists \/ CreateDependent \/ UpdateDependent
    PROVE  PassHonest'
<1>0. worker \in Workers /\ worker.next \in Deps
  BY DEF TypeOK, Workers, Deps
<1>1. ASSUME worker' = NextDependent(worker), worker.pc \in Realising
      PROVE  PassHonest'
  <2>1. worker'.pc \in {"dependent", "check"} /\ worker'.res = worker.res
    BY <1>1, NextDependentPosition
  <2> QED BY <1>1, <2>1, PassStaysHonest DEF Realising
<1>2. CASE CreateOrUpdateExits \/ CreateDependentExists
  BY <1>1, <1>2 DEF CreateOrUpdateExits, CreateDependentExists, Turn, Realising
<1>3. CASE FetchDependent
  <2> DEFINE d == worker.next
             fetched == [cached[d] EXCEPT !.content = worker.res.spec.want]
             fresh == (objectEvents[d] = <<>>)
  <2>0. worker.pc = "dependent" /\ worker.pc \in Realising
    BY <1>3 DEF FetchDependent, Turn, Realising
  <2>1. CASE worker' = [worker EXCEPT !.pc = "update", !.fetched = fetched,
                                      !.fetchedFresh = fresh]
    <3> HIDE DEF fetched, fresh
    <3>1. worker'.pc = "update" /\ worker'.res = worker.res
      BY <1>0, <2>1, Zenon DEF Workers
    <3> QED BY <2>0, <3>1, PassStaysHonest DEF Realising
  <2>2. CASE worker' = NextDependent(worker)
    BY <1>1, <2>0, <2>2
  <2>3. CASE worker' = [worker EXCEPT !.pc = "create"] /\ Config[d].created
    <3>1. worker'.pc = "create" /\ worker'.res = worker.res /\ worker'.next = d
      BY <1>0, <2>3, Zenon DEF Workers
    <3>2. Sound(worker.res.status, left'.faults)
      BY ExcuseLasts DEF PassHonest
    <3> QED BY <2>0, <2>3, <3>1, <3>2 DEF PassHonest, Realising, Submitted, Exists
  <2>4. CASE DependentError /\ Config[d].updated
    BY <2>4, DependentReported
  <2>5. CASE DependentError /\ CanFail("get") /\ PayFault
    BY <2>5, FaultsAreSpent, DependentReported
  <2> QED BY <1>3, <2>1, <2>2, <2>3, <2>4, <2>5, Zenon DEF FetchDependent
<1>4. CASE BuildFails
  BY <1>4, FaultsAreSpent, DependentReported DEF BuildFails
<1>5. CASE CreateDependent
  <2>1. PICK o \in Outcomes("create", TRUE) :
          /\ Pay(TRUE, o)
          /\ IF o.failed THEN DependentError
             ELSE worker' = NextDependent(worker) /\ UNCHANGED queued
    BY <1>5, Zenon DEF CreateDependent
  <2>2. worker.pc \in Realising
    BY <1>5 DEF CreateDependent, Turn, Realising
  <2>3. o.failed => left'.faults < MaxFaults
    BY <2>1, FaultsAreSpent
  <2> QED BY <1>1, <2>1, <2>2, <2>3, DependentReported
<1>6. CASE UpdateDependent
  <2>1. DependentError \/ worker' = NextDependent(worker)
    BY <1>6, Zenon DEF UpdateDependent
  <2>2. worker.pc \in Realising /\ Config[worker.next].updated
    BY <1>6 DEF UpdateDependent, Turn, Realising, CopiesAgree
  <2> QED BY <1>1, <2>1, <2>2, DependentReported
<1> QED BY <1>2, <1>3, <1>4, <1>5, <1>6

LEMMA StatusStaysHonest ==
    ASSUME TypeOK, TypeOK', PassHonest, left'.faults <= left.faults,
           CheckDependent \/ WriteStatus
    PROVE  PassHonest'
<1>0. /\ worker \in Workers /\ worker.res \in Primaries
      /\ Sound(worker.res.status, left'.faults)
  BY ExcuseLasts DEF TypeOK, Workers, PassHonest
<1>1. CASE CheckDependent
  <2> DEFINE sofar == [updated |-> worker.changed, status |-> worker.res.status]
  <2>1. PICK t : AfterCheck(t) /\ \/ t = sofar
                                  \/ \E c : t = SetCondition(sofar.status, worker.next, c)
    BY <1>1, Zenon DEF CheckDependent, ComputeStatusTurn
  <2>2. Sound(t.status, left'.faults)
    <3>1. CASE t = sofar
      BY <1>0, <3>1
    <3>2. CASE \E c : t = SetCondition(sofar.status, worker.next, c)
      BY <1>0, <3>2, ConditionIsSound DEF SetCondition
    <3> QED BY <2>1, <3>1, <3>2
  <2>3. worker.pc = "check"
    BY <1>1 DEF CheckDependent, Turn
  <2> DEFINE res == [worker.res EXCEPT !.status = t.status]
             v == [worker EXCEPT !.res = res, !.changed = t.updated]
  <2>4. \/ worker' = [v EXCEPT !.next = @ + 1]
        \/ worker' = [v EXCEPT !.pc = "status"]
        \/ worker' = Idle
    BY <1>0, <2>1, Zenon DEF AfterCheck, EndPass, Workers, Primaries
  <2>5. res.status = t.status /\ res.uid = worker.res.uid /\ res.spec = worker.res.spec
    BY <1>0 DEF Primaries
  <2> HIDE DEF res
  <2>6. /\ v.pc = "check" /\ v.res = res
        /\ v \in [DOMAIN worker -> {v[f] : f \in DOMAIN worker}]
    BY <1>0, <2>3, Zenon DEF Workers
  <2> HIDE DEF v
  <2>7. CASE worker' = [v EXCEPT !.next = @ + 1]
    <3>1. worker'.pc = "check" /\ worker'.res = res
      BY <1>0, <2>6, <2>7, Zenon DEF Workers
    <3> QED BY <2>2, <2>3, <2>5, <3>1 DEF PassHonest, Realising, Submitted, Exists
  <2>8. CASE worker' = [v EXCEPT !.pc = "status"]
    <3>1. worker'.pc = "status" /\ worker'.res = res
      BY <1>0, <2>6, <2>8, Zenon DEF Workers
    <3> QED BY <2>2, <2>5, <3>1, PassStaysHonest
  <2> QED BY <2>4, <2>7, <2>8, PassStaysHonest
<1>2. CASE WriteStatus
  <2>1. worker' = Idle
    BY <1>2, Zenon DEF WriteStatus, EndPass
  <2> QED BY <2>1, PassStaysHonest
<1> QED BY <1>1, <1>2

(***************************************************************************)
(* The environment, and the versions of the primary the pass writes.       *)
(***************************************************************************)
LEMMA UserWritesAreHonest ==
    ASSUME TypeOK, TypeOK', VersionsHonest, PassHonest, left'.faults <= left.faults,
           UserCreates \/ UserEdits \/ UserDeletes
    PROVE  VersionsHonest' /\ PassHonest'
<1>0. worker \in Workers /\ primary \in Primaries
  BY DEF TypeOK
<1>1. PICK p : PrimaryChanges(p) /\ Honest(p, left'.faults)
  <2>1. CASE UserCreates
    <3>1. \A n, s : s \in UserSpecs =>
            Honest([uid |-> n, spec |-> s, status |-> EmptyStatus], left'.faults)
      BY EmptyIsSound DEF Honest, Submitted
    <3> QED BY <2>1, <3>1, Zenon DEF UserCreates
  <2>2. CASE UserEdits
    <3>1. PICK s \in UserSpecs : PrimaryChanges([primary EXCEPT !.spec = s])
      BY <2>2, Zenon DEF UserEdits
    <3>2. /\ [primary EXCEPT !.spec = s].spec = s
          /\ [primary EXCEPT !.spec = s].status = primary.status
      BY <1>0 DEF Primaries
    <3>3. Sound(primary.status, left'.faults)
      BY ExcuseLasts DEF VersionsHonest, Honest
    <3>4. Honest([primary EXCEPT !.spec = s], left'.faults)
      BY <3>2, <3>3 DEF Honest, Submitted
    <3> QED BY <3>1, <3>4
  <2>3. CASE UserDeletes
    <3>1. Honest(NoPrimary, left'.faults)
      BY EmptyIsSound DEF Honest, Submitted, Exists, NoPrimary
    <3> QED BY <2>3, <3>1 DEF UserDeletes
  <2> QED BY <2>1, <2>2, <2>3
<1>2. VersionsHonest'
  <2>1. primary' = p /\ StorePrimary(p) /\ UNCHANGED cachedPrimary
    BY <1>1 DEF PrimaryChanges, StorePrimary, informer, objects
  <2>2. p \in Primaries
    BY <2>1 DEF TypeOK
  <2> QED BY <1>1, <2>1, <2>2, VersionsStayHonest
<1>3. PassHonest'
  <2>1. worker' = [worker EXCEPT !.resFresh = FALSE]
    BY <1>1 DEF PrimaryChanges
  <2>2. worker'.pc = worker.pc /\ worker'.res = worker.res /\ worker'.next = worker.next
    BY <1>0, <2>1, Zenon DEF Workers
  <2>3. Sound(worker.res.status, left'.faults)
    BY ExcuseLasts DEF PassHonest
  <2> QED BY <2>2, <2>3 DEF PassHonest, Submitted, Exists
<1> QED BY <1>2, <1>3

LEMMA OthersStayHonest ==
    ASSUME TypeOK, TypeOK', VersionsHonest, PassHonest, left'.faults <= left.faults,
           NEW d \in Deps, NEW o, ObjectChanges(d, o)
    PROVE  VersionsHonest' /\ PassHonest'
<1>1. /\ UNCHANGED <<primary, primaryEvents, cachedPrimary>>
      /\ worker' = [worker EXCEPT !.fetchedFresh = @ /\ worker.next # d]
  BY DEF ObjectChanges, informer, objects
<1>2. worker'.pc = worker.pc /\ worker'.res = worker.res /\ worker'.next = worker.next
  BY <1>1, Zenon DEF Workers, TypeOK
<1>3. Sound(worker.res.status, left'.faults)
  BY ExcuseLasts DEF PassHonest
<1> QED BY <1>1, <1>2, <1>3, VersionsStayHonest DEF PassHonest, Submitted, Exists

LEMMA PassWritesHonestly ==
    ASSUME TypeOK, TypeOK', VersionsHonest, PassHonest, left'.faults <= left.faults, Reconcile
    PROVE  VersionsHonest'
<1>0. /\ primary \in Primaries /\ worker.res \in Primaries
      /\ UNCHANGED cachedPrimary
  BY ReconcileWrites DEF TypeOK, Workers
<1>1. CASE UNCHANGED <<primary, primaryEvents>>
  BY <1>0, <1>1, VersionsStayHonest
<1>2. ASSUME NEW p \in Primaries, StorePrimary(p), Submitted(p),
             Sound(p.status, left.faults)
      PROVE  VersionsHonest'
  BY <1>0, <1>2, ExcuseLasts, VersionsStayHonest DEF Honest
<1>3. CASE StoreDefaults
  <2> DEFINE p == [primary EXCEPT !.spec = worker.res.spec]
  <2>1. \/ UNCHANGED <<primary, primaryEvents>>
        \/ StorePrimary(p)
    BY <1>3, Zenon DEF StoreDefaults, Preparing
  <2>2. p \in Primaries /\ p.status = primary.status /\ p.spec = worker.res.spec
    BY <1>0 DEF Primaries
  <2>3. Submitted(p)
    <3>1. Submitted(worker.res) /\ Exists(worker.res)
      BY <1>3 DEF StoreDefaults, PassHonest, Preparing
    <3> QED BY <2>2, <3>1 DEF Submitted
  <2> HIDE DEF p
  <2> QED BY <1>1, <1>2, <2>1, <2>2, <2>3 DEF VersionsHonest, Honest
<1>4. CASE WriteStatus
  <2> DEFINE p == [primary EXCEPT !.status = worker.res.status]
  <2>1. UNCHANGED <<primary, primaryEvents>> \/ StorePrimary(p)
    BY <1>4, Zenon DEF WriteStatus
  <2>2. /\ p \in Primaries /\ p.status = worker.res.status
        /\ p.spec = primary.spec /\ p.uid = primary.uid
    BY <1>0 DEF Primaries
  <2> HIDE DEF p
  <2>3. Submitted(p)
    BY <2>2 DEF VersionsHonest, Honest, Submitted, Exists
  <2> QED BY <1>1, <1>2, <2>1, <2>2, <2>3 DEF PassHonest
<1>5. CASE ~(StoreDefaults \/ WriteStatus)
  BY <1>1, <1>5 DEF Reconcile, Dequeue, FetchPrimary, FetchPrimaryNotFound,
     FetchPrimaryFails, Delete, ProvideDefaultValues, CheckValidityFails,
     InitDependentResources, RegisterWatch, AllWatched, CreateOrUpdateExits, FetchDependent,
     BuildFails, CreateDependentExists, CreateDependent, UpdateDependent, CheckDependent,
     cluster, objects
<1> QED BY <1>3, <1>4, <1>5

LEMMA HonestStep == HonestInv /\ CopiesAgree /\ [Next]_vars => HonestInv'
<1> SUFFICES ASSUME TypeOK, VersionsHonest, PassHonest, CopiesAgree, [Next]_vars
             PROVE  HonestInv'
  BY DEF HonestInv
<1>0. TypeOK' /\ left'.faults <= left.faults
  BY TypeStep, FaultsNeverReturn
<1>1. \A p : Honest(p, left.faults) => Honest(p, left'.faults)
  BY <1>0, ExcuseLasts DEF Honest
<1>2. Sound(worker.res.status, left'.faults)
  BY <1>0, ExcuseLasts DEF PassHonest
<1>3. UNCHANGED worker => PassHonest'
  BY <1>2 DEF PassHonest, Submitted, Exists
<1>4. VersionsHonest' /\ PassHonest'
  <2>1. CASE Reconcile
    BY <1>0, <2>1, PassWritesHonestly, PreparationStaysHonest, LoopStaysHonest,
       StatusStaysHonest DEF Reconcile
  <2>2. CASE DeliverPrimary
    <3>1. /\ Head(primaryEvents) = primaryEvents[1] /\ 1 \in 1..Len(primaryEvents)
          /\ \A i \in 1..Len(Tail(primaryEvents)) :
                /\ i + 1 \in 1..Len(primaryEvents)
                /\ Tail(primaryEvents)[i] = primaryEvents[i + 1]
      BY <2>2, HeadTailProperties DEF DeliverPrimary, TypeOK
    <3> QED BY <1>1, <1>3, <2>2, <3>1 DEF DeliverPrimary, VersionsHonest
  <2>3. ASSUME NEW d \in Deps, DeliverObject(d) \/ DeliverNotice(d)
        PROVE  VersionsHonest' /\ PassHonest'
    <3>1. UNCHANGED <<primary, primaryEvents, cachedPrimary, worker, left>>
      BY <2>3 DEF DeliverObject, DeliverNotice
    <3> QED BY <1>3, <3>1 DEF VersionsHonest
  <2>4. ASSUME NEW d \in Deps, GarbageCollect(d)
        PROVE  VersionsHonest' /\ PassHonest'
    BY <1>0, <2>4, OthersStayHonest DEF GarbageCollect
  <2>5. CASE UserCreates \/ UserEdits \/ UserDeletes
    BY <1>0, <2>5, UserWritesAreHonest
  <2>6. CASE \E d \in Deps : OthersTouch(d) \/ OthersDelete(d) \/ OthersCreate(d)
    BY <1>0, <2>6, OthersWrite, OthersStayHonest, Zenon
  <2>7. CASE Crash
    <3>1. PassHonest'
      BY <1>0, <2>7, PassStaysHonest DEF Crash
    <3>2. primaryEvents' = <<>> /\ primary' = primary /\ cachedPrimary' = primary
      BY <2>7 DEF Crash
    <3>3. Len(primaryEvents') = 0
      BY <3>2, EmptySeq, Zenon
    <3> QED BY <1>1, <3>1, <3>2, <3>3 DEF VersionsHonest
  <2>8. CASE UNCHANGED vars
    BY <2>8 DEF vars, VersionsHonest, PassHonest, Submitted, Exists
  <2> QED BY <2>1, <2>2, <2>3, <2>4, <2>5, <2>6, <2>7, <2>8 DEF Next, Environment
<1> QED BY <1>0, <1>4 DEF HonestInv

LEMMA HonestInit == Init => HonestInv
<1> SUFFICES ASSUME Init
             PROVE  VersionsHonest /\ PassHonest
  BY InitTypes DEF HonestInv
<1>1. Honest(NoPrimary, left.faults)
  BY EmptyIsSound DEF Honest, Submitted, Exists, NoPrimary
<1>2. Len(primaryEvents) = 0
  BY EmptySeq, Zenon DEF Init
<1>3. worker.pc = "idle" /\ worker.res = NoPrimary
  BY DEF Init, Idle
<1> QED BY <1>1, <1>2, <1>3 DEF Init, VersionsHonest, PassHonest, Honest, Preparing, Realising

\* A dependent is reported as failed only after a call that failed, unless
\* it is one the operator updates, for which a conflict or its absence is an
\* error: being behind never is, however far behind the caches are.
THEOREM NoFailureIsSpurious == Spec => []NoSpuriousFailure
<1>1. HonestInv => NoSpuriousFailure
  BY DEF HonestInv, VersionsHonest, Honest, Sound, Excused, NoSpuriousFailure
<1>2. CopiesInv => CopiesAgree
  BY DEF CopiesInv
<1> QED BY <1>1, <1>2, HonestInit, HonestStep, CopiesInit, CopiesStep, PTL DEF Spec

(***************************************************************************)
(* Reconciler implements Realisation: of the steps, only writes of the     *)
(* dependents are visible there.                                           *)
(***************************************************************************)
Held == [d \in Deps |-> IF object[d].exists THEN {object[d].content} ELSE {}]

\* A write of one dependent as Realisation sees it.
LEMMA StoreChangesHeld ==
    ASSUME TypeOK, KnownHasExisted, NEW d \in Deps, NEW o \in Objects, StoreObject(d, o)
    PROVE  /\ object[d].exists => Abstract!Change(d)
           /\ ~object[d].exists /\ o.exists => Abstract!Appear(d, o.content)
           /\ ~object[d].exists /\ ~o.exists => UNCHANGED <<Held, everExisted>>
<1> DEFINE h == IF o.exists THEN {o.content} ELSE {}
<1>1. /\ object \in [Deps -> Objects] /\ o.content \in Wants
      /\ object' = [object EXCEPT ![d] = o]
      /\ everExisted' = IF o.exists THEN everExisted \cup {d} ELSE everExisted
  BY DEF TypeOK, Objects, StoreObject
<1>2. Held' = [Held EXCEPT ![d] = h]
  BY <1>1 DEF Held
<1>3. Held[d] = IF object[d].exists THEN {object[d].content} ELSE {}
  BY DEF Held
<1>4. ASSUME object[d].exists
      PROVE  Abstract!Change(d)
  <2>1. d \in everExisted /\ everExisted' = everExisted
    BY <1>1, <1>4 DEF KnownHasExisted
  <2>2. h \in {{c} : c \in Wants} \cup {{}}
    BY <1>1
  <2>3. Held[d] # {}
    BY <1>3, <1>4
  <2> HIDE DEF h
  <2> QED BY <1>2, <2>1, <2>2, <2>3 DEF Abstract!Change, Held
<1>5. ASSUME ~object[d].exists, o.exists
      PROVE  Abstract!Appear(d, o.content)
  BY <1>1, <1>2, <1>3, <1>5 DEF Abstract!Appear, Held
<1>6. ASSUME ~object[d].exists, ~o.exists
      PROVE  UNCHANGED <<Held, everExisted>>
  <2>1. h = Held[d]
    BY <1>3, <1>6
  <2>2. Held' = Held
    BY <1>2, <2>1 DEF Held
  <2> QED BY <1>1, <1>6, <2>2
<1> QED BY <1>4, <1>5, <1>6

LEMMA CreationRealises ==
    ASSUME TypeOK, KnownHasExisted, LoopInOrder, PassHonest, CreateDependent
    PROVE  Abstract!Next \/ UNCHANGED <<Held, everExisted>>
<1> DEFINE d == worker.next
           o == BuiltObject(d)
<1>1. d \in Deps /\ o \in Objects /\ o.exists /\ o.content = worker.res.spec.want
  BY BuiltType DEF TypeOK, Workers, Deps, BuiltObject
<1>2. worker.pc = "create" /\ ~object[d].exists
  BY DEF CreateDependent, Turn
<1>3. StoreObject(d, o) \/ UNCHANGED <<object, everExisted>>
  BY Zenon DEF CreateDependent, objects
<1> HIDE DEF o
<1>4. CASE StoreObject(d, o)
  <2>0. PICK e \in Deps, c \in Wants : e = d /\ c = worker.res.spec.want
    BY <1>1 DEF Objects
  <2>1. Abstract!Appear(e, c)
    <3>1. PICK b \in Objects : b = o
      BY <1>1
    <3>2. StoreObject(e, b) /\ ~object[e].exists /\ b.exists /\ b.content = c
      BY <1>1, <1>2, <1>4, <2>0, <3>1
    <3> QED BY <3>2, StoreChangesHeld
  <2>2. PICK s \in UserSpecs : s.valid /\ s.want = c
    BY <1>2, <2>0 DEF PassHonest, Realising, Submitted
  <2>3. c \in {s1.want : s1 \in {s2 \in UserSpecs : s2.valid}}
    BY <2>2
  <2>4. e \in {f \in Deps : Config[f].created}
    BY <1>2, <2>0 DEF PassHonest
  <2> DEFINE needs == [g \in Deps |->
                {f \in Deps : f < g /\ (Config[f].created \/ Config[f].updated)}]
  <2>5. needs[e] \subseteq everExisted
    BY <1>2, <2>0 DEF LoopInOrder, AllBefore, Handled
  <2> HIDE DEF needs
  <2>6. Abstract!Realise(e)
    BY <2>1, <2>3, <2>4, <2>5, Zenon DEF Abstract!Realise, needs
  <2> QED BY <2>6 DEF Abstract!Next
<1>5. CASE UNCHANGED <<object, everExisted>>
  BY <1>5 DEF Held
<1> QED BY <1>3, <1>4, <1>5

LEMMA UpdateRealises ==
    ASSUME TypeOK, KnownHasExisted, CopiesAgree, UpdateDependent
    PROVE  Abstract!Next \/ UNCHANGED <<Held, everExisted>>
<1> DEFINE d == worker.next
<1>1. d \in Deps /\ worker.fetched \in Objects /\ object[d] \in Objects
  BY DEF TypeOK, Workers, Deps
<1>2. PICK o \in Outcomes("update", Accepted(worker.fetchedFresh)) :
         IF o.applied THEN StoreObject(d, worker.fetched)
         ELSE UNCHANGED <<object, everExisted>>
  BY Zenon DEF UpdateDependent, objects
<1>3. o.applied => worker.fetchedFresh
  BY DEF Outcomes, Accepted
<1>4. CASE o.applied
  <2>1. PICK c \in Wants : worker.fetched = [object[d] EXCEPT !.content = c]
    BY <1>3, <1>4 DEF UpdateDependent, Turn, CopiesAgree, Edited
  <2>2. worker.fetched.exists = object[d].exists
    BY <1>1, <2>1 DEF Objects
  <2> QED BY <1>1, <1>2, <1>4, <2>2, StoreChangesHeld DEF Abstract!Next
<1>5. CASE ~o.applied
  BY <1>2, <1>5 DEF Held
<1> QED BY <1>4, <1>5

LEMMA OthersRealise ==
    ASSUME TypeOK, KnownHasExisted, NEW d \in Deps, NEW o \in Objects, ObjectChanges(d, o),
           o.exists => object[d].exists \/ d \in Foreign
    PROVE  Abstract!Next \/ UNCHANGED <<Held, everExisted>>
<1>1. StoreObject(d, o) /\ o.content \in Wants
  BY DEF ObjectChanges, Objects
<1>2. CASE ~object[d].exists /\ o.exists
  BY <1>1, <1>2, StoreChangesHeld DEF Abstract!OthersCreate, Abstract!Next
<1> QED BY <1>1, <1>2, StoreChangesHeld DEF Abstract!Next

\* Whatever fails, is stale, is edited meanwhile or restarts: a dependent
\* comes into being only if the operator may create it, after those added
\* before it have existed and with what a valid spec asks for, or by the
\* hand of others who may create it.
THEOREM RealisesDependents == Spec => RealisationSpec
<1> DEFINE Inv == OrderInv /\ CopiesInv /\ HonestInv
<1>1. Init => Abstract!Init
  <2> SUFFICES ASSUME Init
               PROVE  Abstract!Init
    OBVIOUS
  <2>1. Held = [d \in Deps |-> {}]
    BY DEF Init, Held, NoObject
  <2> QED BY <2>1 DEF Init, Abstract!Init, Held
<1>2. ASSUME Inv, [Next]_vars
      PROVE  Abstract!Next \/ UNCHANGED <<Held, everExisted>>
  <2>0. TypeOK /\ KnownHasExisted /\ LoopInOrder /\ CopiesAgree /\ PassHonest
    BY <1>2 DEF OrderInv, CopiesInv, HonestInv
  <2>1. UNCHANGED <<object, everExisted>> => UNCHANGED <<Held, everExisted>>
    BY DEF Held
  <2>2. CASE CreateDependent
    BY <2>0, <2>2, CreationRealises
  <2>3. CASE UpdateDependent
    BY <2>0, <2>3, UpdateRealises
  <2>4. CASE Reconcile /\ ~CreateDependent /\ ~UpdateDependent
    BY <2>1, <2>4 DEF Reconcile, Dequeue, FetchPrimary, FetchPrimaryNotFound,
       FetchPrimaryFails, Delete, ProvideDefaultValues, StoreDefaults, CheckValidityFails,
       InitDependentResources, RegisterWatch, AllWatched, CreateOrUpdateExits,
       FetchDependent, BuildFails, CreateDependentExists, CheckDependent, WriteStatus,
       cluster, objects
  <2>5. CASE DeliverPrimary \/ UserCreates \/ UserEdits \/ UserDeletes \/ Crash
    BY <2>1, <2>5 DEF DeliverPrimary, UserCreates, UserEdits, UserDeletes, PrimaryChanges,
       Crash, objects
  <2>6. ASSUME NEW d \in Deps, DeliverObject(d) \/ DeliverNotice(d)
        PROVE  Abstract!Next \/ UNCHANGED <<Held, everExisted>>
    BY <2>1, <2>6 DEF DeliverObject, DeliverNotice
  <2>7. ASSUME NEW d \in Deps, GarbageCollect(d)
        PROVE  Abstract!Next \/ UNCHANGED <<Held, everExisted>>
    <3>1. NoObject \in Objects /\ ~NoObject.exists
      BY RecordTypes DEF NoObject
    <3> QED BY <2>0, <2>7, <3>1, OthersRealise DEF GarbageCollect
  <2>8. CASE \E d \in Deps : OthersTouch(d) \/ OthersDelete(d) \/ OthersCreate(d)
    BY <2>0, <2>8, OthersWrite, OthersRealise, Zenon
  <2>9. CASE UNCHANGED vars
    BY <2>1, <2>9 DEF vars
  <2> QED BY <1>2, <2>2, <2>3, <2>4, <2>5, <2>6, <2>7, <2>8, <2>9 DEF Next, Environment
<1>3. Inv /\ [Next]_vars => [Abstract!Next]_<<Held, everExisted>>
  BY <1>2
<1>4. Spec => []Inv
  <2>1. Init => Inv
    BY OrderInit, CopiesInit, HonestInit
  <2>2. Inv /\ [Next]_vars => Inv'
    BY OrderStep, CopiesStep, HonestStep DEF CopiesInv
  <2> QED BY <2>1, <2>2, PTL DEF Spec
<1> QED BY <1>1, <1>3, <1>4, PTL DEF Spec, RealisationSpec, Abstract!Spec, Held
=============================================================================
