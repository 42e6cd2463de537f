# Verification of the Halkyon operator framework

TLA+ models of the operator framework in `src/`, TLC configurations that check
them on small instances, and TLAPS proofs of their most important properties
for every value of the constants.

1. [The system](#1-the-system)
2. [The models and the code](#2-the-models-and-the-code)
3. [The runs](#3-the-runs)
4. [Fairness](#4-fairness)
5. [The proofs](#5-the-proofs)
6. [Where code and comments disagree](#6-where-code-and-comments-disagree)
7. [What is not modelled](#7-what-is-not-modelled)
8. [The plan](#8-the-plan)

To check a run: `tlc -config <run>.cfg <module>` (the table of section 3 names
the module). To check the proofs: `tlapm ReconcilerProofs.tla`, and the same for
`ReconcilerRest` and the other modules whose names end in `Proofs` or `Refinement`.

## 1. The system

An embedding operator defines *primary* resources (custom resources such as a
Halkyon component) and hands each to the framework. For every primary the
framework keeps a list of *dependents* (a secret, a role, a deployment, another
primary), brings them to what the primary's spec asks for and aggregates their
conditions into the primary's status. What a "capability" primary depends on is
not compiled in: *capability plugins*, separate processes, provide it.

### Components

| Component | Source | State | Operations |
|---|---|---|---|
| Generic reconciler | `generic.go` | the map `watched` and its mutex, shared by all controllers; the map of callbacks; one worker per controller | `RegisterNewReconciler`, `Reconcile`, `UpdateStatusIfNeeded`, the callback that starts watches |
| Dependent resources | `dependent.go`, `basedependent.go`, `config.go` | the configuration of a dependent: watched, owned, created, updated, checked | `CreateOrUpdate`, `Fetch`, `Build`, `Update`, `GetCondition` |
| Base resource | `baseresource.go`, `resource.go` | the ordered list of dependents; the status of the instance | `CreateOrUpdateDependents`, `ComputeStatus`, `DefaultErrorHandler`, look-ups |
| Secret, Role, RoleBinding | `secret.go`, `role.go`, `rolebinding.go` | none of their own; primaries may share the objects | `Build` and `Update` of one kind |
| Kubernetes helper | `k8shelper.go`, `env.go` | the client, the scheme, whether this is OpenShift | `InitHelper`, `Fetch` |
| Predicates, utilities | `predicates.go`, `util/` | none | pure helpers |
| Capability plugin registry | `plugins/capability/registry.go`, `client.go` | the map `plugins` from category and type to plugin; the CapabilityInfo objects on the cluster | `NewPlugin`, `register`, `GetPluginFor`, `PurgeCapabilityInfos` |
| Capability plugin protocol | `plugins/capability/client.go`, `server.go`, `dependent.go` | cached category, types and names; the connection to the process | one RPC per method of a dependent |
| Plugin resources | `plugins/capability/resource.go` | the plugin resources of a category | dispatch on the type of the owner |
| Plugin processes | `plugins/` | the process | launch and handshake, by go-plugin |

### How they interact

- The **work queue** of a controller hands a request (the name of a primary) to
  `Reconcile`, one at a time; a returned error or `Requeue` puts it back.
- `Reconcile` reads through **informer caches**, which follow the API server at
  their own pace, and writes to the **API server**, which refuses a write that
  carries an old `resourceVersion`.
- Every write comes back as an **event**: of the primary, to the controller that
  registered for it; of a dependent, only if its kind is watched, and then to the
  owner named by its controller reference. The primary is watched and read by one
  type and so through one informer. A dependent is watched as an `Unstructured`
  object (`generic.go:198`, `229`) and read as a typed one (`basedependent.go:37`):
  controller-runtime keeps an informer for each form, and nothing orders the two.
- Controllers share one **watch registry** in memory.
- **Users** and **other controllers** edit, create and delete the same objects;
  the **garbage collector** deletes dependents whose owner is gone.
- A **capability** has no dependents of its own: its `InitDependentResources`
  asks `GetPluginFor` for a plugin and takes what `ReadyFor` returns. Each of these
  dependents is a stub. Its name, its configuration, what to build, whether to update
  and its condition are each a call to the plugin's **process**, which finds
  the real dependent from the capability in the request and the kind the request names.
- **Roles and role bindings** are found by names the primaries choose, so that
  primaries of several controllers can write one object.
- The **registry of plugins** is filled when the operator starts. CapabilityInfo
  objects advertise on the cluster what it holds and survive the operator.

### What is hard, and what correctness means

Nothing in the code holds a lock across a call. A pass of `Reconcile` is a
dozen calls, and between any two of them an event can arrive, a user can edit,
another controller can write, the garbage collector can delete and the
operator can die. Every read may be stale, every write can be refused, and a
write can take effect and still report an error. The operator's only memory of
undone work is the queue. `PROJECT.json` lists the hazards at their lines;
they ask for these properties:

- **Reconciler, safety**: dependents come into being in their order, whatever
  failed (`CreationOrder`); a stale cache alone never makes a pass fail
  (`NoSpuriousFailure`); no pass overwrites a user's edit (`UserSpecPreserved`)
  or what others wrote on a dependent (`OnlyContentUpdated`).
- **Reconciler, rest**: the operator never comes to rest with a wake-up lost
  (`NoLostWakeup`), a failure not retried (`FailuresAreRetried`) or a failure
  reported that is over (`FailureIsForgotten`).
- **Reconciler, liveness**: once others are done the cluster comes to what the
  spec asks for and the status says so (`EventuallyConverges`); a primary that
  is gone leaves nothing behind (`NothingLeftBehind`).
- **Watch registry**: unlocked between check and record, it must neither start a
  watch twice (`WatchedOnce`) nor claim one that failed (`PassedIsWatched`).
- **Plugin protocol**: whichever calls are lost and answered with zero values,
  dependents come into being as compiled-in ones do (`RealisationSpec`), every one
  of them is attended to (`DoneMeansProcessed`), no request makes the plugin panic
  (`ServerNeverPanics`), and the capability is realised in the end
  (`EventuallyRealised`).
- **Shared role bindings**: no primary's account is lost by another's write
  (`SubjectsKept`), every account ends up bound (`EventuallyBound`) and nothing
  outlives the primaries (`NothingLeftBehind`).
- **Plugin registry**: what is served is advertised (`Advertised`), what is
  installed is served (`OfferedIsProvided`), a purge removes what nothing serves
  (`PurgeIsThorough`) and nothing else (`PurgeRemovesUnserved`, which the code
  does not keep), and look-up behaves as a write-once directory (`DirectorySpec`).

## 2. The models and the code

| Module | Models | Role |
|---|---|---|
| `Dependents` | `config.go`, `basedependent.go`, `baseresource.go` | configurations, conditions, the computation of a status: pure operators |
| `Reconciler` | `generic.go`, `dependent.go`, `baseresource.go` | one primary, its worker, queue, caches, API server and environment |
| `Watches` | `generic.go:171-205` | the watch registry under several controllers |
| `CapabilityRegistry` | `registry.go`, the registration in `client.go` | loading, registering and purging plugins |
| `Realisation` | what processing dependents in order promises | abstract specification, implemented by `Reconciler` and `PluginDependents` |
| `PluginResources` | `resource.go`, the answers of `server.go` | the server's side of a plugin: pure operators |
| `PluginDependents` | `client.go`, `plugins/capability/dependent.go`, `dependent.go` | the passes over a capability whose dependents a plugin provides |
| `SharedBinding` | `role.go`, `rolebinding.go`, `dependent.go` | several controllers that share a role and a role binding |
| `PluginDirectory` | what `GetPluginFor` promises | abstract specification |
| `MC...` | | instances for TLC |
| `...Proofs`, `...Refinement`, `ReconcilerRest` | | theorems |

`PROJECT.json` maps every definition to the lines it stands for.

### Reconciler

One primary is modelled. A pass works on a `NewEmpty()` instance and keeps
nothing but the watch registry, so requests for different primaries of one kind
meet only in the queue, and the controller runs one worker
(`MaxConcurrentReconciles` is left at its default).

State:

- `primary`, `object` are what the API server holds. `object[d].content` is
  the part of a dependent `Update` adjusts, an element of `Wants`; `ready` is
  what the kind's own controller reports; `owner` is the uid in the controller
  reference. A `uid` counts the incarnations of the primary.
- `primaryEvents`, `objectEvents[d]` are versions the informers that are read from
  have still to deliver; `cachedPrimary`, `cached[d]` are what reads return.
- `notices[d]` counts the versions of a dependent that the watch of its kind has
  still to hand to the event handler. Versions of one object arrive in order on
  either stream; the two streams, and different objects, are delivered independently.
- `outrun` (history) holds the dependents whose last notice came before the cache had
  the version it told of, as long as no pass has begun after the cache caught up.
- `watching`, `queued`, `worker` are the operator's memory. `worker.pc` names the
  next call of the pass; `worker.res` is the `Resource` instance;
  `worker.resFresh` and `worker.fetchedFresh` say that the copy to be written still
  carries the current `resourceVersion`.

| Action | Code |
|---|---|
| `Dequeue`, `FetchPrimary`, `FetchPrimaryNotFound`, `FetchPrimaryFails`, `Delete` | `generic.go`, the read of the primary and its two errors |
| `ProvideDefaultValues`, `StoreDefaults` | the write of the defaults, whose error is dropped |
| `CheckValidityFails`, `InitDependentResources` | validation, the list of dependents |
| `RegisterWatch`, `AllWatched` | the loop that calls the watch callback |
| `CreateOrUpdateExits`, `FetchDependent`, `BuildFails`, `CreateDependent`, `CreateDependentExists`, `UpdateDependent` | `CreateOrUpdate`, per dependent |
| `CheckDependent` | one turn of the loop of `ComputeStatus`, reading one dependent |
| `WriteStatus` | `Status().Update` and the return of `Reconcile` |
| `DeliverPrimary` | the informer of the primary: cache and request in one (external) |
| `DeliverObject` | the typed informer of a dependent brings the cache up to date, and wakes nobody |
| `DeliverNotice` | the watch of a dependent's kind puts a request on the queue, whatever the cache holds |
| `UserCreates`, `UserEdits`, `UserDeletes`, `OthersTouch`, `OthersDelete`, `OthersCreate`, `GarbageCollect`, `Crash` | the environment (external) |

Every call that leaves the process is a step of its own; what the code does
between two calls is part of the step before. A call that fails for no visible
reason is a choice of the step, allowed at the sites in `FaultSites` and paid
from `MaxFaults`; for a write the choice is between "refused" and "took effect,
but the answer was lost" (`Outcomes`). Refusals with a reason (a stale copy, an
object that exists) are free.

Optimistic concurrency is modelled without version numbers: a copy is fresh if
the cache was up to date when it was read and nobody has written the object
since. A write of the worker itself ends its use of the copy.

What the code does with errors is kept exactly: `ReportError` is
`UpdateStatusIfNeeded` with an error, which returns nil unless writing the status
fails, and does not write when the same failure is already there;
`ComputeStatusTurn` is the short-circuited `needsUpdate || SetCondition(...)`.

### Dependents

A message on the status is modelled as the error it was made from, since
`DefaultErrorHandler` only compares it. `GetCondition` is the default with the
customisation of the README (a found object that is not ready is Pending).
`v1beta1.Status.SetCondition` is a library outside the repository. Since
`ComputeStatus` calls nothing else, it must be what aggregates: it is modelled
as recording the condition, recomputing the reason, clearing the message and
answering whether the status differs. Whether it does so for a condition the status
holds already is not to be seen here and so is a parameter, `Recomputes`: it is TRUE in
the runs about rest and convergence, which need it, and of the theorems only
`FailuresAreForgotten` depends on it.

### Watches

Each controller's worker walks the watched dependents of its resource:
`Check` (the read under the mutex), `Watch` (the call of `Controller.Watch`,
which can fail), `Record` (the write under the mutex). `watches[c][k]` counts
the watches started, `passed[c]` is history: the kinds whose callback has returned
nil to `c`. `Reconciler` has the same loop in one step, `RegisterWatch`, because one
controller alone cannot interleave with itself.

### CapabilityRegistry

`main.pc` follows the operator's main function: load the plugins in the order of
the directory; for each offered type look at the registry (`SkipTaken`), read
the CapabilityInfo (`GetInfo`), create or update it (`CreateInfo`, `UpdateInfo`),
and only then register the plugin; perhaps purge (`ListInfos`, `PurgeInfo`, `KeepInfo`,
`PurgeDone`); serve. `OthersWrite` is a user or another replica writing or
deleting any CapabilityInfo at any moment; `Restart` starts a new life with any
content of the plugins directory. A failed `GetCategory` or `GetTypes` leaves zero
values, so that nothing is registered (`LoadPlugin`, `RefuseAll`). A failure to connect exits
the process and is a `Restart`. A pair stands for category and type as `categoryKey`
and `typeKey` normalise them; `InfoName` is `category-type`, which hyphens can make
equal for two pairs. The directory lists each file once.

`life` is history: what the directory held, the offers an error made `register` ignore
(`refused`), the names others wrote in this life (`touched`) and since the purge made its list
(`rewritten`). `main.failed` is what the error of a purge names. The properties except
no more than these: an offer that was refused, a deletion that is reported as failed, a
CapabilityInfo somebody rewrote behind the purge's list.

### Realisation

Per dependent only the content it has on the cluster (`held[d]`, empty if there is
none) and whether it ever existed. The operator may `Realise` a dependent it is
configured to create once all those it `Needs` have existed, with a content that
some valid spec asks for; everything present may `Change`. `Reconciler` and
`PluginDependents` state under which mapping they implement it
(`Abstract == INSTANCE Realisation WITH ...`). It says more than `CreationOrder`:
a spec the user makes invalid in the middle of a pass, or a dead plugin whose failed
validity check counts as "valid", never leads to a dependent made from that spec.

### PluginResources and PluginDependents

`PluginResources` is the plugin's aggregate. The map from types to resources
is built resource by resource, so that a later one takes over a type
(`pluginResources`); `CheckValidity` asks all that the map still holds. A request
carries the capability as the pass read it and the kind it is about;
`dependentResourceFor` returns the first dependent of that kind, and panics when
there is none (`Understood`).

`PluginDependents` has the cluster (`capability`, `status`, `object`), the process
of the plugin (`plugin`: up, gone, or panicked) and one pass (`worker`).

| Action | Code |
|---|---|
| `StartPass` | the read of the capability and `GetPluginFor` |
| `ClientCheckValidity`, `ReadyFor` | `client.go`, once per pass |
| `ClientGetConfig` | `dependent.go`, once per dependent, kept by the stub |
| `CreateOrUpdateExits`, `FetchDependent`, `BuildAndCreate`, `BuildsNothing`, `Update`, `UpdatesNothing` | `CreateOrUpdate` over a stub: `Name`, `Build`, `Update` are calls |
| `NotChecked`, `FetchChecked`, `ClientGetCondition` | `ComputeStatus` over a stub |
| `WriteStatus` | the end of `Reconcile` |
| `UserEdits`, `OthersTouch`, `OthersDelete`, `OthersCreate` | the environment (external) |
| `PluginDies`, `Restart` | the processes (external) |

- *Calls.* Each step asks the plugin at most once. It is answered if the process
  is up and the server finds the dependent (`CallAt`, `Answers`); a request it does not
  find ends the process, in whichever step it is made (`AfterCall`). Unanswered, it yields what the code goes on with: no
  messages, no dependents, an empty configuration, an empty name (`Nameless`), a nil
  object, "no update needed", a blank condition (`Blank`). Where a call
  to the API server follows at once and nothing else can observe the moment between
  them, both are one step: `Fetch` asks for the name and reads, `Create` asks for
  the object and writes it.
- *A connection fails for good.* net/rpc does not reconnect, so that the process being gone
  is a state and not a choice per call; only a restart of the operator launches it
  again.
- *Errors of the plugin* (`"build"`, `"update"` among `FaultSites`) stay on the server:
  `Build` leaves a nil object, which for an owned dependent panics in
  `SetControllerReference` and ends the operator; `Update` leaves "no update needed".
- *Left to `Reconciler`*: the queue, the lag of the primary's cache, defaults,
  deletion. The objects here are unstructured, which the manager's client reads from
  the API server and not from a cache.

### SharedBinding

Primaries of different kinds, each with the worker of its own controller, choose the
same names for a role and a role binding. `cached[d]` and `events[d]` are the one
informer's view of them, `worker[o].fresh` says whether the copy to be written still
carries the current version. A pass is `Fetch`, then `Create` or `CreateExists` or,
for the binding when `Updated` is set, `UpdateBinding`, for the role first.
`GarbageCollect` takes an object along with the primary that created it. Statuses,
failing calls and restarts are left out.

## 3. The runs

| Run | Module | Checks | Distinct states |
|---|---|---|---|
| `reconciler_safety` | `MCReconciler` | `TypeOK`, `CreationOrder`, `NoSpuriousFailure`, `RealisationSpec`, `UserSpecPreserved`, `OnlyContentUpdated` | 560 000 |
| `reconciler_live` | `MCReconciler` | `NoLostWakeup`, `FailuresAreRetried`, `FailureIsForgotten`, `EventuallyConverges`, `NothingLeftBehind` | 720 000 |
| `reconciler_awaiting` | `MCReconciler` | `CreationOrder`, `EventuallyConverges` | 640 000 |
| `watches_safety` | `MCWatches` | `TypeOK`, `WatchedOnce`, `PassedIsWatched` | 40 000 |
| `registry_safety` | `MCCapabilityRegistry` | `TypeOK`, `Advertised`, `OfferedIsProvided`, `PurgeIsThorough`, `DirectorySpec` | 140 000 |
| `plugin_safety` | `MCPluginDependents` | `TypeOK`, `ServerNeverPanics`, `DoneMeansProcessed`, `RealisationSpec`, `EventuallyRealised` | 270 000 |
| `shared_binding` | `MCSharedBinding` | `TypeOK`, `SubjectsKept`, `EventuallyBound`, `NothingLeftBehind` | 680 000 |

Five more runs end in a violation; section 6 is about them.

**reconciler_safety.** A role as `NewOwnedRole` configures it (not watched), then a
secret as `NewSecret` does (updated). Three
manifests: one without the optional values, one that wants something else, one that is
invalid and wants a third thing, so that a dependent made from it would show
(`RealisationSpec`). Two incarnations of the primary, one disturbance, and one failure
at any of the ten kinds of call this pass makes (neither dependent is checked for
readiness; the other two runs have one that is). *Bounds:* two dependents are the least with an
order; two incarnations let a pass, a cache or an orphaned dependent of the first meet
the second. One disturbance combined with one failure already gives every pair of an
environment's act with a failing call at every interleaving, and conflicts, stale reads
and deliveries are not bounded by them. `MaxLag` bounds only how far a cache or a
watch may be behind when the garbage collector acts; without it, deletion and
creation by a stalled cache could alternate for ever. It is 1 in the passing runs and
2 in the violation runs.

**reconciler_live.** A secret and a pod checked for readiness, both watched and owned,
so that every dependent is `Tracked`; one disturbance, a crash included, and one failure
at the calls whose errors the pass returns or a later write wakes up (`delete`, `init`,
`watch`, `check`, `status`). Watch and cache lag each on its own, so a notice can come
before, with or after the version it tells of. Where none is `outrun` the operator
rests only with its work done and truly reported; and it does come to rest: its own
status writes wake it, so that convergence also says it does not chase its own tail.
`EventuallyConverges` lets it end otherwise only as `Misled`, with a dependent in
`outrun` and nothing to make it look again; `NothingLeftBehind` has no such exception,
since collection needs no pass. That `outrun` cannot be left out is what run
`reconciler_outrun` shows; that it excepts nothing else, `Announced` (section 5). The
failures the code drops are left to a violation run (`create` twice) and to section 6
(`fetch`, `defaults`).

**reconciler_awaiting.** A config map others create and the operator adjusts
(`Created` false, `Updated` true), a capability only others create and whose
readiness counts, then an unwatched role. The resource asks to be requeued at the
end of every pass (`NeedsRequeue`), the code's means of noticing what no watch
reports. Three disturbances: two creations by others and one change of mind, deletion
or crash. The order still holds, and the operator converges or reports the
dependent it waits for. Being requeued, it cannot be misled: a notice that comes too
early is made up for by the next pass.

**watches_safety.** Three controllers that pairwise share kinds, one listing a
kind twice, with two failing watches and any number of restarts. Deadlock is
checked here: a worker must never be stuck. In the other runs users and faults may
stop and the operator may rest, so that ending is legal.

**registry_safety.** Two plugins, one offering a pair twice (two spellings), both
offering `database/postgres`; three contents of the plugins directory;
three disturbances and two failures. Three disturbances allow two restarts and a
foreign write, the least for a CapabilityInfo of a former life to be rewritten and
then purged; two failures allow one to hide in the write and one in the purge. Failed
calls exempt only the offer they concern: a plugin whose first offer meets an error
must still get its second (`OfferedIsProvided`), and one failed deletion excuses no
other (`PurgeIsThorough`). `DirectorySpec` is the refinement of `PluginDirectory`.

**plugin_safety.** A plugin of two resources, the second of which takes a type over
from the first; dependents that are updated, checked, neither owned nor alike, and
an account only others create. Four capabilities: one per served type, an invalid
one, one of a type nobody serves; a user can turn each into any other during a pass.
The plugin dies once, at any call; one call fails; there are two disturbances, a restart
among them. *Bounds:* one death is enough because the process stays dead until a
restart and can then be up for good, which is when `EventuallyRealised` must hold;
two disturbances let others create the account and the user change the type in one
behaviour; one failure meets the death and the restart at every step.

**shared_binding.** Two primaries, one disturbance. Each primary is created and deleted
once, so that the creator can go before, while or after the other binds, and the other can
be the one that creates the objects again. Two are enough for an update to be lost; the
theorem is for any number. The role and the binding are not watched, so that nothing
but the next pass notices what became of them; in the model a present primary
always has a next pass.

Every property of these runs has a mutant in `PROJECT.json`: a plausible mistake in
the code (an ignored error, a write without a version, a forgotten retry, a
missing owner, a registration before the write, an answer taken for another's)
under which the run finds the
property violated.

## 4. Fairness

`FairSpec` assumes weak fairness of

- `Reconcile`, the worker: the queue hands out requests and no call blocks
  for ever;
- `DeliverPrimary`, `\E d : DeliverObject(d)`, `\E d : DeliverNotice(d)`: the
  informer of the primary, the caches of the dependents and their watches each
  keep delivering;
- `\E d : GarbageCollect(d)`: the cluster's garbage collector runs.

Fairness of the disjunctions is weaker than fairness for each dependent and is enough,
because streams are finite once the others are done.

In `PluginDependents` it is the fairness of the worker (`Pass`) alone: the plugin is
not assumed to stay up nor to be started again, so `EventuallyRealised` begins with
`<>[](plugin = "up")`. In `SharedBinding` it is that of each controller's worker
(`Pass(o)`), of the informer and of the garbage collector. In both, passes follow one
another without an event: that is the primary that asks to be requeued, and it is
assumed because what an unwatched kind or a lost call needs is another pass; which passes
the operator can count on is what `Reconciler` is about.

These are processes that run for as long as the operator and the cluster do, each
on its own. Weak fairness is enough: once enabled, each stays so until it acts or
somebody else (a crash, a user's deletion) takes its task away; the bound
`MaxLag` can hold the garbage collector back only until an informer catches up.
Nothing is assumed of users and of other controllers, nor is any call
assumed to succeed: faults and disturbances are bounded, so they stop by
themselves, which is the "once others are done" of the liveness properties. The
periodic resync of the manager is not assumed: it makes up for a lost wake-up,
those of `outrun` included, only after the ten hours it takes by default.

## 5. The proofs

All for every number of dependents, every configuration, every bound and every
set of controllers, kinds, plugins, offers, plugin resources and primaries, from the
named assumptions next to the constants (which TLC evaluates in the runs): bounds are
naturals, there is at least one dependent, one content and one spec, configurations,
plugin resources and offers have their types, `Nobody` is neither a plugin nor a primary
and `Nameless` is no dependent.

| Theorem | Module | Statement |
|---|---|---|
| `TypeCorrectness` | `ReconcilerProofs` | `Spec => []TypeOK` |
| `CreationInOrder` | `ReconcilerProofs` | `Spec => []CreationOrder` |
| `UserSpecIsPreserved` | `ReconcilerProofs` | `Spec => UserSpecPreserved` |
| `OnlyContentIsUpdated` | `ReconcilerProofs` | `Spec => OnlyContentUpdated` |
| `NoFailureIsSpurious` | `ReconcilerRefinement` | `Spec => []NoSpuriousFailure` |
| `RealisesDependents` | `ReconcilerRefinement` | `Spec => RealisationSpec` |
| `NoWakeupIsLost` | `ReconcilerRest` | `Spec => []NoLostWakeup` (rest with `outrun = {}`), if `DroppedErrorsDoNotOccur` |
| `EveryFailureIsRetried` | `ReconcilerRest` | `Spec => []FailuresAreRetried` (the same), if also `RepeatableErrorsDoNotOccur` |
| `FailuresAreForgotten` | `ReconcilerRest` | `Spec => []FailureIsForgotten` (the same), if also some dependent is checked and `Recomputes` |
| `WatchTypes` | `WatchesProofs` | `Spec => []TypeOK` |
| `NoSecondWatch` | `WatchesProofs` | `Spec => []WatchedOnce` |
| `PassedKindsAreWatched` | `WatchesProofs` | `Spec => []PassedIsWatched` |
| `RegistryTypes` | `CapabilityRegistryProofs` | `Spec => []TypeOK` |
| `DirectoryImplemented` | `CapabilityRegistryProofs` | `Spec => DirectorySpec` |
| `AdvertisedBeforeServed` | `CapabilityRegistryProofs` | `Spec => []Advertised` |
| `PurgeLeavesNothing` | `CapabilityRegistryProofs` | `Spec => []PurgeIsThorough` |
| `FirstOfferServes` | `CapabilityRegistryProofs` | `Spec => []OfferedIsProvided` |
| `SupportedIsServed` | `PluginDependentsProofs` | `GetSupportedTypes \subseteq Served` |
| `PluginTypes` | `PluginDependentsProofs` | `Spec => []TypeOK` |
| `ServerIsNotMadeToPanic` | `PluginDependentsProofs` | `Spec => []ServerNeverPanics` |
| `NoDependentIsPassedOver` | `PluginDependentsRefinement` | `Spec => []DoneMeansProcessed`, if `OneOfEachKind` |
| `PluginRealisesDependents` | `PluginDependentsRefinement` | `Spec => RealisationSpec`, if `OneOfEachKind` |
| `SharedTypes` | `SharedBindingProofs` | `Spec => []TypeOK` |
| `NoAccountIsLost` | `SharedBindingProofs` | `Spec => SubjectsKept` |

Together they state every safety property the runs check.

**Order of creation.** `CreationOrder` is not inductive: a step at dependent *d*
may create it, and what makes that right is where the loop has been. `OrderInv`
adds `KnownHasExisted` (an object the server, a cache or a stream shows has
existed, so a read that finds one, however stale, is evidence) and `LoopInOrder` (the
loop is at *d* only when everything handled before it has existed). The loop moves
on in four ways, found, created, updated and already exists, and each shows
that the dependent has existed; the fifth, exiting early, is for dependents that are
not handled. The proof has one lemma per phase of the pass and one for the environment.

**Stale copies.** The two action properties follow from `CopiesInv`:
`CachesCatchUp` (the last version on a stream is the server's, so a drained stream
means an up-to-date cache) makes a copy read then agree with the server, and
`CopiesAgree` keeps it so: any write of somebody else clears the fresh
flag, and a copy without it is refused.

**Honest copies.** What a pass does depends on the copy of the primary it has read, so
`NoFailureIsSpurious` and the refinement by `Reconciler` need to know about every copy there
is, on the server, on the stream, in the cache and in the pass. `HonestInv` says that each
carries a spec some user submitted, perhaps with the defaults added, that its status blames
a dependent only if a call has failed or the operator updates that dependent (whose writes can
be refused as stale), and that a Failed condition on it comes with the reason Failed
(`Consistent`). It is the same whether a copy is old or new, which is why no stale
read can break it. A pass beyond validation holds a *valid* spec: with
`KnownHasExisted` and `LoopInOrder` every create and update is then a `Realise` of the abstract
specification, and everything else a `Change` or a stutter.

**Rest.** Of a state of rest nothing can be said without saying, for every position of a pass,
what will wake the operator again if the work it leaves behind is undone. `RestInv`
does, in parts on top of the invariants above. `OwnersKept`: a tracked dependent
that exists carries its owner, so each version of it is one the watch maps to a request.
`Announced`: what the cache has still to see of a tracked dependent, the operator has still
to be told of, or that dependent is in `outrun`. This is all that relates
the two informers, and it is what the exception in the three properties is made of. `Mindful`:
a pass that works with an old copy of the primary will be followed by another, for the write
that made the copy old is still on the stream or in the queue. `Progress`: if nothing is to
follow (`Still`: no request, no event, no notice, nothing in `outrun`), the dependents the
loops have passed are as the spec asks, and what they will report is true. `Rested`: idle,
with nothing to follow, the work is done. The hypotheses are the errors the code drops
(section 6), and what the library does:

- `DroppedErrorsDoNotOccur`: reading the primary and storing the defaults never fail for no
  visible reason. Either error ends the pass with nothing to bring it back.
- `RepeatableErrorsDoNotOccur`: nor do the calls for a dependent, and each dependent
  that is handled is owned, watched and not created by others, so that it is not refused for
  somebody else's object. Run `reconciler_repeated_error` is a violation without it.

- `Recomputes` and a dependent that is checked, for `FailuresAreForgotten` alone: only
  `SetCondition` clears a message.

None of the excluded sites can be allowed: with `"fetch"` or `"defaults"` alone among the
fault sites of `reconciler_live`, TLC finds `NoLostWakeup` and `FailuresAreRetried` violated by
one failure, and with any of `"get"`, `"build"`,
`"create"` and `"update"` alone, `FailuresAreRetried` by two.

Conflicts, failing watches, failing writes of the status, lost answers to them, crashes, and
users and other controllers at any moment remain. Run `reconciler_live` is an instance that satisfies all
hypotheses.

**Watches.** The check and the record are separate critical sections, so the
registry lags behind the watches. `Recorded` says how: a watch that is started is
recorded or its worker is just about to (`StartedIsRecorded`), a worker about to
watch has no watch of that kind yet (`NotYetStarted`), one about to record has
(`JustStarted`), and what is recorded or passed was started. That a controller has one worker is
what makes `WatchedOnce` true: another controller may overlap, but only starts watches of its own.

**Plugin directory.** `DirectoryInv` says that what is left to register was offered by
the plugin being loaded, and that a pair found free stays free until it is claimed.
With it every step of the registry is a claim, a restart or a stutter of
`PluginDirectory`. `Advertised` needs in addition that the list a purge works on is out
of date only where others wrote (`ListIsAccurate`).

**Purge.** Nobody registers during a purge, so `provider` is fixed; what is on the cluster with
nothing serving it is still on the list with the pair it has, or the error to be returned names it,
or others wrote it since the list was made (`PurgeKeepsUp`). That a life that has purged only
serves (`PurgedIsServing`) carries the result to the rest of it.

**Turns.** `OfferedIsProvided` needs the order in which plugins load: the files left are the
end of the directory (`FilesAreTheRest`). A plugin `Takes` a pair if it offers it and was not
refused for it. While a pair is free, no plugin that is done takes it (`FreeIsRefused`), and the
one whose turn it is has been refused for it or has an offer of it left (`FreeIsLeft`); whoever
has a pair is the first that takes it (`FirstTook`). An offer is refused for an error and for
nothing else, and a later offer of the same pair by the same plugin can make up for it.

**Requests a plugin understands.** What keeps the server from panicking is spread over
both processes, and `PassInv` gathers it. Past `GetPluginFor`, the owner the pass has read is of
a type some resource serves: `SupportedIsServed`, which is not obvious because a resource that
takes over a type leaves the types of the former one behind. Inside the
loops the kinds are those the plugin gave for that very owner, and the index is one of
theirs (`Attentive`), so each request finds a dependent (`SubjectOfKind`). The copy of the
owner is the pass's own, so a user's edit of the type cannot come between. The well-founded
order on the naturals supplies the first dependent of a kind and the last
resource of a type, which the definitions choose.

**Dependents of a plugin.** An answer lost in the middle of a loop is a zero value, and a zero configuration
says "not created", so the pass would move on over a dependent it should have made. `InformedInv`
is the argument why it does not matter: *while the plugin is up* everything the pass
remembers is what the plugin says, and a plugin once gone is gone for the rest of the
pass, so that neither `DoneMeansProcessed` nor another creation is due. `ExistenceInv` adds what
the refinement needs of the cluster: what is present or was met has existed, and a fresh copy is the
server's. The hypothesis `OneOfEachKind`, that the dependents of one type differ in their kinds, is what a
request that names only the kind needs (`server.go:125`); it holds in `plugin_safety`
and run `plugin_same_kind` is a violation without it.

**Shared binding.** `CopiesInv` is the argument of the stale copies again: a drained stream
means an up-to-date cache (`CacheCatchesUp`), so a copy that is still fresh is the server's
object (`Agrees`), and adding to its subjects drops none. The rest rules out that a binding
comes from an absent one: absent objects bind nobody (`AbsentBindsNobody`), and only a found
role binding is updated (`Prepared`).

**Only model-checked:** `EventuallyConverges`, `EventuallyRealised`, `EventuallyBound` and
`NothingLeftBehind`, because liveness under fairness is out of the prover's reach. For the reconciler the
theorems of `ReconcilerRest` are the half of it that can be proved: should it ever come
to rest, it is where `EventuallyConverges` says it comes.

## 6. Where code and comments disagree

Each run below checks a single property that a comment or a log line states, and
TLC shows a behaviour of the code that violates it. `PROJECT.json` quotes the lines.

| Run | Behaviour |
|---|---|
| `reconciler_repeated_error` | `generic.go:107` replaces the error of `CreateOrUpdate` by the result of writing the status. The first failure is retried because the written status comes back as an event; when it repeats, nothing is written and nothing is retried. |
| `reconciler_outrun` | `generic.go:198`: the watch of a dependent and the reads of it go through two informers. The notice of a change can wake a pass that still reads the version before; the cache catches up later and nobody is told. The next event of the primary or of a dependent, a requeue or the manager's resync repairs it. |
| `reconciler_short_circuit` | `baseresource.go:98`: once one condition has changed, the others are not recorded; a primary can be reported ready before its second dependent was looked at. A later pass, woken by the write, repairs it (`EventuallyConverges`). |
| `watches_shared` | `generic.go:190`: a kind the first controller watches is never watched for the second. |
| `plugin_same_kind` | `server.go:125`: a request names a dependent only by its kind, so of two secrets of one capability the first answers for both; the second is never created and nothing is reported. |

Further facts the models show have no run of their own:

- An error reading the primary, other than NotFound, ends its processing: the comment
  announces a request (`generic.go:57`), the code returns no error (`generic.go:61`). The
  error of storing defaults is dropped too (`generic.go:67-71`). With `"fetch"` or
  `"defaults"` among the fault sites of `reconciler_live`, `FailuresAreRetried` fails.
- A Failed status is cleared only by `SetCondition`, so a resource none of whose
  dependents is checked keeps it for ever.
- A watched dependent without a controller reference (one users create) produces no
  request (`generic.go:194`): with `Requeues = {FALSE}`, `reconciler_awaiting` fails.
- Capabilities whose category and type contain hyphens can share the name of
  their CapabilityInfo, and `Advertised` excepts them. A deletion that fails is counted
  as purged (`registry.go:110-111`).
- A purge decides by what it listed and deletes by name, without a resourceVersion
  (`registry.go:107`): a CapabilityInfo that was rewritten in between, for a pair that is
  served, goes too. With `PurgeRemovesUnserved` as a property of `registry_safety` TLC finds it.
- `NewOwnedRoleBinding` leaves `Updated` unset (`rolebinding.go:61-68`), so the framework never
  calls `RoleBinding.Update`, and the primary that finds the binding existing is never added to
  it: with `Updated <- NewOwnedRoleBinding`, `EventuallyBound` fails.
- Once a plugin's process is gone, a pass over its capabilities sees no dependents, changes
  nothing and ends without an error, until the operator is started again. This is why
  `EventuallyRealised` has its hypothesis.
- A `Build` that fails in the plugin makes the operator panic on the nil object when the
  dependent is owned; an `Update` that fails in it (`server.go:111-113`) is not reported.
- The aggregate asks every resource about the validity of every owner
  (`resource.go:126`): a resource that refuses types it does not know refuses its neighbours'.
- When the type of a capability changes, the dependents and conditions of the former type
  stay.
- Two primaries whose secrets have one name, unlike those with one role binding, would each
  overwrite what the other wants: with `UpdatedSubjectsOwnOnly` for `UpdatedSubjects`, which
  is what `Secret.Update` would amount to, `SharedBinding` finds `SubjectsKept` violated.

## 7. What is not modelled

- *Clean-up.* What `Delete` does belongs to the embedding operator. A deletion
  while the operator is down produces no request, so `Delete` is not called
  for it; nothing in the framework claims otherwise.
- *Registration with the manager* (`RegisterNewReconciler`) and the callbacks
  map: operators register every controller before the manager starts, so the
  map is not written while workers read it.
- *Several dependents with one name.* Dependents of one primary are distinct
  objects in the model; users pick names, the framework does not check them.
- *What the built objects contain* is abstracted to an element of `Wants` in `Reconciler`
  and `PluginDependents`, and to the set of subjects in `SharedBinding`.
- *Adoption.* `AlreadyExists` counts as success whoever owns the object; the
  properties except dependents others may create (`Foreign`). Where the other is a
  primary, `SharedBinding` says what becomes of it.
- *Detection of OpenShift, predicates, string and reflection helpers, logging*:
  run once, or pure.
- *Launching plugins* and the handshake are go-plugin's. *Serialisation* (gob, JSON,
  unstructured objects) is taken to carry a request and its answer unchanged. A *plugin of
  several categories* panics before it serves anything.
- *Look-ups no pass makes*: `GetDependent` and `FetchUpdatedDependent` of the base resource.

## 8. The plan

Done, in this order, the most important behaviour first: `Dependents` and
`Reconciler`, `ReconcilerProofs`, `Watches` with its proofs, `PluginDirectory` and
`CapabilityRegistry` with theirs; then `Realisation`, `PluginResources` and
`PluginDependents`, `SharedBinding`, and the proofs of the last two; then the refinements of
`Realisation`, the rest of the reconciler and the remaining invariants of the registry.

Next module: **a composition of `Reconciler` and `Watches`**, two primaries whose
controllers share kinds, to say what losing a watch means for convergence. The state of
`Reconciler` squared is the obstacle; it needs a reconciler reduced to what
notices changes.

Next theorems:

1. `SharedBinding`: an invariant of rest as for the reconciler, that every account is bound or a
   pass that binds it is still to come, the safety half of `EventuallyBound`.
2. `PluginDependents`: the same for `EventuallyRealised` while the plugin stays up.
3. That `Reconciler`'s watch loop, one step there, is what `Watches` does in three when one controller is alone.
