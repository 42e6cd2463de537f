--------------------------- MODULE PluginDependents ---------------------------
(***************************************************************************)
(* A capability whose dependents a plugin provides: the passes of          *)
(* Reconcile over them, every method of which is a call to the plugin's    *)
(* process (plugins/capability/client.go and dependent.go).                *)
(*                                                                         *)
(* A call that fails is logged and answered with the zero value, so the    *)
(* pass goes on.  net/rpc never reconnects: once the plugin is gone, every *)
(* later call fails until the operator starts again and launches it anew.  *)
(*                                                                         *)
(* Unstructured objects are read from the API server, not from a cache.    *)
(* The queue, the lag of the primary's cache, the defaults and deletion    *)
(* are the subject of Reconciler; here a pass can always follow another.   *)
(* A call is a step of its own, or one with the access to the API server   *)
(* next to it when nothing can tell them apart.                            *)
(***************************************************************************)
EXTENDS PluginResources

CONSTANTS
    UserSpecs,      \* specs a user submits
    Foreign,        \* dependents others may create
    Nameless,       \* the empty name
    FaultSites,     \* calls that can fail for no visible reason
    MaxDisturbances,\* bound: acts of users and others, and crashes
    MaxFaults,      \* bound: such failures
    MaxDeaths       \* bound: deaths of the plugin's process

ASSUME EnvironmentAssumption ==
    /\ UserSpecs \subseteq Specs /\ UserSpecs # {}
    /\ Foreign \subseteq Deps
    /\ Nameless \notin Deps
    /\ FaultSites \subseteq {"get", "build", "create", "update", "store", "status"}
ASSUME BoundsAssumption ==
    MaxDisturbances \in Nat /\ MaxFaults \in Nat /\ MaxDeaths \in Nat

VARIABLES
    capability,     \* the spec of the primary
    status,         \* its status
    object,         \* object[d]: the object realising dependent d
    plugin,         \* the plugin's process
    worker,         \* the pass under way
    left,           \* what remains of each bound
    existed         \* dependents that have existed on the cluster

cluster == <<capability, status, object, existed>>
vars == <<cluster, plugin, worker, left>>

-----------------------------------------------------------------------------
Names == Deps \cup {Nameless}

\* "Blank" is the type of DependentCondition{}.
Conditions == {"Unset", "Blank", "Ready", "Pending", "Failed"}

\* The message of the status names the dependent whose error it reports.
Statuses == [message: Names \cup {"none", "invalid"}, conditions: [Names -> Conditions]]

Objects == [exists: BOOLEAN, content: Wants, ready: BOOLEAN]

NoObject == [exists |-> FALSE, content |-> CHOOSE w \in Wants : TRUE, ready |-> FALSE]

ZeroConfig ==
    [owned |-> FALSE, created |-> FALSE, updated |-> FALSE, checked |-> FALSE,
     kind |-> "none"]

Workers ==
    [pc: {"idle", "validity", "types", "config", "dependent", "build", "update",
          "check", "condition", "status"},
     owner: Specs,              \* the capability the pass has read
     status: Statuses,          \* the status it computes
     resFresh: BOOLEAN,         \* it carries the server's resourceVersion
     kinds: Seq(Kinds),         \* the PluginDependentResources of ReadyFor
     configs: Seq(Configs \cup {ZeroConfig}),   \* their field config
     next: Nat \ {0},           \* index of the loop over them
     fetched: Objects,          \* what Fetch returned
     fresh: SUBSET Deps,        \* whose copy fetched is, if it is current
     outcome: {"found", "notFound", "failed"},  \* of Fetch in ComputeStatus
     changed: BOOLEAN,          \* the status is to be written
     met: SUBSET Deps]          \* history: what it has found or created

TypeOK ==
    /\ capability \in Specs
    /\ status \in Statuses
    /\ object \in [Deps -> Objects]
    /\ plugin \in {"up", "gone", "panicked"}
    /\ worker \in Workers
    /\ worker.next = 1 \/ worker.next \in DOMAIN worker.kinds
    /\ left \in [disturbances: 0..MaxDisturbances, faults: 0..MaxFaults, deaths: 0..MaxDeaths]
    /\ existed \subseteq Deps

NewStatus == [message |-> "none", conditions |-> [n \in Names |-> "Unset"]]

Idle ==
    [pc |-> "idle", owner |-> CHOOSE s \in UserSpecs : TRUE, status |-> NewStatus,
     resFresh |-> FALSE, kinds |-> <<>>, configs |-> <<>>, next |-> 1,
     fetched |-> NoObject, fresh |-> {}, outcome |-> "found", changed |-> FALSE,
     met |-> {}]

Init ==
    /\ capability \in UserSpecs
    /\ status = NewStatus
    /\ object = [d \in Deps |-> NoObject]
    /\ plugin = "up"
    /\ worker = Idle
    /\ left = [disturbances |-> MaxDisturbances, faults |-> MaxFaults, deaths |-> MaxDeaths]
    /\ existed = {}

-----------------------------------------------------------------------------
(***************************************************************************)
(* Calls                                                                   *)
(***************************************************************************)
\* createRequest: the client made by ReadyFor keeps the pass's copy of the
\* owner; target is the kind of the dependent.
RequestLive == capability
Request == worker.owner
Target == worker.kinds[worker.next]

\* The dependent the server takes the request to be about.
Subject == dependentResourceFor(Request, Target)

Comprehensible ==
    CASE worker.pc = "validity" -> TRUE
      [] worker.pc = "types" -> Request.type \in Served
      [] OTHER -> Understood(Request, Target)

\* Whether a call made now is answered.
AnswersFlaky == {plugin = "up" /\ Comprehensible, FALSE}
Answers == {plugin = "up" /\ Comprehensible}

AfterCall == IF plugin = "up" /\ ~Comprehensible THEN "panicked" ELSE plugin

CallAt(pc) == worker.pc = pc /\ plugin' = AfterCall

Fails(site) ==
    /\ site \in FaultSites
    /\ left.faults > 0
    /\ left' = [left EXCEPT !.faults = @ - 1]

Name(answered) == IF answered THEN Subject ELSE Nameless

-----------------------------------------------------------------------------
(***************************************************************************)
(* One pass                                                                *)
(***************************************************************************)
\* The error goes to the status, unless it already is there.
Report(e) ==
    worker' = IF worker.status.message = e THEN Idle
              ELSE [worker EXCEPT !.pc = "status", !.status.message = e, !.changed = TRUE]

\* The next turn of a loop over the dependents, or what follows the loop.
FollowingBeyond(w, loop, after) ==
    IF w.next <= Len(w.kinds) THEN [w EXCEPT !.pc = loop, !.next = @ + 1]
    ELSE [w EXCEPT !.pc = after, !.next = 1]

Following(w, loop, after) ==
    IF w.next < Len(w.kinds) THEN [w EXCEPT !.pc = loop, !.next = @ + 1]
    ELSE [w EXCEPT !.pc = after, !.next = 1]

NextDependent(w) == Following(w, "dependent", "check")

Meeting(d) == [worker EXCEPT !.met = @ \cup {d}]

\* GetPluginFor finds the plugin if it supports the type.
StartPass ==
    /\ worker.pc = "idle"
    /\ capability.type \in GetSupportedTypes
    /\ worker' = [Idle EXCEPT !.pc = "validity", !.owner = capability,
                              !.status = status, !.resFresh = TRUE]
    /\ UNCHANGED <<cluster, plugin, left>>

\* An unanswered call has no messages.
ClientCheckValidity ==
    /\ CallAt("validity")
    /\ \E answered \in Answers :
          IF answered /\ ~CheckValidity(Request) THEN Report("invalid")
          ELSE worker' = [worker EXCEPT !.pc = "types"]
    /\ UNCHANGED <<cluster, left>>

\* An unanswered call has no dependents.
ReadyFor ==
    /\ CallAt("types")
    /\ \E answered \in Answers :
          LET kinds == IF answered THEN GetDependentResourceTypes(Request) ELSE <<>>
          IN  worker' = [worker EXCEPT !.kinds = kinds,
                               !.pc = IF kinds = <<>> THEN "status" ELSE "config"]
    /\ UNCHANGED <<cluster, left>>

\* The loop that adds the watches asks each dependent for its configuration,
\* which the dependent keeps.
ClientGetConfig ==
    /\ CallAt("config")
    /\ \E answered \in Answers :
          LET config == IF answered THEN Config[Subject] ELSE ZeroConfig
          IN  worker' = Following([worker EXCEPT !.configs = Append(@, config)],
                                  "config", "dependent")
    /\ UNCHANGED <<cluster, left>>

ThisConfig == worker.configs[worker.next]

ExitsUnlessBoth(config) == ~config.created \/ ~config.updated
Exits(config) == ~config.created /\ ~config.updated

CreateOrUpdateExits ==
    /\ worker.pc = "dependent"
    /\ Exits(ThisConfig)
    /\ worker' = NextDependent(worker)
    /\ UNCHANGED <<cluster, plugin, left>>

\* Fetch asks for the name each time, and without one the read is refused.
FetchDependent ==
    /\ CallAt("dependent")
    /\ ~Exits(ThisConfig)
    /\ \E answered \in Answers :
          \/ /\ answered
             /\ object[Subject].exists
             /\ worker' = IF ~ThisConfig.updated THEN NextDependent(Meeting(Subject))
                          ELSE [Meeting(Subject) EXCEPT !.pc = "update",
                                   !.fetched = object[Subject], !.fresh = {Subject}]
             /\ UNCHANGED left
          \/ /\ answered
             /\ ~object[Subject].exists
             /\ IF ThisConfig.created THEN worker' = [worker EXCEPT !.pc = "build"]
                ELSE Report(Subject)
             /\ UNCHANGED left
          \/ /\ (~answered /\ UNCHANGED left) \/ Fails("get")
             /\ Report(Name(answered))
    /\ UNCHANGED cluster

\* The operator is started again, and with it the plugin.
Restarted == worker' = Idle /\ plugin' = "up"

Built == [exists |-> TRUE, content |-> Request.want, ready |-> FALSE]

\* AlreadyExists is not an error; a failed Create may have taken effect.
BuildAndCreate ==
    /\ CallAt("build")
    /\ TRUE \in Answers
    /\ LET created == IF object[Subject].exists THEN object
                      ELSE [object EXCEPT ![Subject] = Built]
       IN  \/ /\ object' = created
              /\ worker' = NextDependent(Meeting(Subject))
              /\ UNCHANGED left
           \/ /\ object' \in {object, created}
              /\ Fails("create")
              /\ Report(Subject)
    /\ existed' = existed \cup {d \in Deps : object'[d].exists}
    /\ UNCHANGED <<capability, status>>

\* Build's error stays on the server: the object is nil, which
\* SetControllerReference cannot be given and Create refuses.  Nothing
\* recovers the panic of the former: the operator is started again.
BuildsNothing ==
    /\ worker.pc = "build"
    /\ (FALSE \in Answers /\ UNCHANGED left) \/ Fails("build")
    /\ \/ /\ ThisConfig.owned
          /\ worker' = Idle
          /\ plugin' = IF AfterCall = "panicked" THEN AfterCall ELSE "up"
       \/ /\ ~ThisConfig.owned
          /\ CallAt("build")
          /\ Report(Name(TRUE \in Answers))
    /\ UNCHANGED cluster

\* UpdateResponse.NeedsUpdate
NeedsUpdateUnset == FALSE
NeedsUpdate == worker.fetched.content # Request.want

Update ==
    /\ CallAt("update")
    /\ TRUE \in Answers
    /\ \/ /\ ~NeedsUpdate
          /\ worker' = NextDependent(worker)
          /\ UNCHANGED <<object, left>>
       \/ /\ NeedsUpdate
          /\ Subject \in worker.fresh
          /\ object' = [object EXCEPT ![Subject] = [worker.fetched EXCEPT !.content = Request.want]]
          /\ worker' = NextDependent(worker)
          /\ UNCHANGED left
       \/ /\ NeedsUpdate
          /\ (Subject \notin worker.fresh /\ UNCHANGED left) \/ Fails("store")
          /\ Report(Subject)
          /\ UNCHANGED object
    /\ UNCHANGED <<capability, status, existed>>

\* The error of Update stays on the server too: nothing needs an update.
UpdatesNothing ==
    /\ CallAt("update")
    /\ (FALSE \in Answers /\ UNCHANGED left) \/ Fails("update")
    /\ worker' = NextDependent(worker)
    /\ UNCHANGED cluster

-----------------------------------------------------------------------------
(***************************************************************************)
(* ComputeStatus over the dependents                                       *)
(***************************************************************************)
NextCheck(w) == Following(w, "check", "status")

NotChecked ==
    /\ worker.pc = "check"
    /\ ~ThisConfig.checked
    /\ worker' = NextCheck(worker)
    /\ UNCHANGED <<cluster, plugin, left>>

FetchChecked ==
    /\ CallAt("check")
    /\ ThisConfig.checked
    /\ \E answered \in Answers :
          \/ /\ answered
             /\ worker' = [worker EXCEPT !.pc = "condition", !.fetched = object[Subject],
                    !.outcome = IF object[Subject].exists THEN "found" ELSE "notFound"]
             /\ UNCHANGED left
          \/ /\ (~answered /\ UNCHANGED left) \/ Fails("get")
             /\ worker' = [worker EXCEPT !.pc = "condition", !.outcome = "failed"]
    /\ UNCHANGED cluster

ConditionOf(o) == IF o.exists /\ o.ready THEN "Ready" ELSE "Pending"

\* Once the status has changed, no other condition is recorded in this pass.
SetCondition(w, name, condition) ==
    LET recorded == [message |-> "none",
                     conditions |-> [w.status.conditions EXCEPT ![name] = condition]]
    IN  IF w.changed THEN w
        ELSE [w EXCEPT !.status = recorded, !.changed = (recorded # w.status)]

\* The client turns an error of Fetch into a condition of its own; the
\* server judges a fetched object.
ClientGetCondition ==
    /\ CallAt("condition")
    /\ \E answered \in Answers :
          LET condition ==
                CASE worker.outcome = "failed" -> "Failed"
                  [] worker.outcome = "found" /\ ~answered -> "Blank"
                  [] OTHER -> ConditionOf(worker.fetched)
          IN  worker' = NextCheck(SetCondition(worker, Name(answered), condition))
    /\ UNCHANGED <<cluster, left>>

WriteStatus ==
    /\ worker.pc = "status"
    /\ \/ ~worker.changed /\ UNCHANGED <<status, left>>
       \/ worker.changed /\ worker.resFresh /\ status' = worker.status /\ UNCHANGED left
       \/ worker.changed /\ ~worker.resFresh /\ UNCHANGED <<status, left>>
       \/ worker.changed /\ Fails("status") /\ UNCHANGED status
    /\ worker' = Idle
    /\ UNCHANGED <<capability, object, existed, plugin>>

Pass ==
    \/ StartPass \/ ClientCheckValidity \/ ReadyFor \/ ClientGetConfig
    \/ CreateOrUpdateExits \/ FetchDependent \/ BuildAndCreate \/ BuildsNothing
    \/ Update \/ UpdatesNothing \/ NotChecked \/ FetchChecked
    \/ ClientGetCondition \/ WriteStatus

-----------------------------------------------------------------------------
(***************************************************************************)
(* Users, other controllers and the processes, external                    *)
(***************************************************************************)
Disturb ==
    /\ left.disturbances > 0
    /\ left' = [left EXCEPT !.disturbances = @ - 1]

UserEdits ==
    /\ Disturb
    /\ capability' \in UserSpecs \ {capability}
    /\ worker' = [worker EXCEPT !.resFresh = FALSE]
    /\ UNCHANGED <<status, object, existed, plugin>>

ObjectChanges(d, o) ==
    /\ Disturb
    /\ object' = [object EXCEPT ![d] = o]
    /\ existed' = IF o.exists THEN existed \cup {d} ELSE existed
    /\ worker' = [worker EXCEPT !.fresh = @ \ {d}]
    /\ UNCHANGED <<capability, status, plugin>>

OthersTouch(d) ==
    /\ object[d].exists
    /\ \/ ObjectChanges(d, [object[d] EXCEPT !.ready = ~@])
       \/ \E c \in Wants \ {object[d].content} :
             ObjectChanges(d, [object[d] EXCEPT !.content = c])

OthersDelete(d) == object[d].exists /\ ObjectChanges(d, NoObject)

OthersCreate(d) ==
    /\ d \in Foreign
    /\ ~object[d].exists
    /\ \E c \in Wants : ObjectChanges(d, [exists |-> TRUE, content |-> c, ready |-> FALSE])

PluginDies ==
    /\ plugin = "up"
    /\ left.deaths > 0
    /\ left' = [left EXCEPT !.deaths = @ - 1]
    /\ plugin' = "gone"
    /\ UNCHANGED <<cluster, worker>>

\* The operator's process ends and starts again, be it to replace a plugin.
Restart ==
    /\ Restarted
    /\ Disturb \/ (plugin # "up" /\ UNCHANGED left)
    /\ UNCHANGED cluster

Environment ==
    \/ UserEdits \/ PluginDies \/ Restart
    \/ \E d \in Deps : OthersTouch(d) \/ OthersDelete(d) \/ OthersCreate(d)

Next == Pass \/ Environment

Spec == Init /\ [][Next]_vars

\* The controller's worker keeps running; nobody else owes anything.
FairSpec == Spec /\ WF_vars(Pass)

-----------------------------------------------------------------------------
(***************************************************************************)
(* Properties                                                              *)
(***************************************************************************)
Provided(t) == pluginResources[t].provides[t]

InOrder(t, e, d) ==
    \E i, j \in DOMAIN Provided(t) : i < j /\ Provided(t)[i] = e /\ Provided(t)[j] = d

ProvidedFor(t) == {Provided(t)[i] : i \in DOMAIN Provided(t)}

Valid(s) == s.type \in GetSupportedTypes /\ CheckValidity(s)

Handled(d) == Config[d].created \/ Config[d].updated

\* A plugin's dependents come into being as compiled-in ones do: in the order
\* ReadyFor returns them ("the operator will process them in the specified
\* order"), and as a valid capability asks, whenever the plugin dies and the
\* calls to it answer zero values.
Abstract == INSTANCE Realisation WITH
    Contents <- Wants,
    Askable <- {s.want : s \in {s \in UserSpecs : Valid(s)}},
    Creatable <- {d \in Deps : Config[d].created},
    Needs <- [d \in Deps |-> {e \in Deps : Handled(e) /\
                \A t \in Served : d \in ProvidedFor(t) => InOrder(t, e, d)}],
    held <- [d \in Deps |-> IF object[d].exists THEN {object[d].content} ELSE {}]

RealisationSpec == Abstract!Spec

\* No request of the operator makes the plugin's process panic, though the
\* user changes the capability, its type included, at any time: what a pass
\* asks about is what the plugin told this pass it provides.
ServerNeverPanics == plugin # "panicked"

\* A pass that gets through its dependents while the plugin is up has found
\* or created every one the plugin provides for the capability: no configured
\* dependent is passed over.
DoneMeansProcessed ==
    worker.pc \in {"check", "condition"} /\ plugin = "up" =>
        \A d \in ProvidedFor(worker.owner.type) :
            Handled(d) => d \in worker.met

Realised(d) ==
    /\ Config[d].created => object[d].exists
    /\ object[d].exists /\ Config[d].updated => object[d].content = capability.want
    /\ Config[d].checked => status.conditions[d] = ConditionOf(object[d])

\* A dependent only others may create, without which the loop stops.
Awaited(d) == ~Config[d].created /\ Config[d].updated /\ ~object[d].exists

\* Once the plugin stays up and nobody interferes, the dependents the plugin
\* provides for the capability are what it asks for and their conditions
\* reported, however many calls were answered with zero values before.
EventuallyRealised ==
    <>[](plugin = "up") =>
        <>[](Valid(capability) =>
                \/ \A d \in ProvidedFor(capability.type) : Realised(d)
                \/ \E d \in ProvidedFor(capability.type) : Awaited(d))
=============================================================================
