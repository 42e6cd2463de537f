------------------------ MODULE PluginDependentsProofs ------------------------
(***************************************************************************)
(* Theorems about PluginDependents, for any plugin resources, specs and    *)
(* configurations.                                                         *)
(***************************************************************************)
EXTENDS PluginDependents, WellFoundedInduction, SequenceTheorems, TLAPS

(***************************************************************************)
(* The server's side                                                       *)
(***************************************************************************)
LEMMA LeastExists ==
    ASSUME NEW S \in SUBSET Nat, S # {}
    PROVE  \E m \in S : \A n \in S : m <= n
<1> DEFINE R == OpToRel(<, Nat)
<1>1. IsWellFoundedOn(R, Nat)
  BY NatLessThanWellFounded
<1>2. \A m, n \in Nat : <<n, m>> \notin R => m <= n
  BY DEF OpToRel
<1> HIDE DEF R
<1>3. \E m \in S : \A n \in S : <<n, m>> \notin R
  BY <1>1, WFMin, Zenon
<1> QED BY <1>2, <1>3

LEMMA GreatestExists ==
    ASSUME NEW b \in Nat, NEW S \in SUBSET (0..b), S # {}
    PROVE  \E m \in S : \A n \in S : n <= m
<1> DEFINE T == {b - n : n \in S}
<1>1. T \in SUBSET Nat /\ T # {}
  <2>1. \A n \in S : b - n \in Nat
    OBVIOUS
  <2>2. PICK n \in S : TRUE
    OBVIOUS
  <2>3. b - n \in T
    BY <2>2
  <2> QED BY <2>1, <2>3
<1>2. PICK t \in T : \A u \in T : t <= u
  BY <1>1, LeastExists, Zenon
<1>3. PICK m \in S : t = b - m
  BY <1>2
<1>4. \A n \in S : b - m <= b - n
  BY <1>2, <1>3
<1> QED BY <1>4

LEMMA ServedResource ==
    ASSUME NEW t \in Served
    PROVE  \E i \in DOMAIN Resources : pluginResources[t] = Resources[i]
<1>1. Resources \in Seq(PluginResource) /\ Len(Resources) \in Nat
  BY ResourcesAssumption, LenProperties
<1>2. Supporting(t) \subseteq DOMAIN Resources /\ Supporting(t) # {}
  BY DEF Served, Supporting
<1>3. Supporting(t) \in SUBSET (0..Len(Resources))
  BY <1>1, <1>2, LenProperties
<1>4. \E i \in Supporting(t) : \A j \in Supporting(t) : j <= i
  BY <1>1, <1>2, <1>3, GreatestExists, Zenon
<1>5. (CHOOSE i \in Supporting(t) : \A j \in Supporting(t) : j <= i) \in Supporting(t)
  BY <1>4, Zenon
<1> QED BY <1>2, <1>5, Zenon DEF pluginResources

LEMMA ResourceType ==
    ASSUME NEW t \in Served
    PROVE  pluginResources[t] \in PluginResource
BY ServedResource, ResourcesAssumption, ElementOfSeq, LenProperties

\* What a plugin says it supports, some resource of it serves: the operator
\* registers it for no type (GetTypes) whose requests the aggregate could not
\* dispatch.
THEOREM SupportedIsServed == GetSupportedTypes \subseteq Served
<1> SUFFICES ASSUME NEW t \in GetSupportedTypes
             PROVE  t \in Served
  OBVIOUS
<1>1. PICK u \in Served : t \in pluginResources[u].types
  BY DEF GetSupportedTypes
<1>2. PICK i \in DOMAIN Resources : pluginResources[u] = Resources[i]
  BY ServedResource
<1>3. t \in Types
  BY <1>1, ResourceType DEF PluginResource
<1>4. i \in Supporting(t)
  BY <1>1, <1>2 DEF Supporting
<1> QED BY <1>3, <1>4 DEF Served

LEMMA DependentsTypes ==
    ASSUME NEW o \in Specs, o.type \in Served
    PROVE  /\ GetDependentResourcesWith(o) \in Seq(Deps)
           /\ GetDependentResourceTypes(o) \in Seq(Kinds)
           /\ DOMAIN GetDependentResourceTypes(o) = DOMAIN GetDependentResourcesWith(o)
<1> DEFINE dependents == GetDependentResourcesWith(o)
<1>1. dependents \in Seq(Deps)
  BY ResourceType DEF GetDependentResourcesWith, PluginResource, Specs
<1>2. \A i \in DOMAIN dependents : Config[dependents[i]].kind \in Kinds
  BY <1>1, ConfigsAssumption, ElementOfSeq, LenProperties DEF Configs
<1>3. GetDependentResourceTypes(o) = [i \in DOMAIN dependents |-> Config[dependents[i]].kind]
  BY DEF GetDependentResourceTypes
<1>4. DOMAIN dependents = 1..Len(dependents) /\ Len(dependents) \in Nat
  BY <1>1, LenProperties
<1> HIDE DEF dependents
<1>5. GetDependentResourceTypes(o) \in [1..Len(dependents) -> Kinds]
  BY <1>2, <1>3, <1>4
<1>6. GetDependentResourceTypes(o) \in Seq(Kinds)
  BY <1>4, <1>5, SeqDef
<1> QED BY <1>1, <1>3, <1>6 DEF dependents

LEMMA SubjectOfKind ==
    ASSUME NEW o \in Specs, o.type \in Served, NEW i \in DOMAIN GetDependentResourceTypes(o)
    PROVE  /\ Understood(o, GetDependentResourceTypes(o)[i])
           /\ dependentResourceFor(o, GetDependentResourceTypes(o)[i]) \in Deps
<1> DEFINE M == Matching(o, GetDependentResourceTypes(o)[i])
           dependents == GetDependentResourcesWith(o)
<1>1. dependents \in Seq(Deps) /\ i \in DOMAIN dependents
  BY DependentsTypes
<1>2. M \subseteq DOMAIN dependents /\ i \in M
  BY <1>1 DEF Matching
<1>3. M \in SUBSET Nat /\ M # {}
  BY <1>1, <1>2, LenProperties
<1>4. \E m \in M : \A n \in M : m <= n
  BY <1>3, LeastExists
<1>5. (CHOOSE m \in M : \A n \in M : m <= n) \in M
  BY <1>4, Zenon
<1>6. dependentResourceFor(o, GetDependentResourceTypes(o)[i]) =
        dependents[CHOOSE m \in M : \A n \in M : m <= n]
  BY Zenon DEF dependentResourceFor
<1>7. dependents[CHOOSE m \in M : \A n \in M : m <= n] \in Deps
  BY <1>1, <1>2, <1>5, ElementOfSeq, LenProperties
<1>8. Understood(o, GetDependentResourceTypes(o)[i])
  BY <1>2 DEF Understood
<1> QED BY <1>6, <1>7, <1>8

(***************************************************************************)
(* The pass: what it asks about is what the plugin told this pass          *)
(***************************************************************************)
Looping == {"config", "dependent", "build", "update", "check", "condition"}
Calling == {"validity", "types"} \cup Looping

Attentive(w) ==
    /\ w.pc \in {"idle", "validity", "types"} => w.next = 1
    /\ w.pc \in Calling => w.owner.type \in Served
    /\ w.pc \in Looping => w.kinds = GetDependentResourceTypes(w.owner)
                           /\ w.next \in DOMAIN w.kinds
    /\ w.next = 1 \/ w.next \in DOMAIN w.kinds

WorkerOK(w) == w \in Workers /\ Attentive(w)

PassInv ==
    /\ TypeOK
    /\ plugin \in {"up", "gone"}
    /\ WorkerOK(worker)

LEMMA InitialTypes ==
    /\ NewStatus \in Statuses
    /\ NoObject \in Objects
    /\ WorkerOK(Idle)
<1>1. NewStatus \in Statuses
  BY DEF NewStatus, Statuses, Conditions
<1>2. PICK s \in UserSpecs : s \in Specs
  BY EnvironmentAssumption
<1>3. (CHOOSE u \in UserSpecs : TRUE) \in Specs
  BY EnvironmentAssumption
<1>4. s.want \in Wants
  BY <1>2 DEF Specs
<1>5. (CHOOSE w \in Wants : TRUE) \in Wants
  BY <1>4
<1>6. NoObject \in Objects
  BY <1>5 DEF NoObject, Objects
<1>7. Idle \in Workers
  <2>1. <<>> \in Seq(Kinds) /\ <<>> \in Seq(Configs \cup {ZeroConfig})
    OBVIOUS
  <2> QED BY <1>1, <1>3, <1>6, <2>1 DEF Idle, Workers
<1>8. Idle.pc = "idle" /\ Idle.next = 1
  BY DEF Idle
<1>9. Attentive(Idle)
  BY <1>8 DEF Attentive, Calling, Looping
<1> QED BY <1>1, <1>6, <1>7, <1>9 DEF WorkerOK

\* The loops over the dependents do not run past the last one.
LEMMA FollowingOK ==
    ASSUME NEW w, WorkerOK(w), w.pc \in Looping,
           NEW loop \in Looping, NEW after \in Looping \cup {"status"}
    PROVE  WorkerOK(Following(w, loop, after))
<1>1. w \in Workers /\ w.next \in Nat \ {0} /\ w.kinds \in Seq(Kinds)
  BY Zenon DEF WorkerOK, Workers
<1>2. w.next \in DOMAIN w.kinds /\ w.kinds = GetDependentResourceTypes(w.owner)
      /\ w.owner.type \in Served
  BY DEF WorkerOK, Attentive, Calling
<1>3. DOMAIN w.kinds = 1..Len(w.kinds) /\ Len(w.kinds) \in Nat
  BY <1>1, LenProperties
<1>4. loop \in Looping /\ after \in Looping \cup {"status"}
  OBVIOUS
<1>5. CASE w.next < Len(w.kinds)
  <2> DEFINE n == w.next + 1
             v == [w EXCEPT !.pc = loop, !.next = n]
  <2>1. n \in DOMAIN w.kinds /\ n \in Nat \ {0}
    BY <1>1, <1>3, <1>5
  <2>2. Following(w, loop, after) = v
    BY <1>5 DEF Following
  <2> HIDE DEF n
  <2>3. v \in Workers
    BY <1>1, <1>4, <2>1, Zenon DEF Workers, Looping
  <2>4. v.pc = loop /\ v.next = n /\ v.owner = w.owner /\ v.kinds = w.kinds
    BY <1>1 DEF Workers
  <2>5. loop \notin {"idle", "validity", "types"}
    BY <1>4 DEF Looping
  <2> HIDE DEF v
  <2>6. Attentive(v)
    BY <1>2, <2>1, <2>4, <2>5 DEF Attentive
  <2> QED BY <2>2, <2>3, <2>6 DEF WorkerOK
<1>6. CASE ~(w.next < Len(w.kinds))
  <2> DEFINE v == [w EXCEPT !.pc = after, !.next = 1]
  <2>1. 1 \in DOMAIN w.kinds
    BY <1>2, <1>3
  <2>2. Following(w, loop, after) = v
    BY <1>6 DEF Following
  <2>3. v \in Workers
    <3>1. 1 \in Nat \ {0}
      OBVIOUS
    <3> QED BY <1>1, <1>4, <3>1, Zenon DEF Workers, Looping
  <2>4. v.pc = after /\ v.next = 1 /\ v.owner = w.owner /\ v.kinds = w.kinds
    BY <1>1 DEF Workers
  <2> HIDE DEF v
  <2>5. Attentive(v)
    BY <1>2, <2>1, <2>4 DEF Attentive
  <2> QED BY <2>2, <2>3, <2>5 DEF WorkerOK
<1> QED BY <1>5, <1>6

LEMMA ReportOK ==
    ASSUME WorkerOK(worker), NEW e \in Names \cup {"none", "invalid"}, Report(e)
    PROVE  WorkerOK(worker')
<1>1. CASE worker' = Idle
  BY <1>1, InitialTypes
<1>2. CASE worker' = [worker EXCEPT !.pc = "status", !.status.message = e, !.changed = TRUE]
  <2> DEFINE s == [worker.status EXCEPT !.message = e]
             v == [worker EXCEPT !.pc = "status", !.status = s, !.changed = TRUE]
  <2>1. worker \in Workers /\ worker.status \in Statuses
    BY DEF WorkerOK, Workers
  <2>2. s \in Statuses
    BY <2>1 DEF Statuses
  <2>3. worker' = v
    BY <1>2, <2>1 DEF Workers
  <2> HIDE DEF s
  <2>4. v \in Workers
    BY <2>1, <2>2, Zenon DEF Workers
  <2>5. v.pc = "status" /\ v.next = worker.next /\ v.kinds = worker.kinds
    BY <2>1 DEF Workers
  <2> HIDE DEF v
  <2>6. Attentive(v)
    BY <2>5 DEF WorkerOK, Attentive, Calling, Looping
  <2> QED BY <2>3, <2>4, <2>6 DEF WorkerOK
<1> QED BY <1>1, <1>2 DEF Report

LEMMA SetConditionOK ==
    ASSUME NEW w, WorkerOK(w), NEW name \in Names, NEW condition \in Conditions
    PROVE  WorkerOK(SetCondition(w, name, condition))
           /\ SetCondition(w, name, condition).pc = w.pc
<1> DEFINE recorded == [message |-> "none",
                        conditions |-> [w.status.conditions EXCEPT ![name] = condition]]
           c == (recorded # w.status)
           v == [w EXCEPT !.status = recorded, !.changed = c]
<1>1. w \in Workers /\ w.status \in Statuses
  BY DEF WorkerOK, Workers
<1>2. recorded \in Statuses
  BY <1>1 DEF Statuses
<1>3. SetCondition(w, name, condition) = IF w.changed THEN w ELSE v
  BY DEF SetCondition
<1>4. c \in BOOLEAN
  OBVIOUS
<1> HIDE DEF recorded, c
<1>5. v \in Workers
  BY <1>1, <1>2, <1>4, Zenon DEF Workers
<1>6. v.pc = w.pc /\ v.next = w.next /\ v.owner = w.owner /\ v.kinds = w.kinds
  BY <1>1 DEF Workers
<1> HIDE DEF v
<1>7. WorkerOK(v)
  BY <1>5, <1>6 DEF WorkerOK, Attentive
<1> QED BY <1>3, <1>6, <1>7

\* What a pass asks, the server understands.
LEMMA PassIsUnderstood ==
    ASSUME PassInv, worker.pc \in Calling
    PROVE  /\ Comprehensible
           /\ worker.pc \in Looping => Subject \in Deps
<1>1. worker \in Workers /\ worker.owner \in Specs
  BY DEF PassInv, WorkerOK, Workers
<1>2. Request.type \in Served
  BY <1>1 DEF PassInv, WorkerOK, Attentive, Request
<1>3. ASSUME worker.pc \in Looping
      PROVE  Understood(Request, Target) /\ Subject \in Deps
  <2>1. worker.kinds = GetDependentResourceTypes(worker.owner)
        /\ worker.next \in DOMAIN worker.kinds
    BY <1>3 DEF PassInv, WorkerOK, Attentive
  <2> QED BY <1>1, <1>2, <2>1, SubjectOfKind DEF Request, Target, Subject
<1>4. Comprehensible
  BY <1>2, <1>3 DEF Comprehensible, Calling, Looping
<1> QED BY <1>3, <1>4

\* No call of a pass makes the server panic.
LEMMA CallIsUnderstood ==
    ASSUME PassInv, NEW pc \in Calling, CallAt(pc)
    PROVE  /\ worker.pc = pc /\ plugin' = plugin
           /\ pc \in Looping => Subject \in Deps
BY PassIsUnderstood DEF CallAt, AfterCall

(***************************************************************************)
(* One step                                                                *)
(***************************************************************************)
LEMMA BoundsTypes ==
    ASSUME TypeOK
    PROVE  /\ \A site : Fails(site) => left' \in [disturbances: 0..MaxDisturbances,
                                                  faults: 0..MaxFaults, deaths: 0..MaxDeaths]
           /\ Disturb => left' \in [disturbances: 0..MaxDisturbances,
                                    faults: 0..MaxFaults, deaths: 0..MaxDeaths]
           /\ PluginDies => left' \in [disturbances: 0..MaxDisturbances,
                                       faults: 0..MaxFaults, deaths: 0..MaxDeaths]
BY BoundsAssumption DEF TypeOK, Fails, Disturb, PluginDies

\* The calls before the dependents are handled.
LEMMA CallsKeepInvariant ==
    ASSUME PassInv, ClientCheckValidity \/ ReadyFor \/ ClientGetConfig
    PROVE  PassInv'
<1>1. worker \in Workers /\ UNCHANGED <<cluster, left>>
  BY DEF PassInv, WorkerOK, ClientCheckValidity, ReadyFor, ClientGetConfig
<1>2. CASE ClientCheckValidity
  <2>1. worker.pc = "validity" /\ plugin' = plugin
    BY <1>2, CallIsUnderstood DEF ClientCheckValidity, Calling
  <2>2. CASE Report("invalid")
    <3>1. WorkerOK(worker')
      BY <2>2, ReportOK DEF PassInv
    <3> QED BY <1>1, <2>1, <3>1 DEF PassInv, TypeOK, cluster, WorkerOK, Attentive
  <2>3. CASE worker' = [worker EXCEPT !.pc = "types"]
    <3> DEFINE v == [worker EXCEPT !.pc = "types"]
    <3>1. v \in Workers
      BY <1>1, Zenon DEF Workers
    <3>2. v.pc = "types" /\ v.next = worker.next /\ v.owner = worker.owner
          /\ v.kinds = worker.kinds
      BY <1>1 DEF Workers
    <3> HIDE DEF v
    <3>3. WorkerOK(v)
      BY <2>1, <3>1, <3>2 DEF PassInv, WorkerOK, Attentive, Calling, Looping
    <3>4. WorkerOK(worker')
      BY <2>3, <3>3 DEF v
    <3> QED BY <1>1, <2>1, <3>4 DEF PassInv, TypeOK, cluster, WorkerOK, Attentive
  <2> QED BY <1>2, <2>2, <2>3 DEF ClientCheckValidity
<1>3. CASE ReadyFor
  <2>1. worker.pc = "types" /\ plugin' = plugin
    BY <1>3, CallIsUnderstood DEF ReadyFor, Calling
  <2>2. worker.owner.type \in Served /\ worker.next = 1 /\ worker.owner \in Specs
    BY <1>1, <2>1 DEF PassInv, WorkerOK, Attentive, Calling, Workers
  <2>3. PICK answered \in Answers :
          LET kinds == IF answered THEN GetDependentResourceTypes(Request) ELSE <<>>
          IN  worker' = [worker EXCEPT !.kinds = kinds,
                               !.pc = IF kinds = <<>> THEN "status" ELSE "config"]
    BY <1>3 DEF ReadyFor
  <2> DEFINE kinds == IF answered THEN GetDependentResourceTypes(Request) ELSE <<>>
             pc == IF kinds = <<>> THEN "status" ELSE "config"
             v == [worker EXCEPT !.kinds = kinds, !.pc = pc]
  <2>4. kinds \in Seq(Kinds)
        /\ (kinds # <<>> => kinds = GetDependentResourceTypes(worker.owner))
    BY <2>2, DependentsTypes DEF Request
  <2>5. worker' = v
    BY <2>3
  <2>6. pc \in {"status", "config"} /\ (pc = "config" => kinds # <<>>)
    OBVIOUS
  <2> HIDE DEF kinds, pc
  <2>7. v \in Workers
    BY <1>1, <2>4, <2>6, Zenon DEF Workers
  <2>8. v.pc = pc /\ v.next = worker.next /\ v.owner = worker.owner /\ v.kinds = kinds
    BY <1>1 DEF Workers
  <2>9. kinds # <<>> => 1 \in DOMAIN kinds
    BY <2>4, EmptySeq, LenProperties
  <2> HIDE DEF v
  <2>10. WorkerOK(v)
    BY <2>2, <2>4, <2>6, <2>7, <2>8, <2>9 DEF WorkerOK, Attentive, Calling, Looping
  <2>11. WorkerOK(worker')
    BY <2>5, <2>10
  <2> QED BY <1>1, <2>1, <2>11 DEF PassInv, TypeOK, cluster, WorkerOK, Attentive
<1>4. CASE ClientGetConfig
  <2>1. worker.pc = "config" /\ plugin' = plugin /\ Subject \in Deps
    BY <1>4, CallIsUnderstood DEF ClientGetConfig, Calling, Looping
  <2>2. PICK answered \in Answers :
          worker' = Following([worker EXCEPT !.configs = Append(@,
                        IF answered THEN Config[Subject] ELSE ZeroConfig)],
                              "config", "dependent")
    BY <1>4 DEF ClientGetConfig
  <2> DEFINE config == IF answered THEN Config[Subject] ELSE ZeroConfig
             configs == Append(worker.configs, config)
             v == [worker EXCEPT !.configs = configs]
  <2>3. config \in Configs \cup {ZeroConfig}
    BY <2>1, ConfigsAssumption
  <2>4. worker.configs \in Seq(Configs \cup {ZeroConfig})
    BY <1>1 DEF Workers
  <2> HIDE DEF config
  <2>5. configs \in Seq(Configs \cup {ZeroConfig})
    BY <2>3, <2>4, AppendProperties
  <2>6. worker' = Following(v, "config", "dependent")
    BY <1>1, <2>2 DEF Workers, config
  <2> HIDE DEF configs
  <2>7. v \in Workers
    BY <1>1, <2>5, Zenon DEF Workers
  <2>8. v.pc = worker.pc /\ v.next = worker.next /\ v.owner = worker.owner
        /\ v.kinds = worker.kinds
    BY <1>1 DEF Workers
  <2> HIDE DEF v
  <2>9. WorkerOK(v) /\ v.pc \in Looping
    BY <2>1, <2>7, <2>8 DEF PassInv, WorkerOK, Attentive, Looping
  <2>10. WorkerOK(worker')
    BY <2>6, <2>9, FollowingOK DEF Looping
  <2> QED BY <1>1, <2>1, <2>10 DEF PassInv, TypeOK, cluster, WorkerOK, Attentive
<1> QED BY <1>2, <1>3, <1>4

LEMMA MeetingOK ==
    ASSUME PassInv, NEW d \in Deps
    PROVE  WorkerOK(Meeting(d)) /\ Meeting(d).pc = worker.pc
<1> DEFINE m == worker.met \cup {d}
           v == [worker EXCEPT !.met = m]
<1>1. worker \in Workers /\ worker.met \in SUBSET Deps
  BY DEF PassInv, WorkerOK, Workers
<1>2. Meeting(d) = v
  BY <1>1 DEF Meeting, Workers
<1>3. m \in SUBSET Deps
  BY <1>1
<1> HIDE DEF m
<1>4. v \in Workers
  BY <1>1, <1>3, Zenon DEF Workers
<1>5. v.pc = worker.pc /\ v.next = worker.next /\ v.owner = worker.owner
      /\ v.kinds = worker.kinds
  BY <1>1 DEF Workers
<1> HIDE DEF v
<1> QED BY <1>2, <1>4, <1>5 DEF PassInv, WorkerOK, Attentive

\* One loop call leads to another.
LEMMA MovingOK ==
    ASSUME NEW w, WorkerOK(w), w.pc \in Looping, NEW pc \in Looping
    PROVE  WorkerOK([w EXCEPT !.pc = pc])
<1> DEFINE v == [w EXCEPT !.pc = pc]
<1>1. w \in Workers /\ pc \in Looping
  BY DEF WorkerOK
<1>2. v \in Workers
  BY <1>1, Zenon DEF Workers, Looping
<1>3. v.pc = pc /\ v.next = w.next /\ v.owner = w.owner /\ v.kinds = w.kinds
  BY <1>1 DEF Workers
<1> HIDE DEF v
<1>4. Attentive(v)
  BY <1>3 DEF WorkerOK, Attentive, Calling, Looping
<1> QED BY <1>2, <1>4 DEF WorkerOK, v

LEMMA CreateOrUpdateKeepsInvariant ==
    ASSUME PassInv,
           CreateOrUpdateExits \/ FetchDependent \/ BuildAndCreate \/ BuildsNothing
             \/ Update \/ UpdatesNothing
    PROVE  PassInv'
<1>1. worker \in Workers /\ WorkerOK(worker) /\ object \in [Deps -> Objects] /\ TypeOK
  BY DEF PassInv, WorkerOK, TypeOK
<1>2. CASE CreateOrUpdateExits
  <2>1. WorkerOK(worker')
    BY <1>1, <1>2, FollowingOK DEF CreateOrUpdateExits, NextDependent, Looping
  <2> QED BY <1>2, <2>1 DEF PassInv, TypeOK, CreateOrUpdateExits, cluster, WorkerOK, Attentive
<1>3. CASE FetchDependent
  <2>1. worker.pc = "dependent" /\ plugin' = plugin /\ Subject \in Deps
    BY <1>3, CallIsUnderstood DEF FetchDependent, Calling, Looping
  <2>2. WorkerOK(Meeting(Subject)) /\ Meeting(Subject).pc = "dependent"
    BY <2>1, MeetingOK
  <2>3. WorkerOK(NextDependent(Meeting(Subject)))
    BY <2>2, FollowingOK DEF NextDependent, Looping
  <2> DEFINE v == [Meeting(Subject) EXCEPT !.pc = "update",
                        !.fetched = object[Subject], !.fresh = {Subject}]
  <2>4. WorkerOK(v)
    <3>1. object[Subject] \in Objects /\ {Subject} \in SUBSET Deps
      BY <1>1, <2>1
    <3>2. Meeting(Subject) \in Workers
      BY <2>2 DEF WorkerOK
    <3>3. v \in Workers
      BY <3>1, <3>2, Zenon DEF Workers
    <3>4. v.pc = "update" /\ v.next = Meeting(Subject).next
          /\ v.owner = Meeting(Subject).owner /\ v.kinds = Meeting(Subject).kinds
      BY <3>2 DEF Workers
    <3> HIDE DEF v
    <3> QED BY <2>2, <3>3, <3>4 DEF WorkerOK, Attentive, Calling, Looping
  <2>5. WorkerOK([worker EXCEPT !.pc = "build"])
    BY <1>1, <2>1, MovingOK DEF Looping
  <2>6. \A answered \in BOOLEAN : Name(answered) \in Names /\ Subject \in Names
    BY <2>1 DEF Name, Names
  <2>7. WorkerOK(worker')
    <3>1. \/ worker' \in {NextDependent(Meeting(Subject)), v, [worker EXCEPT !.pc = "build"]}
          \/ Report(Subject)
          \/ \E answered \in BOOLEAN : Report(Name(answered))
      BY <1>3 DEF FetchDependent, Answers
    <3>2. ASSUME NEW e \in Names, Report(e)
          PROVE  WorkerOK(worker')
      BY <1>1, <3>2, ReportOK
    <3> QED BY <2>3, <2>4, <2>5, <2>6, <3>1, <3>2
  <2>8. left' = left \/ Fails("get")
    BY <1>3 DEF FetchDependent
  <2> QED BY <1>1, <1>3, <2>1, <2>7, <2>8, BoundsTypes
          DEF PassInv, TypeOK, FetchDependent, cluster, WorkerOK, Attentive
<1>4. CASE BuildAndCreate
  <2>1. worker.pc = "build" /\ plugin' = plugin /\ Subject \in Deps
    BY <1>4, CallIsUnderstood DEF BuildAndCreate, Calling, Looping
  <2>2. WorkerOK(NextDependent(Meeting(Subject)))
    BY <2>1, MeetingOK, FollowingOK DEF NextDependent, Looping
  <2> DEFINE created == IF object[Subject].exists THEN object
                        ELSE [object EXCEPT ![Subject] = Built]
  <2>3. worker.owner.want \in Wants
    BY <1>1 DEF Workers, Specs
  <2>4. Built \in Objects
    BY <2>3 DEF Built, Objects, Request
  <2>5. created \in [Deps -> Objects]
    BY <1>1, <2>4
  <2>6. /\ worker' = NextDependent(Meeting(Subject)) \/ Report(Subject)
        /\ left' = left \/ Fails("create")
        /\ object' \in {object, created}
    BY <1>4 DEF BuildAndCreate
  <2>7. WorkerOK(worker')
    BY <1>1, <2>1, <2>2, <2>6, ReportOK DEF Names
  <2>8. existed' \subseteq Deps
    BY <1>1, <1>4 DEF BuildAndCreate, TypeOK
  <2> HIDE DEF created
  <2> QED BY <1>1, <1>4, <2>1, <2>5, <2>6, <2>7, <2>8, BoundsTypes
          DEF PassInv, TypeOK, BuildAndCreate, WorkerOK, Attentive
<1>5. CASE BuildsNothing
  <2>1. worker.pc = "build" /\ (left' = left \/ Fails("build"))
    BY <1>5 DEF BuildsNothing
  <2>2. Name(TRUE \in Answers) \in Names
    BY <2>1, PassIsUnderstood DEF Name, Names, Calling, Looping
  <2>3. WorkerOK(worker') /\ plugin' \in {plugin, "up"}
    BY <1>1, <1>5, <2>2, PassIsUnderstood, InitialTypes, ReportOK
       DEF BuildsNothing, CallAt, AfterCall, Calling, Looping
  <2> QED BY <1>1, <1>5, <2>1, <2>3, BoundsTypes
          DEF PassInv, TypeOK, BuildsNothing, cluster, WorkerOK, Attentive
<1>6. CASE Update
  <2>1. worker.pc = "update" /\ plugin' = plugin /\ Subject \in Deps
    BY <1>6, CallIsUnderstood DEF Update, Calling, Looping
  <2>2. WorkerOK(NextDependent(worker))
    BY <1>1, <2>1, FollowingOK DEF NextDependent, Looping
  <2> DEFINE o == [worker.fetched EXCEPT !.content = Request.want]
  <2>3. o \in Objects
    BY <1>1 DEF Request, Workers, Specs, Objects
  <2>4. /\ worker' = NextDependent(worker) \/ Report(Subject)
        /\ left' = left \/ Fails("store")
        /\ object' \in {object, [object EXCEPT ![Subject] = o]}
    BY <1>6 DEF Update
  <2>5. WorkerOK(worker')
    BY <1>1, <2>1, <2>2, <2>4, ReportOK DEF Names
  <2> HIDE DEF o
  <2>6. object' \in [Deps -> Objects]
    BY <1>1, <2>3, <2>4
  <2> QED BY <1>1, <1>6, <2>1, <2>4, <2>5, <2>6, BoundsTypes
          DEF PassInv, TypeOK, Update, WorkerOK, Attentive
<1>7. CASE UpdatesNothing
  <2>1. worker.pc = "update" /\ plugin' = plugin
    BY <1>7, CallIsUnderstood DEF UpdatesNothing, Calling, Looping
  <2>2. WorkerOK(worker')
    BY <1>1, <1>7, <2>1, FollowingOK DEF UpdatesNothing, NextDependent, Looping
  <2>3. left' = left \/ Fails("update")
    BY <1>7 DEF UpdatesNothing
  <2> QED BY <1>1, <1>7, <2>1, <2>2, <2>3, BoundsTypes
          DEF PassInv, TypeOK, UpdatesNothing, cluster, WorkerOK, Attentive
<1> QED BY <1>2, <1>3, <1>4, <1>5, <1>6, <1>7

LEMMA ComputeStatusKeepsInvariant ==
    ASSUME PassInv, NotChecked \/ FetchChecked \/ ClientGetCondition \/ WriteStatus
    PROVE  PassInv'
<1>1. worker \in Workers /\ WorkerOK(worker) /\ object \in [Deps -> Objects] /\ TypeOK
  BY DEF PassInv, WorkerOK, TypeOK
<1>2. CASE NotChecked
  <2>1. WorkerOK(worker')
    BY <1>1, <1>2, FollowingOK DEF NotChecked, NextCheck, Looping
  <2> QED BY <1>2, <2>1 DEF PassInv, TypeOK, NotChecked, cluster, WorkerOK, Attentive
<1>3. CASE FetchChecked
  <2>1. worker.pc = "check" /\ plugin' = plugin /\ Subject \in Deps
    BY <1>3, CallIsUnderstood DEF FetchChecked, Calling, Looping
  <2>2. ASSUME NEW w \in Workers, w.pc = "condition", w.next = worker.next,
               w.owner = worker.owner, w.kinds = worker.kinds
        PROVE  WorkerOK(w)
    BY <1>1, <2>1, <2>2 DEF WorkerOK, Attentive, Calling, Looping
  <2>3. ASSUME NEW o \in Objects, NEW outcome \in {"found", "notFound"}
        PROVE  WorkerOK([worker EXCEPT !.pc = "condition", !.fetched = o,
                                       !.outcome = outcome])
    <3> DEFINE w == [worker EXCEPT !.pc = "condition", !.fetched = o, !.outcome = outcome]
    <3>1. w \in Workers
      BY <1>1, Zenon DEF Workers
    <3>2. w.pc = "condition" /\ w.next = worker.next /\ w.owner = worker.owner
          /\ w.kinds = worker.kinds
      BY <1>1 DEF Workers
    <3> HIDE DEF w
    <3>3. WorkerOK(w)
      BY <2>2, <3>1, <3>2
    <3> QED BY <3>3 DEF w
  <2>4. WorkerOK([worker EXCEPT !.pc = "condition", !.outcome = "failed"])
    <3> DEFINE w == [worker EXCEPT !.pc = "condition", !.outcome = "failed"]
    <3>1. w \in Workers
      BY <1>1, Zenon DEF Workers
    <3>2. w.pc = "condition" /\ w.next = worker.next /\ w.owner = worker.owner
          /\ w.kinds = worker.kinds
      BY <1>1 DEF Workers
    <3> HIDE DEF w
    <3>3. WorkerOK(w)
      BY <2>2, <3>1, <3>2
    <3> QED BY <3>3 DEF w
  <2>5. WorkerOK(worker')
    <3>1. \/ \E outcome \in {"found", "notFound"} :
               worker' = [worker EXCEPT !.pc = "condition", !.fetched = object[Subject],
                                        !.outcome = outcome]
          \/ worker' = [worker EXCEPT !.pc = "condition", !.outcome = "failed"]
      BY <1>3 DEF FetchChecked
    <3>2. object[Subject] \in Objects
      BY <1>1, <2>1
    <3> QED BY <2>3, <2>4, <3>1, <3>2
  <2>6. left' = left \/ Fails("get")
    BY <1>3 DEF FetchChecked
  <2> QED BY <1>1, <1>3, <2>1, <2>5, <2>6, BoundsTypes
          DEF PassInv, TypeOK, FetchChecked, cluster, WorkerOK, Attentive
<1>4. CASE ClientGetCondition
  <2>1. worker.pc = "condition" /\ plugin' = plugin /\ Subject \in Deps
    BY <1>4, CallIsUnderstood DEF ClientGetCondition, Calling, Looping
  <2>2. \E name \in Names, condition \in Conditions :
          worker' = NextCheck(SetCondition(worker, name, condition))
    <3>1. PICK answered \in Answers :
            worker' = NextCheck(SetCondition(worker, Name(answered),
                CASE worker.outcome = "failed" -> "Failed"
                  [] worker.outcome = "found" /\ ~answered -> "Blank"
                  [] OTHER -> ConditionOf(worker.fetched)))
      BY <1>4 DEF ClientGetCondition
    <3>2. Name(answered) \in Names
      BY <2>1 DEF Name, Names
    <3>3. (CASE worker.outcome = "failed" -> "Failed"
             [] worker.outcome = "found" /\ ~answered -> "Blank"
             [] OTHER -> ConditionOf(worker.fetched)) \in Conditions
      BY DEF ConditionOf, Conditions
    <3> QED BY <3>1, <3>2, <3>3
  <2>3. PICK name \in Names, condition \in Conditions :
          worker' = NextCheck(SetCondition(worker, name, condition))
    BY <2>2
  <2>4. WorkerOK(worker')
    BY <1>1, <2>1, <2>3, SetConditionOK, FollowingOK DEF NextCheck, Looping
  <2> QED BY <1>1, <1>4, <2>1, <2>4
          DEF PassInv, TypeOK, ClientGetCondition, cluster, WorkerOK, Attentive
<1>5. CASE WriteStatus
  <2>1. /\ worker' = Idle
        /\ status' \in {status, worker.status}
        /\ left' = left \/ Fails("status")
    BY <1>5 DEF WriteStatus
  <2>2. status' \in Statuses
    BY <1>1, <2>1 DEF TypeOK, Workers
  <2> QED BY <1>1, <1>5, <2>1, <2>2, InitialTypes, BoundsTypes
          DEF PassInv, TypeOK, WriteStatus, WorkerOK, Attentive
<1> QED BY <1>2, <1>3, <1>4, <1>5

LEMMA EnvironmentKeepsInvariant ==
    ASSUME PassInv, Environment
    PROVE  PassInv'
<1>1. worker \in Workers /\ WorkerOK(worker) /\ object \in [Deps -> Objects] /\ TypeOK
  BY DEF PassInv, WorkerOK, TypeOK
<1>2. CASE UserEdits
  <2> DEFINE v == [worker EXCEPT !.resFresh = FALSE]
  <2>1. v \in Workers
    BY <1>1, Zenon DEF Workers
  <2>2. v.pc = worker.pc /\ v.next = worker.next /\ v.owner = worker.owner
        /\ v.kinds = worker.kinds
    BY <1>1 DEF Workers
  <2>3. worker' = v /\ capability' \in Specs
    BY <1>2, EnvironmentAssumption DEF UserEdits
  <2> HIDE DEF v
  <2>4. WorkerOK(worker')
    BY <1>1, <2>1, <2>2, <2>3 DEF WorkerOK, Attentive
  <2> QED BY <1>1, <1>2, <2>3, <2>4, BoundsTypes
          DEF PassInv, TypeOK, UserEdits, WorkerOK, Attentive
<1>3. ASSUME NEW d \in Deps, NEW o \in Objects, ObjectChanges(d, o)
      PROVE  PassInv'
  <2> DEFINE fresh == worker.fresh \ {d}
             v == [worker EXCEPT !.fresh = fresh]
  <2>1. fresh \in SUBSET Deps
    BY <1>1 DEF Workers
  <2>2. worker' = v
    BY <1>1, <1>3 DEF ObjectChanges, Workers
  <2> HIDE DEF fresh
  <2>3. v \in Workers
    BY <1>1, <2>1, Zenon DEF Workers
  <2>4. v.pc = worker.pc /\ v.next = worker.next /\ v.owner = worker.owner
        /\ v.kinds = worker.kinds
    BY <1>1 DEF Workers
  <2> HIDE DEF v
  <2>5. WorkerOK(worker')
    BY <1>1, <2>2, <2>3, <2>4 DEF WorkerOK, Attentive
  <2>6. object' \in [Deps -> Objects] /\ existed' \subseteq Deps
    BY <1>1, <1>3 DEF ObjectChanges, TypeOK
  <2> QED BY <1>1, <1>3, <2>5, <2>6, BoundsTypes
          DEF PassInv, TypeOK, ObjectChanges, WorkerOK, Attentive
<1>4. ASSUME NEW d \in Deps, OthersTouch(d) \/ OthersDelete(d) \/ OthersCreate(d)
      PROVE  PassInv'
  <2>1. object[d] \in Objects
    BY <1>1
  <2>2. [object[d] EXCEPT !.ready = ~@] \in Objects
    BY <2>1 DEF Objects
  <2>3. \A c \in Wants : /\ [object[d] EXCEPT !.content = c] \in Objects
                         /\ [exists |-> TRUE, content |-> c, ready |-> FALSE] \in Objects
    BY <2>1 DEF Objects
  <2> QED BY <1>3, <1>4, <2>2, <2>3, InitialTypes
          DEF OthersTouch, OthersDelete, OthersCreate
<1>5. CASE PluginDies
  BY <1>1, <1>5, BoundsTypes DEF PassInv, TypeOK, PluginDies, cluster, WorkerOK, Attentive
<1>6. CASE Restart
  <2>1. worker' = Idle /\ plugin' = "up" /\ (left' = left \/ Disturb)
    BY <1>6 DEF Restart, Restarted
  <2> QED BY <1>1, <1>6, <2>1, InitialTypes, BoundsTypes
          DEF PassInv, TypeOK, Restart, cluster, WorkerOK, Attentive
<1> QED BY <1>2, <1>4, <1>5, <1>6 DEF Environment

-----------------------------------------------------------------------------
LEMMA StartKeepsInvariant ==
    ASSUME PassInv, StartPass
    PROVE  PassInv'
<1> DEFINE v == [Idle EXCEPT !.pc = "validity", !.owner = capability,
                              !.status = status, !.resFresh = TRUE]
<1>1. Idle \in Workers /\ Idle.next = 1 /\ capability \in Specs /\ status \in Statuses
  BY InitialTypes DEF WorkerOK, Idle, PassInv, TypeOK
<1>2. v \in Workers
  BY <1>1, Zenon DEF Workers
<1>3. v.pc = "validity" /\ v.next = 1 /\ v.owner = capability
  BY <1>1 DEF Workers
<1>4. worker' = v /\ capability.type \in Served
  BY SupportedIsServed DEF StartPass
<1> HIDE DEF v
<1>5. WorkerOK(worker')
  BY <1>2, <1>3, <1>4 DEF WorkerOK, Attentive, Looping
<1> QED BY <1>5 DEF PassInv, TypeOK, StartPass, cluster, WorkerOK, Attentive

LEMMA PassInvariant == Spec => []PassInv
<1>1. Init => PassInv
  <2> SUFFICES ASSUME Init
               PROVE  PassInv
    OBVIOUS
  <2>1. capability \in Specs
    BY EnvironmentAssumption DEF Init
  <2> QED BY <2>1, InitialTypes, BoundsAssumption
          DEF Init, PassInv, TypeOK, WorkerOK, Attentive
<1>2. PassInv /\ [Next]_vars => PassInv'
  <2> SUFFICES ASSUME PassInv, [Next]_vars
               PROVE  PassInv'
    OBVIOUS
  <2>1. CASE UNCHANGED vars
    BY <2>1 DEF PassInv, TypeOK, vars, cluster, WorkerOK, Attentive
  <2>2. CASE Pass
    BY <2>2, StartKeepsInvariant, CallsKeepInvariant, CreateOrUpdateKeepsInvariant,
       ComputeStatusKeepsInvariant DEF Pass
  <2>3. CASE Environment
    BY <2>3, EnvironmentKeepsInvariant
  <2> QED BY <2>1, <2>2, <2>3 DEF Next
<1> QED BY <1>1, <1>2, PTL DEF Spec

\* The state keeps its types, through failures, restarts and changes of the
\* capability.
THEOREM PluginTypes == Spec => []TypeOK
<1>1. PassInv => TypeOK
  BY DEF PassInv
<1> QED BY <1>1, PassInvariant, PTL

\* For any plugin resources, however they share types and kinds: what the
\* operator asks (dependent.go) is about a type the aggregate serves and a
\* kind it said the owner has, so requestedDependent (server.go) finds it.
THEOREM ServerIsNotMadeToPanic == Spec => []ServerNeverPanics
<1>1. PassInv => ServerNeverPanics
  BY DEF PassInv, ServerNeverPanics
<1> QED BY <1>1, PassInvariant, PTL
=============================================================================
