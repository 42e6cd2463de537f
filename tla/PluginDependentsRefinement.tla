---------------------- MODULE PluginDependentsRefinement ----------------------
(***************************************************************************)
(* PluginDependents passes over no dependent and implements Realisation,   *)
(* for any plugin whose dependents for one type differ in kind.            *)
(***************************************************************************)
EXTENDS PluginDependentsProofs

\* A request names a dependent by its kind and nothing else
\* (dependentResourceFor), so a plugin can only tell dependents apart that
\* differ in it.
OneOfEachKind ==
    \A t \in Served : \A i, j \in DOMAIN Provided(t) :
        Config[Provided(t)[i]].kind = Config[Provided(t)[j]].kind => i = j

(***************************************************************************)
(* What a pass knows of the dependents it goes through: while the plugin   *)
(* is up, all of it is what the plugin says.  Once the plugin is gone, it  *)
(* is gone for the rest of the pass, and nothing is known.                 *)
(***************************************************************************)
Handling == {"dependent", "build", "update"}
Checking == {"check", "condition"}

Provision(w) == Provided(w.owner.type)

Met(w, i) == Handled(Provision(w)[i]) => Provision(w)[i] \in w.met

Accepted(w) ==
    /\ w.pc \in Calling => w.owner \in UserSpecs /\ w.owner.type \in GetSupportedTypes
    /\ w.pc \in {"types"} \cup Looping => CheckValidity(w.owner)

Configured(w) ==
    /\ w.pc \in {"idle", "validity", "types"} => w.configs = <<>>
    /\ w.pc = "config" => Len(w.configs) = w.next - 1
    /\ w.pc \in Handling \cup Checking => Len(w.configs) = Len(w.kinds)
    /\ w.pc \in Looping =>
          \A i \in 1..Len(w.configs) : w.configs[i] = Config[Provision(w)[i]]

Processed(w) ==
    /\ w.pc \in Handling => \A i \in DOMAIN w.kinds : i < w.next => Met(w, i)
    /\ w.pc = "build" => w.configs[w.next].created
    /\ w.pc = "update" => Met(w, w.next)
    /\ w.pc \in Checking => \A i \in DOMAIN w.kinds : Met(w, i)

Informed(w) == Accepted(w) /\ Configured(w) /\ Processed(w)

InformedInv ==
    /\ PassInv
    /\ capability \in UserSpecs
    /\ plugin = "up" => Informed(worker)

(***************************************************************************)
(* One pass                                                                *)
(***************************************************************************)
LEMMA SubjectAtPosition ==
    ASSUME OneOfEachKind, PassInv, worker.pc \in Looping
    PROVE  /\ worker.next \in DOMAIN worker.kinds
           /\ DOMAIN worker.kinds = 1..Len(worker.kinds)
           /\ DOMAIN worker.kinds = DOMAIN Provision(worker)
           /\ worker.owner.type \in Served
           /\ Subject = Provision(worker)[worker.next]
<1> DEFINE o == worker.owner
           i == worker.next
           M == Matching(o, GetDependentResourceTypes(o)[i])
<1>1. /\ o \in Specs /\ o.type \in Served
      /\ worker.kinds = GetDependentResourceTypes(o)
      /\ i \in DOMAIN GetDependentResourceTypes(o)
  BY DEF PassInv, WorkerOK, Workers, Attentive, Calling
<1>2. /\ GetDependentResourcesWith(o) = Provided(o.type)
      /\ DOMAIN GetDependentResourceTypes(o) = DOMAIN Provided(o.type)
      /\ \A j \in DOMAIN Provided(o.type) :
            GetDependentResourceTypes(o)[j] = Config[Provided(o.type)[j]].kind
  BY DEF GetDependentResourcesWith, GetDependentResourceTypes, Provided
<1>3. i \in Nat /\ DOMAIN worker.kinds = 1..Len(worker.kinds)
  BY LenProperties DEF PassInv, WorkerOK, Workers
<1>4. M = {i}
  <2>1. /\ M = {j \in DOMAIN Provided(o.type) :
                GetDependentResourceTypes(o)[j] = GetDependentResourceTypes(o)[i]}
        /\ i \in DOMAIN Provided(o.type)
    BY <1>1, <1>2, Zenon DEF Matching
  <2>2. \A j \in DOMAIN Provided(o.type) :
           GetDependentResourceTypes(o)[j] = GetDependentResourceTypes(o)[i] => j = i
    BY <1>1, <1>2, <2>1 DEF OneOfEachKind
  <2> HIDE DEF o, i, M
  <2> QED BY <2>1, <2>2
<1>5. (CHOOSE j \in {i} : \A k \in {i} : j <= k) = i
  BY <1>3
<1>6. Subject = Provided(o.type)[CHOOSE j \in M : \A k \in M : j <= k]
  BY <1>1, <1>2, Zenon DEF Subject, Request, Target, dependentResourceFor
<1> QED BY <1>1, <1>2, <1>3, <1>4, <1>5, <1>6 DEF Provision

LEMMA FollowingFields ==
    ASSUME NEW w \in Workers, w.next \in DOMAIN w.kinds,
           NEW loop \in Looping, NEW after \in Looping \cup {"status"},
           NEW v, v = Following(w, loop, after)
    PROVE  /\ v.owner = w.owner /\ v.kinds = w.kinds /\ v.configs = w.configs
           /\ v.met = w.met /\ v.fetched = w.fetched /\ v.fresh = w.fresh
           /\ \/ v.pc = loop /\ v.next = w.next + 1
              \/ v.pc = after /\ v.next = 1 /\ w.next = Len(w.kinds)
<1>1. /\ w.next < Len(w.kinds) => v = [w EXCEPT !.pc = loop, !.next = w.next + 1]
      /\ ~(w.next < Len(w.kinds)) => v = [w EXCEPT !.pc = after, !.next = 1]
  BY DEF Following, Workers
<1>2. w.next <= Len(w.kinds) /\ w.next \in Nat /\ Len(w.kinds) \in Nat
  BY LenProperties DEF Workers
<1>3. CASE w.next < Len(w.kinds)
  <2> DEFINE n == w.next + 1
  <2>1. v = [w EXCEPT !.pc = loop, !.next = n]
    BY <1>1, <1>3
  <2> HIDE DEF n
  <2>2. /\ v.owner = w.owner /\ v.kinds = w.kinds /\ v.configs = w.configs
        /\ v.met = w.met /\ v.fetched = w.fetched /\ v.fresh = w.fresh
        /\ v.pc = loop /\ v.next = n
    BY <2>1, Zenon DEF Workers
  <2> QED BY <2>2 DEF n
<1>4. CASE ~(w.next < Len(w.kinds))
  <2>1. v = [w EXCEPT !.pc = after, !.next = 1]
    BY <1>1, <1>4
  <2>2. /\ v.owner = w.owner /\ v.kinds = w.kinds /\ v.configs = w.configs
        /\ v.met = w.met /\ v.fetched = w.fetched /\ v.fresh = w.fresh
        /\ v.pc = after /\ v.next = 1
    BY <2>1, Zenon DEF Workers
  <2>3. w.next = Len(w.kinds)
    BY <1>2, <1>4
  <2> QED BY <2>2, <2>3
<1> QED BY <1>3, <1>4

LEMMA NothingToKnow ==
    \A w : \/ w = Idle
           \/ w.pc = "status"
           => Informed(w)
<1>1. Idle.pc = "idle" /\ Idle.configs = <<>>
  BY DEF Idle
<1> QED BY <1>1 DEF Informed, Accepted, Configured, Processed, Calling, Looping, Handling, Checking

LEMMA ReportInforms ==
    ASSUME NEW e, PassInv, Report(e)
    PROVE  Informed(worker')
<1>1. worker \in Workers
  BY DEF PassInv, WorkerOK
<1>2. worker' = Idle \/ worker'.pc = "status"
  BY <1>1 DEF Report, Workers
<1> QED BY <1>2, NothingToKnow

\* The loops go on only past dependents that are dealt with.
LEMMA NextDependentInformed ==
    ASSUME NEW w, WorkerOK(w), w.pc \in Handling, Informed(w), Met(w, w.next)
    PROVE  Informed(NextDependent(w))
<1> DEFINE v == NextDependent(w)
<1>1. w \in Workers /\ w.next \in Nat /\ w.next \in DOMAIN w.kinds
      /\ DOMAIN w.kinds = 1..Len(w.kinds) /\ Len(w.kinds) \in Nat
  BY LenProperties DEF WorkerOK, Workers, Attentive, Looping, Handling
<1>2. /\ v.owner = w.owner /\ v.kinds = w.kinds /\ v.configs = w.configs /\ v.met = w.met
      /\ \/ v.pc = "dependent" /\ v.next = w.next + 1
         \/ v.pc = "check" /\ v.next = 1 /\ w.next = Len(w.kinds)
  BY <1>1, FollowingFields DEF NextDependent, Looping
<1> HIDE DEF v
<1>3. Accepted(v) /\ Configured(v)
  BY <1>2 DEF Informed, Accepted, Configured, Provision, Handling, Checking, Calling, Looping
<1>4. \A i : Met(w, i) => Met(v, i)
  BY <1>2 DEF Met, Provision
<1>5. Processed(v)
  BY <1>1, <1>2, <1>4 DEF Informed, Processed, Handling, Checking
<1> QED BY <1>3, <1>5 DEF Informed, v

LEMMA NextCheckInformed ==
    ASSUME NEW w, WorkerOK(w), w.pc \in Checking, Informed(w)
    PROVE  Informed(NextCheck(w))
<1> DEFINE v == NextCheck(w)
<1>1. w \in Workers /\ w.next \in DOMAIN w.kinds
  BY DEF WorkerOK, Attentive, Looping, Checking
<1>2. /\ v.owner = w.owner /\ v.kinds = w.kinds /\ v.configs = w.configs /\ v.met = w.met
      /\ v.pc \in {"check", "status"}
  BY <1>1, FollowingFields DEF NextCheck, Looping
<1> HIDE DEF v
<1>3. \A i : Met(w, i) => Met(v, i)
  BY <1>2 DEF Met, Provision
<1>4. Informed(v)
  BY <1>2, <1>3 DEF Informed, Accepted, Configured, Processed, Provision, Handling,
                    Checking, Calling, Looping
<1> QED BY <1>4 DEF v

\* While the plugin is up, it answers.
LEMMA UpAnswers ==
    ASSUME PassInv, worker.pc \in Calling, plugin = "up"
    PROVE  Answers = {TRUE}
BY PassIsUnderstood DEF Answers

\* The calls before the dependents are handled.
LEMMA CallsInform ==
    ASSUME OneOfEachKind, PassInv, plugin = "up", Informed(worker),
           ClientCheckValidity \/ ReadyFor \/ ClientGetConfig
    PROVE  Informed(worker')
<1>1. worker \in Workers
  BY DEF PassInv, WorkerOK
<1>2. CASE ClientCheckValidity
  <2>1. worker.pc = "validity" /\ Answers = {TRUE}
    BY <1>2, UpAnswers DEF ClientCheckValidity, CallAt, AfterCall, Calling
  <2>2. CASE Report("invalid")
    BY <2>2, ReportInforms
  <2>3. CASE CheckValidity(Request) /\ worker' = [worker EXCEPT !.pc = "types"]
    <3>1. worker'.pc = "types" /\ worker'.owner = worker.owner /\ worker'.configs = worker.configs
      BY <1>1, <2>3 DEF Workers
    <3> QED BY <2>1, <2>3, <3>1
            DEF Informed, Accepted, Configured, Processed, Request, Handling, Checking,
                Calling, Looping
  <2> QED BY <1>2, <2>1, <2>2, <2>3 DEF ClientCheckValidity
<1>3. CASE ReadyFor
  <2>1. worker.pc = "types"
    BY <1>3 DEF ReadyFor, CallAt, AfterCall
  <2>2. PICK kinds, pc : pc \in {"status", "config"}
                         /\ worker' = [worker EXCEPT !.kinds = kinds, !.pc = pc]
    BY <1>3 DEF ReadyFor
  <2>3. /\ worker'.pc = pc /\ worker'.owner = worker.owner
        /\ worker'.configs = worker.configs /\ worker'.next = worker.next
    BY <1>1, <2>2 DEF Workers
  <2>4. worker.configs = <<>> /\ worker.next = 1
    BY <2>1 DEF Informed, Configured, PassInv, WorkerOK, Attentive
  <2>5. Len(worker'.configs) = 0
    BY <2>3, <2>4, EmptySeq
  <2> QED BY <2>1, <2>2, <2>3, <2>4, <2>5
          DEF Informed, Accepted, Configured, Processed, Handling, Checking, Calling, Looping
<1>4. CASE ClientGetConfig
  <2>1. worker.pc = "config" /\ Answers = {TRUE}
    BY <1>4, UpAnswers DEF ClientGetConfig, CallAt, AfterCall, Calling, Looping
  <2> DEFINE configs == Append(worker.configs, Config[Subject])
             v == [worker EXCEPT !.configs = configs]
  <2>2. worker' = Following(v, "config", "dependent")
    BY <1>1, <1>4, <2>1 DEF ClientGetConfig, Workers
  <2>3. /\ worker.next \in DOMAIN worker.kinds
        /\ Subject = Provision(worker)[worker.next] /\ Subject \in Deps
        /\ DOMAIN worker.kinds = 1..Len(worker.kinds)
    BY <2>1, SubjectAtPosition, PassIsUnderstood DEF Looping, Calling
  <2>4. /\ worker.configs \in Seq(Configs \cup {ZeroConfig})
        /\ Config[Subject] \in Configs \cup {ZeroConfig}
        /\ worker.next \in Nat
    BY <1>1, <2>3, ConfigsAssumption DEF Workers
  <2>5. /\ configs \in Seq(Configs \cup {ZeroConfig})
        /\ Len(configs) = Len(worker.configs) + 1
        /\ \A i \in 1..Len(worker.configs) : configs[i] = worker.configs[i]
        /\ configs[Len(worker.configs) + 1] = Config[Subject]
        /\ Len(worker.configs) \in Nat
    BY <2>4, AppendProperties, LenProperties
  <2>6. /\ Len(worker.configs) = worker.next - 1
        /\ \A i \in 1..Len(worker.configs) : worker.configs[i] = Config[Provision(worker)[i]]
    BY <2>1 DEF Informed, Configured, Looping
  <2> HIDE DEF configs
  <2>7. Len(configs) = worker.next
    BY <2>4, <2>5, <2>6
  <2>8. \A i \in 1..Len(configs) : configs[i] = Config[Provision(worker)[i]]
    <3> SUFFICES ASSUME NEW i \in 1..Len(configs)
                 PROVE  configs[i] = Config[Provision(worker)[i]]
      OBVIOUS
    <3>1. CASE i = worker.next
      BY <2>3, <2>4, <2>5, <2>6, <3>1
    <3>2. CASE i # worker.next
      <4>1. i \in 1..Len(worker.configs)
        BY <2>4, <2>6, <2>7, <3>2
      <4> QED BY <2>5, <2>6, <4>1
    <3> QED BY <3>1, <3>2
  <2>9. /\ v \in Workers
        /\ v.owner = worker.owner /\ v.kinds = worker.kinds /\ v.configs = configs
        /\ v.next = worker.next /\ v.pc = worker.pc
    BY <1>1, <2>5, Zenon DEF Workers
  <2> HIDE DEF v
  <2>10. /\ worker'.owner = worker.owner /\ worker'.kinds = worker.kinds
         /\ worker'.configs = configs
         /\ \/ worker'.pc = "config" /\ worker'.next = worker.next + 1
            \/ /\ worker'.pc = "dependent" /\ worker'.next = 1
               /\ worker.next = Len(worker.kinds)
    BY <2>2, <2>3, <2>9, FollowingFields DEF Looping
  <2>11. Accepted(worker')
    BY <2>1, <2>10 DEF Informed, Accepted, Calling, Looping
  <2>12. Configured(worker')
    BY <2>4, <2>7, <2>8, <2>10 DEF Configured, Provision, Handling, Checking, Looping
  <2>13. Processed(worker')
    BY <2>3, <2>10 DEF Processed, Handling, Checking
  <2> QED BY <2>11, <2>12, <2>13 DEF Informed
<1> QED BY <1>2, <1>3, <1>4

LEMMA MeetingFields ==
    ASSUME PassInv, Subject \in Deps
    PROVE  /\ WorkerOK(Meeting(Subject)) /\ Meeting(Subject) \in Workers
           /\ Meeting(Subject).pc = worker.pc /\ Meeting(Subject).next = worker.next
           /\ Meeting(Subject).owner = worker.owner /\ Meeting(Subject).kinds = worker.kinds
           /\ Meeting(Subject).configs = worker.configs
           /\ Meeting(Subject).met = worker.met \cup {Subject}
<1>1. worker \in Workers
  BY DEF PassInv, WorkerOK
<1>2. Meeting(Subject) = [worker EXCEPT !.met = worker.met \cup {Subject}]
  BY <1>1 DEF Meeting, Workers
<1>3. WorkerOK(Meeting(Subject)) /\ Meeting(Subject) \in Workers
  BY MeetingOK DEF WorkerOK
<1> QED BY <1>1, <1>2, <1>3, Zenon DEF Workers

LEMMA MeetingInformed ==
    ASSUME PassInv, Informed(worker), worker.pc \in Handling,
           Subject = Provision(worker)[worker.next], Subject \in Deps
    PROVE  /\ WorkerOK(Meeting(Subject)) /\ Informed(Meeting(Subject))
           /\ Meeting(Subject).pc = worker.pc /\ Meeting(Subject).next = worker.next
           /\ Met(Meeting(Subject), worker.next)
<1> DEFINE v == Meeting(Subject)
<1>1. /\ WorkerOK(v) /\ v.pc = worker.pc /\ v.next = worker.next /\ v.owner = worker.owner
      /\ v.kinds = worker.kinds /\ v.configs = worker.configs
      /\ v.met = worker.met \cup {Subject}
  BY MeetingFields
<1> HIDE DEF v
<1>2. \A i : Met(worker, i) => Met(v, i)
  BY <1>1 DEF Met, Provision
<1>3. Met(v, worker.next)
  BY <1>1 DEF Met, Provision
<1>4. Informed(v)
  BY <1>1, <1>2 DEF Informed, Accepted, Configured, Processed, Provision, Handling
<1> QED BY <1>1, <1>3, <1>4 DEF v

\* CreateOrUpdateDependents
LEMMA HandlingInforms ==
    ASSUME OneOfEachKind, PassInv, plugin = "up", Informed(worker),
           CreateOrUpdateExits \/ FetchDependent \/ BuildAndCreate \/ BuildsNothing
             \/ Update \/ UpdatesNothing
    PROVE  Informed(worker')
<1>1. worker \in Workers /\ WorkerOK(worker)
  BY DEF PassInv, WorkerOK
<1>2. worker.pc \in Handling
  BY DEF CreateOrUpdateExits, FetchDependent, BuildAndCreate, BuildsNothing, Update,
         UpdatesNothing, CallAt, AfterCall, Handling
<1>3. /\ worker.next \in DOMAIN worker.kinds
      /\ DOMAIN worker.kinds = 1..Len(worker.kinds)
      /\ Subject = Provision(worker)[worker.next] /\ Subject \in Deps
      /\ Answers = {TRUE}
  BY <1>2, SubjectAtPosition, PassIsUnderstood, UpAnswers DEF Handling, Looping, Calling
<1>4. ThisConfig = Config[Subject]
  <2>1. worker.next \in 1..Len(worker.configs)
    BY <1>2, <1>3 DEF Informed, Configured
  <2> QED BY <1>2, <1>3, <2>1 DEF Informed, Configured, ThisConfig, Handling, Looping
<1>5. /\ WorkerOK(Meeting(Subject)) /\ Informed(Meeting(Subject))
      /\ Meeting(Subject).pc = worker.pc /\ Meeting(Subject).next = worker.next
      /\ Met(Meeting(Subject), worker.next)
  BY <1>2, <1>3, MeetingInformed
<1>6. Informed(NextDependent(Meeting(Subject)))
  BY <1>2, <1>5, NextDependentInformed
<1>7. Met(worker, worker.next) => Informed(NextDependent(worker))
  BY <1>1, <1>2, NextDependentInformed
<1>8. CASE CreateOrUpdateExits
  BY <1>3, <1>4, <1>7, <1>8 DEF CreateOrUpdateExits, Exits, Met, Handled
<1>9. CASE FetchDependent
  <2>1. worker.pc = "dependent"
    BY <1>9 DEF FetchDependent, CallAt, AfterCall
  <2> DEFINE u == [Meeting(Subject) EXCEPT !.pc = "update",
                        !.fetched = object[Subject], !.fresh = {Subject}]
             b == [worker EXCEPT !.pc = "build"]
  <2>2. \/ worker' \in {NextDependent(Meeting(Subject)), u}
        \/ worker' = b /\ ThisConfig.created
        \/ \E e : Report(e)
    BY <1>9 DEF FetchDependent
  <2>3. Informed(u)
    <3>1. Meeting(Subject) \in Workers
      BY <1>5 DEF WorkerOK
    <3>2. /\ u.pc = "update" /\ u.owner = Meeting(Subject).owner
          /\ u.next = Meeting(Subject).next /\ u.kinds = Meeting(Subject).kinds
          /\ u.configs = Meeting(Subject).configs /\ u.met = Meeting(Subject).met
      BY <3>1, Zenon DEF Workers
    <3> HIDE DEF u
    <3>3. \A i : Met(Meeting(Subject), i) => Met(u, i)
      BY <3>2 DEF Met, Provision
    <3> QED BY <1>2, <1>5, <3>2, <3>3
            DEF Informed, Accepted, Configured, Processed, Provision, Handling, Checking,
                Calling, Looping
  <2>4. ThisConfig.created => Informed(b)
    <3>1. /\ b.pc = "build" /\ b.owner = worker.owner /\ b.next = worker.next
          /\ b.kinds = worker.kinds /\ b.configs = worker.configs /\ b.met = worker.met
      BY <1>1, Zenon DEF Workers
    <3> HIDE DEF b
    <3>2. \A i : Met(worker, i) => Met(b, i)
      BY <3>1 DEF Met, Provision
    <3> QED BY <1>2, <3>1, <3>2
            DEF Informed, Accepted, Configured, Processed, Provision, ThisConfig, Handling,
                Checking, Calling, Looping
  <2> HIDE DEF u, b
  <2> QED BY <1>6, <2>2, <2>3, <2>4, ReportInforms
<1>10. CASE BuildAndCreate
  BY <1>6, <1>10, ReportInforms DEF BuildAndCreate
<1>11. CASE BuildsNothing
  BY <1>11, ReportInforms, NothingToKnow DEF BuildsNothing, CallAt, AfterCall
<1>12. CASE Update \/ UpdatesNothing
  <2>1. worker.pc = "update"
    BY <1>12 DEF Update, UpdatesNothing, CallAt, AfterCall
  <2>2. Met(worker, worker.next)
    BY <2>1 DEF Informed, Processed
  <2> QED BY <1>7, <1>12, <2>2, ReportInforms DEF Update, UpdatesNothing
<1> QED BY <1>8, <1>9, <1>10, <1>11, <1>12

LEMMA ConditionRecorded ==
    ASSUME PassInv, ClientGetCondition
    PROVE  /\ worker.pc = "condition"
           /\ \E v : /\ worker' = NextCheck(v) /\ WorkerOK(v)
                    /\ v.pc = worker.pc /\ v.owner = worker.owner /\ v.next = worker.next
                    /\ v.kinds = worker.kinds /\ v.configs = worker.configs
                    /\ v.met = worker.met
<1>1. worker \in Workers /\ WorkerOK(worker)
  BY DEF PassInv, WorkerOK
<1>2. worker.pc = "condition" /\ Subject \in Deps
  BY PassIsUnderstood DEF ClientGetCondition, CallAt, AfterCall, Calling, Looping
<1>3. PICK answered \in BOOLEAN, condition \in Conditions :
         worker' = NextCheck(SetCondition(worker, Name(answered), condition))
  BY DEF ClientGetCondition, Answers, ConditionOf, Conditions
<1>4. Name(answered) \in Names
  BY <1>2 DEF Name, Names
<1> DEFINE recorded == [message |-> "none",
                        conditions |-> [worker.status.conditions
                                           EXCEPT ![Name(answered)] = condition]]
           c == (recorded # worker.status)
           u == [worker EXCEPT !.status = recorded, !.changed = c]
           v == SetCondition(worker, Name(answered), condition)
<1>5. WorkerOK(v)
  BY <1>1, <1>4, SetConditionOK
<1>6. v = worker \/ v = u
  BY DEF SetCondition
<1> HIDE DEF recorded, c
<1>7. /\ u.pc = worker.pc /\ u.owner = worker.owner /\ u.next = worker.next
      /\ u.kinds = worker.kinds /\ u.configs = worker.configs /\ u.met = worker.met
  BY <1>1, Zenon DEF Workers
<1>8. worker' = NextCheck(v)
  BY <1>3
<1> HIDE DEF u, v
<1>9. /\ v.pc = worker.pc /\ v.owner = worker.owner /\ v.next = worker.next
      /\ v.kinds = worker.kinds /\ v.configs = worker.configs /\ v.met = worker.met
  BY <1>6, <1>7
<1> QED BY <1>2, <1>5, <1>8, <1>9

\* ComputeStatus
LEMMA CheckingInforms ==
    ASSUME PassInv, Informed(worker),
           NotChecked \/ FetchChecked \/ ClientGetCondition \/ WriteStatus
    PROVE  Informed(worker')
<1>1. worker \in Workers /\ WorkerOK(worker)
  BY DEF PassInv, WorkerOK
<1>2. CASE NotChecked
  BY <1>1, <1>2, NextCheckInformed DEF NotChecked, Checking
<1>3. ASSUME NEW v, v.pc \in Checking, worker.pc \in Checking,
             v.owner = worker.owner, v.next = worker.next, v.kinds = worker.kinds,
             v.configs = worker.configs, v.met = worker.met
      PROVE  Informed(v)
  <2>1. \A i : Met(worker, i) => Met(v, i)
    BY <1>3 DEF Met, Provision
  <2> QED BY <1>3, <2>1
          DEF Informed, Accepted, Configured, Processed, Provision, Handling, Checking,
              Calling, Looping
<1>4. CASE FetchChecked
  <2>1. worker.pc = "check"
    BY <1>4 DEF FetchChecked, CallAt, AfterCall
  <2>2. PICK o, outcome :
           worker' = [worker EXCEPT !.pc = "condition", !.fetched = o, !.outcome = outcome]
    <3>1. ASSUME worker' = [worker EXCEPT !.pc = "condition", !.outcome = "failed"]
          PROVE  worker' = [worker EXCEPT !.pc = "condition", !.fetched = worker.fetched,
                                          !.outcome = "failed"]
      BY <1>1, <3>1, Zenon DEF Workers
    <3> QED BY <1>4, <3>1, Zenon DEF FetchChecked
  <2>3. /\ worker'.pc = "condition"
        /\ worker'.owner = worker.owner /\ worker'.next = worker.next
        /\ worker'.kinds = worker.kinds /\ worker'.configs = worker.configs
        /\ worker'.met = worker.met
    BY <1>1, <2>2, Zenon DEF Workers
  <2> QED BY <1>3, <2>1, <2>3 DEF Checking
<1>5. CASE ClientGetCondition
  <2>1. PICK v : /\ worker.pc = "condition" /\ worker' = NextCheck(v) /\ WorkerOK(v)
                 /\ v.pc = worker.pc /\ v.owner = worker.owner /\ v.next = worker.next
                 /\ v.kinds = worker.kinds /\ v.configs = worker.configs
                 /\ v.met = worker.met
    BY <1>5, ConditionRecorded
  <2>2. v.pc \in Checking /\ Informed(v)
    BY <1>3, <2>1 DEF Checking
  <2> QED BY <2>1, <2>2, NextCheckInformed
<1>6. CASE WriteStatus
  BY <1>6, NothingToKnow DEF WriteStatus
<1> QED BY <1>2, <1>4, <1>5, <1>6

LEMMA EnvironmentInforms ==
    ASSUME PassInv, Informed(worker), Environment, plugin' = "up"
    PROVE  Informed(worker')
<1>1. worker \in Workers
  BY DEF PassInv, WorkerOK
<1>2. ASSUME NEW v, v.pc = worker.pc, v.owner = worker.owner, v.next = worker.next,
             v.kinds = worker.kinds, v.configs = worker.configs, v.met = worker.met
      PROVE  Informed(v)
  <2>1. \A i : Met(worker, i) => Met(v, i)
    BY <1>2 DEF Met, Provision
  <2> QED BY <1>2, <2>1 DEF Informed, Accepted, Configured, Processed, Provision
<1>3. CASE UserEdits
  <2>1. worker' = [worker EXCEPT !.resFresh = FALSE]
    BY <1>3 DEF UserEdits
  <2>2. /\ worker'.pc = worker.pc /\ worker'.owner = worker.owner
        /\ worker'.next = worker.next /\ worker'.kinds = worker.kinds
        /\ worker'.configs = worker.configs /\ worker'.met = worker.met
    BY <1>1, <2>1, Zenon DEF Workers
  <2> QED BY <1>2, <2>2
<1>4. ASSUME NEW d \in Deps, NEW o, ObjectChanges(d, o)
      PROVE  Informed(worker')
  <2>1. PICK fresh : worker' = [worker EXCEPT !.fresh = fresh]
    BY <1>4 DEF ObjectChanges
  <2>2. /\ worker'.pc = worker.pc /\ worker'.owner = worker.owner
        /\ worker'.next = worker.next /\ worker'.kinds = worker.kinds
        /\ worker'.configs = worker.configs /\ worker'.met = worker.met
    BY <1>1, <2>1, Zenon DEF Workers
  <2> QED BY <1>2, <2>2
<1>5. CASE PluginDies
  BY <1>5 DEF PluginDies
<1>6. CASE Restart
  BY <1>6, NothingToKnow DEF Restart, Restarted
<1> QED BY <1>3, <1>4, <1>5, <1>6 DEF Environment, OthersTouch, OthersDelete, OthersCreate

LEMMA StartInforms ==
    ASSUME capability \in UserSpecs, StartPass
    PROVE  Informed(worker')
<1>1. Idle \in Workers /\ Idle.configs = <<>>
  BY InitialTypes DEF WorkerOK, Idle
<1>2. worker'.pc = "validity" /\ worker'.owner = capability /\ worker'.configs = <<>>
  BY <1>1 DEF StartPass, Workers
<1> QED BY <1>2 DEF StartPass, Informed, Accepted, Configured, Processed, Handling,
                    Checking, Looping

LEMMA InformedStep ==
    ASSUME OneOfEachKind
    PROVE  InformedInv /\ PassInv' /\ [Next]_vars => InformedInv'
<1> SUFFICES ASSUME PassInv, PassInv', capability \in UserSpecs, [Next]_vars,
                    plugin = "up" => Informed(worker)
             PROVE  capability' \in UserSpecs /\ (plugin' = "up" => Informed(worker'))
  BY DEF InformedInv
<1>1. capability' \in UserSpecs
  BY DEF Next, Pass, Environment, StartPass, ClientCheckValidity, ReadyFor, ClientGetConfig,
         CreateOrUpdateExits, FetchDependent, BuildAndCreate, BuildsNothing, Update,
         UpdatesNothing, NotChecked, FetchChecked, ClientGetCondition, WriteStatus,
         UserEdits, PluginDies, Restart, OthersTouch, OthersDelete, OthersCreate,
         ObjectChanges, cluster, vars
<1>2. ASSUME plugin' = "up"
      PROVE  Informed(worker')
  <2>1. worker' = Idle \/ plugin = "up"
    BY <1>2 DEF Next, Pass, Environment, StartPass, ClientCheckValidity, ReadyFor,
         ClientGetConfig, CreateOrUpdateExits, FetchDependent, BuildAndCreate,
         BuildsNothing, Update, UpdatesNothing, NotChecked, FetchChecked,
         ClientGetCondition, WriteStatus, UserEdits, PluginDies, Restart, Restarted,
         OthersTouch, OthersDelete, OthersCreate, ObjectChanges, CallAt, AfterCall, vars
  <2>2. CASE worker' = Idle
    BY <2>2, NothingToKnow
  <2>3. CASE plugin = "up" /\ Pass
    BY <2>3, StartInforms, CallsInform, HandlingInforms, CheckingInforms DEF Pass
  <2>4. CASE plugin = "up" /\ Environment
    BY <1>2, <2>4, EnvironmentInforms
  <2>5. CASE plugin = "up" /\ UNCHANGED vars
    <3>1. worker' = worker
      BY <2>5 DEF vars
    <3> QED BY <2>5, <3>1
  <2> QED BY <2>1, <2>2, <2>3, <2>4, <2>5 DEF Next
<1> QED BY <1>1, <1>2

LEMMA InformedInvariant ==
    ASSUME OneOfEachKind
    PROVE  Spec => []InformedInv
<1>1. Init /\ PassInv => InformedInv
  BY NothingToKnow DEF Init, InformedInv
<1>2. InformedInv /\ PassInv' /\ [Next]_vars => InformedInv'
  BY InformedStep
<1> QED BY <1>1, <1>2, PassInvariant, PTL DEF Spec

\* A pass that reaches ComputeStatus with the plugin up has found or created
\* every dependent the plugin provides for the capability and configures,
\* whatever failed or restarted before: the client's zero values (client.go)
\* never make it skip one.  Of a plugin whose dependents share a kind this is
\* false, as the run plugin_same_kind shows.
THEOREM NoDependentIsPassedOver ==
    ASSUME OneOfEachKind
    PROVE  Spec => []DoneMeansProcessed
<1>1. InformedInv => DoneMeansProcessed
  <2> SUFFICES ASSUME InformedInv, worker.pc \in Checking, plugin = "up",
                      NEW d \in ProvidedFor(worker.owner.type), Handled(d)
               PROVE  d \in worker.met
    BY DEF DoneMeansProcessed, Checking
  <2>1. PICK i \in DOMAIN Provision(worker) : d = Provision(worker)[i]
    BY DEF ProvidedFor, Provision
  <2>2. i \in DOMAIN worker.kinds
    BY <2>1, SubjectAtPosition DEF InformedInv, Checking, Looping
  <2> QED BY <2>1, <2>2 DEF InformedInv, Informed, Processed, Met
<1> QED BY <1>1, InformedInvariant, PTL

(***************************************************************************)
(* PluginDependents implements Realisation: of the steps, only writes of   *)
(* the dependents are visible there.                                       *)
(***************************************************************************)
PresentHasExisted == \A d \in Deps : object[d].exists => d \in existed

MetHasExisted == worker.met \subseteq existed

\* The API server takes an update of a current copy only.
FreshIsCurrent ==
    worker.pc = "update" =>
        \A d \in worker.fresh : object[d].exists /\ worker.fetched = object[d]

ExistenceInv == PresentHasExisted /\ MetHasExisted /\ FreshIsCurrent

LEMMA ReportMeetsNothing ==
    ASSUME PassInv, NEW e, Report(e)
    PROVE  worker'.pc # "update" /\ worker'.met \subseteq worker.met
<1>1. worker \in Workers
  BY DEF PassInv, WorkerOK
<1>2. CASE worker' = Idle
  BY <1>2 DEF Idle
<1>3. CASE worker' = [worker EXCEPT !.pc = "status", !.status.message = e, !.changed = TRUE]
  BY <1>1, <1>3 DEF Workers
<1> QED BY <1>2, <1>3 DEF Report

LEMMA LoopsMeetNothing ==
    ASSUME NEW w \in Workers, w.next \in DOMAIN w.kinds
    PROVE  \A v \in {NextDependent(w), NextCheck(w), Following(w, "config", "dependent")} :
              v.pc # "update" /\ v.met = w.met
BY FollowingFields DEF NextDependent, NextCheck, Looping

\* Only two steps find dependents, and one of them reads what to update.
LEMMA OthersMeetNothing ==
    ASSUME PassInv, Pass, ~FetchDependent, ~BuildAndCreate
    PROVE  worker'.pc # "update" /\ worker'.met \subseteq worker.met
<1>1. worker \in Workers
  BY DEF PassInv, WorkerOK
<1>2. worker.pc \in Looping => worker.next \in DOMAIN worker.kinds
  BY DEF PassInv, WorkerOK, Attentive
<1>3. CASE StartPass
  <2>1. Idle \in Workers /\ Idle.met = {}
    BY InitialTypes DEF WorkerOK, Idle
  <2>2. worker'.pc = "validity" /\ worker'.met = {}
    BY <1>3, <2>1 DEF StartPass, Workers
  <2> QED BY <2>2
<1>4. CASE ClientCheckValidity
  <2>1. Report("invalid") \/ worker' = [worker EXCEPT !.pc = "types"]
    BY <1>4 DEF ClientCheckValidity
  <2> QED BY <1>1, <2>1, ReportMeetsNothing DEF Workers
<1>5. CASE ReadyFor
  <2>1. PICK kinds, pc : pc \in {"status", "config"}
                         /\ worker' = [worker EXCEPT !.kinds = kinds, !.pc = pc]
    BY <1>5 DEF ReadyFor
  <2> QED BY <1>1, <2>1 DEF Workers
<1>6. CASE ClientGetConfig
  <2>1. worker.pc = "config"
    BY <1>6 DEF ClientGetConfig, CallAt, AfterCall
  <2>2. PICK answered \in Answers :
           worker' = Following([worker EXCEPT !.configs = Append(@,
                         IF answered THEN Config[Subject] ELSE ZeroConfig)],
                               "config", "dependent")
    BY <1>6 DEF ClientGetConfig
  <2> DEFINE config == IF answered THEN Config[Subject] ELSE ZeroConfig
             configs == Append(worker.configs, config)
             v == [worker EXCEPT !.configs = configs]
  <2>3. config \in Configs \cup {ZeroConfig}
        /\ worker.configs \in Seq(Configs \cup {ZeroConfig})
    BY <1>1, <2>1, PassIsUnderstood, ConfigsAssumption DEF Calling, Looping, Workers
  <2>4. worker' = Following(v, "config", "dependent")
    BY <1>1, <2>2 DEF Workers
  <2> HIDE DEF config
  <2>5. configs \in Seq(Configs \cup {ZeroConfig})
    BY <2>3, AppendProperties
  <2> HIDE DEF configs
  <2>6. /\ v \in Workers /\ v.next = worker.next /\ v.kinds = worker.kinds
        /\ v.met = worker.met
    BY <1>1, <2>5, Zenon DEF Workers
  <2> HIDE DEF v
  <2> QED BY <1>2, <2>1, <2>4, <2>6, LoopsMeetNothing DEF Looping
<1>7. CASE CreateOrUpdateExits \/ Update \/ UpdatesNothing \/ NotChecked
  <2>1. worker.pc \in Looping
    BY <1>7 DEF CreateOrUpdateExits, Update, UpdatesNothing, NotChecked, CallAt, AfterCall, Looping
  <2>2. worker' \in {NextDependent(worker), NextCheck(worker)} \/ \E e : Report(e)
    BY <1>7 DEF CreateOrUpdateExits, Update, UpdatesNothing, NotChecked
  <2> QED BY <1>1, <1>2, <2>1, <2>2, LoopsMeetNothing, ReportMeetsNothing
<1>8. CASE BuildsNothing
  <2>1. worker' = Idle \/ \E e : Report(e)
    BY <1>8 DEF BuildsNothing, CallAt, AfterCall
  <2> QED BY <2>1, ReportMeetsNothing DEF Idle
<1>9. CASE FetchChecked
  <2>1. worker'.pc = "condition" /\ worker'.met = worker.met
    BY <1>1, <1>9 DEF FetchChecked, Workers
  <2> QED BY <2>1
<1>10. CASE ClientGetCondition
  <2>1. PICK v : worker' = NextCheck(v) /\ WorkerOK(v) /\ v.met = worker.met
                 /\ v.next = worker.next /\ v.kinds = worker.kinds
                 /\ worker.pc = "condition"
    BY <1>10, ConditionRecorded
  <2> QED BY <1>2, <2>1, LoopsMeetNothing DEF WorkerOK, Looping
<1>11. CASE WriteStatus
  BY <1>11 DEF WriteStatus, Idle
<1> QED BY <1>3, <1>4, <1>5, <1>6, <1>7, <1>8, <1>9, <1>10, <1>11 DEF Pass

LEMMA PassKeepsExistence ==
    ASSUME PassInv, ExistenceInv, Pass
    PROVE  ExistenceInv'
<1>1. worker \in Workers /\ object \in [Deps -> Objects]
  BY DEF PassInv, WorkerOK, TypeOK
<1>2. CASE FetchDependent
  <2>1. /\ worker.pc = "dependent" /\ Subject \in Deps
        /\ worker.next \in DOMAIN worker.kinds /\ UNCHANGED <<object, existed>>
    BY <1>2, PassIsUnderstood
       DEF FetchDependent, CallAt, AfterCall, Calling, Looping, PassInv, WorkerOK, Attentive, cluster
  <2> DEFINE u == [Meeting(Subject) EXCEPT !.pc = "update",
                        !.fetched = object[Subject], !.fresh = {Subject}]
  <2>2. \/ object[Subject].exists /\ worker' \in {NextDependent(Meeting(Subject)), u}
        \/ worker' = [worker EXCEPT !.pc = "build"]
        \/ \E e : Report(e)
    BY <1>2 DEF FetchDependent
  <2>4. /\ Meeting(Subject) \in Workers
        /\ Meeting(Subject).met = worker.met \cup {Subject}
        /\ Meeting(Subject).kinds = worker.kinds /\ Meeting(Subject).next = worker.next
    BY <2>1, MeetingFields
  <2>5. CASE object[Subject].exists /\ worker' = NextDependent(Meeting(Subject))
    <3>1. worker'.pc # "update" /\ worker'.met = worker.met \cup {Subject}
      BY <2>1, <2>4, <2>5, LoopsMeetNothing
    <3> QED BY <2>1, <2>5, <3>1
            DEF ExistenceInv, PresentHasExisted, MetHasExisted, FreshIsCurrent
  <2>6. CASE object[Subject].exists /\ worker' = u
    <3>1. /\ u.met = worker.met \cup {Subject} /\ u.fetched = object[Subject]
          /\ u.fresh = {Subject}
      BY <2>4, Zenon DEF Workers
    <3> HIDE DEF u
    <3> QED BY <2>1, <2>6, <3>1
            DEF ExistenceInv, PresentHasExisted, MetHasExisted, FreshIsCurrent
  <2>7. CASE worker' = [worker EXCEPT !.pc = "build"]
    <3>1. worker'.pc = "build" /\ worker'.met = worker.met
      BY <1>1, <2>7 DEF Workers
    <3> QED BY <2>1, <3>1 DEF ExistenceInv, PresentHasExisted, MetHasExisted, FreshIsCurrent
  <2>8. ASSUME NEW e, Report(e)
        PROVE  ExistenceInv'
    <3>1. worker'.pc # "update" /\ worker'.met \subseteq worker.met
      BY <2>8, ReportMeetsNothing
    <3> QED BY <2>1, <3>1 DEF ExistenceInv, PresentHasExisted, MetHasExisted, FreshIsCurrent
  <2> QED BY <2>2, <2>5, <2>6, <2>7, <2>8
<1>3. CASE BuildAndCreate
  <2>1. /\ worker.pc = "build" /\ Subject \in Deps
        /\ worker.next \in DOMAIN worker.kinds
        /\ existed' = existed \cup {d \in Deps : object'[d].exists}
    BY <1>3, PassIsUnderstood
       DEF BuildAndCreate, CallAt, AfterCall, Calling, Looping, PassInv, WorkerOK, Attentive
  <2> DEFINE created == IF object[Subject].exists THEN object
                        ELSE [object EXCEPT ![Subject] = Built]
  <2>2. \/ object' = created /\ worker' = NextDependent(Meeting(Subject))
        \/ Report(Subject)
    BY <1>3 DEF BuildAndCreate
  <2>3. created[Subject].exists
    BY <1>1, <2>1 DEF Built
  <2> HIDE DEF created
  <2>4. PresentHasExisted'
    BY <2>1 DEF PresentHasExisted
  <2>5. CASE object' = created /\ worker' = NextDependent(Meeting(Subject))
    <3>1. worker'.pc # "update" /\ worker'.met = worker.met \cup {Subject}
      BY <2>1, <2>5, MeetingFields, LoopsMeetNothing
    <3> QED BY <2>1, <2>3, <2>4, <2>5, <3>1 DEF ExistenceInv, MetHasExisted, FreshIsCurrent
  <2>6. CASE Report(Subject)
    <3>1. worker'.pc # "update" /\ worker'.met \subseteq worker.met
      BY <2>6, ReportMeetsNothing
    <3> QED BY <2>1, <2>4, <3>1 DEF ExistenceInv, MetHasExisted, FreshIsCurrent
  <2> QED BY <2>2, <2>5, <2>6
<1>4. CASE ~FetchDependent /\ ~BuildAndCreate
  <2>1. worker'.pc # "update" /\ worker'.met \subseteq worker.met
    BY <1>4, OthersMeetNothing
  <2>2. existed' = existed /\ \A d \in Deps : object'[d].exists => object[d].exists
    <3>1. CASE Update
      <4>1. worker.pc = "update"
        BY <3>1 DEF Update, CallAt, AfterCall
      <4>2. \/ object' = object
            \/ /\ Subject \in worker.fresh
               /\ object' = [object EXCEPT ![Subject] =
                                [worker.fetched EXCEPT !.content = Request.want]]
        BY <3>1 DEF Update
      <4>3. existed' = existed
        BY <3>1 DEF Update
      <4>4. worker.fresh \subseteq Deps
        BY <1>1 DEF Workers
      <4> QED BY <1>1, <4>1, <4>2, <4>3, <4>4 DEF ExistenceInv, FreshIsCurrent
    <3>2. CASE ~Update
      BY <1>4, <3>2 DEF Pass, StartPass, ClientCheckValidity, ReadyFor, ClientGetConfig,
         CreateOrUpdateExits, BuildsNothing, UpdatesNothing, NotChecked, FetchChecked,
         ClientGetCondition, WriteStatus, cluster
    <3> QED BY <3>1, <3>2
  <2> QED BY <2>1, <2>2 DEF ExistenceInv, PresentHasExisted, MetHasExisted, FreshIsCurrent
<1> QED BY <1>2, <1>3, <1>4

LEMMA EnvironmentKeepsExistence ==
    ASSUME PassInv, ExistenceInv, Environment
    PROVE  ExistenceInv'
<1>1. worker \in Workers /\ object \in [Deps -> Objects]
  BY DEF PassInv, WorkerOK, TypeOK
<1>2. CASE UserEdits
  <2>1. UNCHANGED <<object, existed>> /\ worker' = [worker EXCEPT !.resFresh = FALSE]
    BY <1>2 DEF UserEdits
  <2>2. /\ worker'.pc = worker.pc /\ worker'.met = worker.met
        /\ worker'.fresh = worker.fresh /\ worker'.fetched = worker.fetched
    BY <1>1, <2>1, Zenon DEF Workers
  <2> QED BY <2>1, <2>2 DEF ExistenceInv, PresentHasExisted, MetHasExisted, FreshIsCurrent
<1>3. ASSUME NEW d \in Deps, NEW o, ObjectChanges(d, o)
      PROVE  ExistenceInv'
  <2>1. /\ object' = [object EXCEPT ![d] = o]
        /\ existed' = IF o.exists THEN existed \cup {d} ELSE existed
        /\ worker' = [worker EXCEPT !.fresh = worker.fresh \ {d}]
    BY <1>1, <1>3 DEF ObjectChanges, Workers
  <2>2. /\ worker'.pc = worker.pc /\ worker'.met = worker.met
        /\ worker'.fresh = worker.fresh \ {d} /\ worker'.fetched = worker.fetched
        /\ worker.fresh \subseteq Deps
    BY <1>1, <2>1, Zenon DEF Workers
  <2> QED BY <1>1, <2>1, <2>2
          DEF ExistenceInv, PresentHasExisted, MetHasExisted, FreshIsCurrent
<1>4. CASE PluginDies
  BY <1>4 DEF PluginDies, cluster, ExistenceInv, PresentHasExisted, MetHasExisted,
              FreshIsCurrent
<1>5. CASE Restart
  <2>1. UNCHANGED <<object, existed>> /\ worker'.pc = "idle" /\ worker'.met = {}
    BY <1>5 DEF Restart, Restarted, Idle, cluster
  <2> QED BY <2>1 DEF ExistenceInv, PresentHasExisted, MetHasExisted, FreshIsCurrent
<1> QED BY <1>2, <1>3, <1>4, <1>5 DEF Environment, OthersTouch, OthersDelete, OthersCreate

Held == [d \in Deps |-> IF object[d].exists THEN {object[d].content} ELSE {}]

\* A write of one dependent as Realisation sees it.
LEMMA StoreChangesHeld ==
    ASSUME TypeOK, PresentHasExisted, NEW d \in Deps, NEW o \in Objects,
           object' = [object EXCEPT ![d] = o],
           existed' = IF o.exists THEN existed \cup {d} ELSE existed
    PROVE  /\ object[d].exists => Abstract!Change(d)
           /\ ~object[d].exists /\ o.exists => Abstract!Appear(d, o.content)
<1> DEFINE h == IF o.exists THEN {o.content} ELSE {}
<1>1. object \in [Deps -> Objects] /\ o.content \in Wants
  BY DEF TypeOK, Objects
<1>2. Held' = [Held EXCEPT ![d] = h]
  BY <1>1 DEF Held
<1>3. Held[d] = IF object[d].exists THEN {object[d].content} ELSE {}
  BY DEF Held
<1>4. ASSUME object[d].exists
      PROVE  Abstract!Change(d)
  <2>1. d \in existed /\ existed' = existed
    BY <1>4 DEF PresentHasExisted
  <2>2. h \in {{c} : c \in Wants} \cup {{}}
    BY <1>1
  <2>3. Held[d] # {}
    BY <1>3, <1>4
  <2> HIDE DEF h
  <2> QED BY <1>2, <2>1, <2>2, <2>3 DEF Abstract!Change, Held
<1>5. ASSUME ~object[d].exists, o.exists
      PROVE  Abstract!Appear(d, o.content)
  BY <1>1, <1>2, <1>3, <1>5 DEF Abstract!Appear, Held
<1> QED BY <1>4, <1>5

\* At its turn, a dependent has nothing to wait for.
LEMMA PredecessorsHaveExisted ==
    ASSUME OneOfEachKind, InformedInv, ExistenceInv, worker.pc \in Handling, plugin = "up",
           NEW e, Handled(e),
           \A t \in Served : Subject \in ProvidedFor(t) => InOrder(t, e, Subject)
    PROVE  e \in existed
<1> DEFINE t == worker.owner.type
<1>1. /\ worker.next \in DOMAIN Provision(worker) /\ t \in Served
      /\ DOMAIN worker.kinds = DOMAIN Provision(worker)
      /\ Subject = Provided(t)[worker.next]
  BY SubjectAtPosition DEF InformedInv, Handling, Looping, Provision
<1>2. Subject \in ProvidedFor(t)
  BY <1>1 DEF ProvidedFor, Provision
<1>3. PICK i, j \in DOMAIN Provided(t) :
         i < j /\ Provided(t)[i] = e /\ Provided(t)[j] = Subject
  BY <1>1, <1>2 DEF InOrder
<1>4. j = worker.next
  BY <1>1, <1>3 DEF OneOfEachKind, Provision
<1>5. Met(worker, i)
  BY <1>1, <1>3, <1>4 DEF InformedInv, Informed, Processed, Provision
<1> QED BY <1>3, <1>5 DEF Met, Provision, ExistenceInv, MetHasExisted

LEMMA CreationRealises ==
    ASSUME OneOfEachKind, InformedInv, ExistenceInv, BuildAndCreate
    PROVE  Abstract!Next \/ UNCHANGED <<Held, existed>>
<1>0. PassInv /\ TypeOK /\ PresentHasExisted /\ object \in [Deps -> Objects]
  BY DEF InformedInv, PassInv, ExistenceInv, TypeOK
<1>1. worker.pc = "build" /\ plugin = "up" /\ Subject \in Deps
  BY <1>0, PassIsUnderstood DEF BuildAndCreate, CallAt, AfterCall, Answers, Calling, Looping
<1>2. /\ object' \in {object, IF object[Subject].exists THEN object
                                ELSE [object EXCEPT ![Subject] = Built]}
      /\ existed' = existed \cup {d \in Deps : object'[d].exists}
  BY DEF BuildAndCreate
<1>3. CASE object' = object
  BY <1>2, <1>3 DEF ExistenceInv, PresentHasExisted, Held
<1>4. CASE ~object[Subject].exists /\ object' = [object EXCEPT ![Subject] = Built]
  <2>1. /\ worker.owner \in UserSpecs /\ worker.owner \in Specs /\ Valid(worker.owner)
    BY <1>0, <1>1 DEF InformedInv, Informed, Accepted, Valid, Calling, Looping, PassInv,
                      WorkerOK, Workers
  <2>2. Built \in Objects /\ Built.exists /\ Built.content = worker.owner.want
    BY <2>1 DEF Built, Objects, Request, Specs
  <2>3. existed' = existed \cup {Subject}
    BY <1>0, <1>1, <1>2, <1>4, <2>2 DEF PresentHasExisted
  <2>4. PICK d \in Deps, c \in Wants, o \in Objects :
           d = Subject /\ c = worker.owner.want /\ o = Built
    BY <1>1, <2>1, <2>2 DEF Specs
  <2>5. Abstract!Appear(d, c)
    BY <1>0, <1>4, <2>2, <2>3, <2>4, StoreChangesHeld
  <2>6. c \in {s.want : s \in {s1 \in UserSpecs : Valid(s1)}}
    BY <2>1, <2>4
  <2>7. d \in {e \in Deps : Config[e].created}
    <3>1. worker.next \in 1..Len(worker.configs) /\ Subject = Provision(worker)[worker.next]
      BY <1>0, <1>1, SubjectAtPosition
         DEF InformedInv, Informed, Configured, Handling, Looping
    <3> QED BY <1>1, <2>4, <3>1 DEF InformedInv, Informed, Configured, Processed, Looping
  <2> DEFINE needs == [f \in Deps |-> {e \in Deps : Handled(e) /\
                \A t \in Served : f \in ProvidedFor(t) => InOrder(t, e, f)}]
  <2>8. needs[d] \subseteq existed
    BY <1>1, <2>4, PredecessorsHaveExisted DEF Handling
  <2> HIDE DEF needs
  <2>9. Abstract!Realise(d)
    BY <2>5, <2>6, <2>7, <2>8, Zenon DEF Abstract!Realise, needs
  <2> QED BY <2>9 DEF Abstract!Next
<1> QED BY <1>2, <1>3, <1>4

LEMMA UpdateRealises ==
    ASSUME PassInv, ExistenceInv, Update
    PROVE  Abstract!Next \/ UNCHANGED <<Held, existed>>
<1>0. /\ TypeOK /\ PresentHasExisted /\ object \in [Deps -> Objects]
      /\ worker.pc = "update" /\ Subject \in Deps
  BY PassIsUnderstood DEF PassInv, ExistenceInv, TypeOK, Update, CallAt, AfterCall, Calling, Looping
<1> DEFINE o == [worker.fetched EXCEPT !.content = Request.want]
<1>1. o \in Objects /\ o.exists = worker.fetched.exists
  BY DEF PassInv, WorkerOK, Workers, Request, Specs, Objects
<1>2. /\ existed' = existed
      /\ \/ object' = object
         \/ Subject \in worker.fresh /\ object' = [object EXCEPT ![Subject] = o]
  BY DEF Update
<1> HIDE DEF o
<1>3. CASE Subject \in worker.fresh /\ object' = [object EXCEPT ![Subject] = o]
  <2>1. object[Subject].exists /\ o.exists /\ existed' = existed \cup {Subject}
    BY <1>0, <1>1, <1>2, <1>3 DEF ExistenceInv, FreshIsCurrent, PresentHasExisted
  <2> QED BY <1>0, <1>1, <1>3, <2>1, StoreChangesHeld DEF Abstract!Next
<1> QED BY <1>2, <1>3 DEF Held

LEMMA OthersRealise ==
    ASSUME TypeOK, PresentHasExisted, NEW d \in Deps,
           OthersTouch(d) \/ OthersDelete(d) \/ OthersCreate(d)
    PROVE  Abstract!Next
<1>1. object[d] \in Objects
  BY DEF TypeOK
<1>2. ASSUME NEW o \in Objects, ObjectChanges(d, o), object[d].exists \/ (d \in Foreign /\ o.exists)
      PROVE  Abstract!Next
  <2>1. PICK c \in Wants : c = o.content
    BY DEF Objects
  <2>2. Abstract!Change(d) \/ (d \in Foreign /\ Abstract!Appear(d, c))
    BY <1>2, <2>1, StoreChangesHeld DEF ObjectChanges
  <2> QED BY <2>2 DEF Abstract!OthersCreate, Abstract!Next
<1>3. NoObject \in Objects /\ [object[d] EXCEPT !.ready = ~@] \in Objects
      /\ \A c \in Wants : /\ [object[d] EXCEPT !.content = c] \in Objects
                         /\ [exists |-> TRUE, content |-> c, ready |-> FALSE] \in Objects
  BY <1>1, InitialTypes DEF Objects
<1> QED BY <1>2, <1>3 DEF OthersTouch, OthersDelete, OthersCreate

\* Whatever the plugin answers, fails to answer or forgets when it dies, and
\* whatever a user edits meanwhile: a dependent of a plugin comes into being
\* as a compiled-in one does (Reconciler), that is, only if its configuration
\* allows, after those the plugin lists before it have existed, with what a
\* valid capability asks for, or by the hand of others who may create it.
THEOREM PluginRealisesDependents ==
    ASSUME OneOfEachKind
    PROVE  Spec => RealisationSpec
<1> DEFINE Inv == InformedInv /\ ExistenceInv
<1>1. Init => Abstract!Init
  <2> SUFFICES ASSUME Init
               PROVE  Abstract!Init
    OBVIOUS
  <2>1. Held = [d \in Deps |-> {}]
    BY DEF Init, Held, NoObject
  <2> QED BY <2>1 DEF Init, Abstract!Init, Held
<1>2. ASSUME Inv, [Next]_vars
      PROVE  Abstract!Next \/ UNCHANGED <<Held, existed>>
  <2>0. PassInv /\ TypeOK /\ PresentHasExisted
    BY <1>2 DEF InformedInv, PassInv, ExistenceInv
  <2>1. UNCHANGED <<object, existed>> => UNCHANGED <<Held, existed>>
    BY DEF Held
  <2>2. CASE BuildAndCreate
    BY <1>2, <2>2, CreationRealises
  <2>3. CASE Update
    BY <1>2, <2>0, <2>3, UpdateRealises
  <2>4. CASE Pass /\ ~BuildAndCreate /\ ~Update
    BY <2>1, <2>4 DEF Pass, StartPass, ClientCheckValidity, ReadyFor, ClientGetConfig,
       CreateOrUpdateExits, FetchDependent, BuildsNothing, UpdatesNothing, NotChecked,
       FetchChecked, ClientGetCondition, WriteStatus, cluster
  <2>5. CASE UserEdits \/ PluginDies \/ Restart
    BY <2>1, <2>5 DEF UserEdits, PluginDies, Restart, cluster
  <2>6. CASE \E d \in Deps : OthersTouch(d) \/ OthersDelete(d) \/ OthersCreate(d)
    BY <2>0, <2>6, OthersRealise
  <2>7. CASE UNCHANGED vars
    BY <2>1, <2>7 DEF vars, cluster
  <2> QED BY <1>2, <2>2, <2>3, <2>4, <2>5, <2>6, <2>7 DEF Next, Environment
<1>3. Inv /\ [Next]_vars => [Abstract!Next]_<<Held, existed>>
  BY <1>2
<1>4. Spec => []Inv
  <2>1. Init => ExistenceInv
    BY DEF Init, Idle, NoObject, ExistenceInv, PresentHasExisted, MetHasExisted,
           FreshIsCurrent
  <2>2. InformedInv /\ ExistenceInv /\ [Next]_vars => ExistenceInv'
    <3>1. UNCHANGED vars /\ ExistenceInv => ExistenceInv'
      BY DEF vars, cluster, ExistenceInv, PresentHasExisted, MetHasExisted, FreshIsCurrent
    <3> QED BY <3>1, PassKeepsExistence, EnvironmentKeepsExistence DEF Next, InformedInv
  <2> QED BY <2>1, <2>2, InformedInvariant, PTL DEF Spec
<1> QED BY <1>1, <1>3, <1>4, PTL DEF Spec, RealisationSpec, Abstract!Spec, Held
=============================================================================
