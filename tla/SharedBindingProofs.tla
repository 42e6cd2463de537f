------------------------- MODULE SharedBindingProofs -------------------------
(***************************************************************************)
(* Theorems about SharedBinding, for any number of primaries.              *)
(***************************************************************************)
EXTENDS SharedBinding, SequenceTheorems, TLAPS

\* What is stored last is what the cache will come to.
CacheCatchesUp ==
    \A d \in Deps : IF events[d] = <<>> THEN cached[d] = object[d]
                    ELSE events[d][Len(events[d])] = object[d]

\* An object that is not there binds nobody.
AbsentBindsNobody == \A d \in Deps : object[d].exists \/ object[d].subjects = {}

\* Only a role binding that was found is updated.
Prepared(w) ==
    /\ w \in Workers
    /\ w.pc = "update" => w.next = 2 /\ w.fetched.exists

\* A copy that still carries the current version is the current version.
Agrees(w) == \A d \in w.fresh : w.fetched = object[d]

CopiesInv ==
    /\ TypeOK
    /\ CacheCatchesUp
    /\ AbsentBindsNobody
    /\ \A o \in Owners : Prepared(worker[o]) /\ Agrees(worker[o])

LEMMA InitialTypes ==
    /\ NoObject \in Objects /\ ~NoObject.exists /\ NoObject.subjects = {}
    /\ DOMAIN Order = {1, 2} /\ Len(Order) = 2 /\ Order[1] = "role" /\ Order[2] = "binding"
    /\ Prepared(Idle) /\ Idle.fresh = {} /\ Idle.pc = "idle" /\ Idle.next = 1
<1>1. NoObject \in Objects /\ ~NoObject.exists /\ NoObject.subjects = {}
  BY DEF NoObject, Objects
<1>2. DOMAIN Order = {1, 2} /\ Len(Order) = 2 /\ Order[1] = "role" /\ Order[2] = "binding"
  BY DEF Order
<1>3. Idle \in Workers /\ Idle.fresh = {} /\ Idle.pc = "idle" /\ Idle.next = 1
  BY <1>1, <1>2 DEF Idle, Workers
<1> QED BY <1>1, <1>2, <1>3 DEF Prepared

\* A write outdates the copies of what it writes and leaves the others as
\* they were.
LEMMA StoreKeepsCopies ==
    ASSUME CopiesInv, NEW d \in Deps, NEW value \in Objects,
           value.exists \/ value.subjects = {},
           NEW w \in [Owners -> Workers],
           \A o \in Owners : Prepared(w[o]) /\ Agrees(w[o]),
           Store(d, value, w), UNCHANGED cached,
           life' \in [Owners -> {"awaited", "present", "gone"}],
           left' \in 0..MaxDisturbances
    PROVE  CopiesInv'
<1>1. /\ object' = [object EXCEPT ![d] = value] /\ object \in [Deps -> Objects]
      /\ events' = [events EXCEPT ![d] = Append(events[d], value)]
      /\ events \in [Deps -> Seq(Objects)]
      /\ cached' = cached /\ cached \in [Deps -> Objects]
  BY DEF Store, CopiesInv, TypeOK
<1>2. object' \in [Deps -> Objects]
  BY <1>1
<1>3. /\ Append(events[d], value) \in Seq(Objects)
      /\ Append(events[d], value) # <<>>
      /\ Append(events[d], value)[Len(Append(events[d], value))] = value
  <2>1. events[d] \in Seq(Objects)
    BY <1>1
  <2> QED BY <2>1, AppendProperties
<1>4. events' \in [Deps -> Seq(Objects)]
  BY <1>1, <1>3
<1>5. CacheCatchesUp'
  <2> SUFFICES ASSUME NEW e \in Deps
               PROVE  IF events'[e] = <<>> THEN cached'[e] = object'[e]
                      ELSE events'[e][Len(events'[e])] = object'[e]
    BY DEF CacheCatchesUp
  <2>1. CASE e = d
    <3>1. events'[e] = Append(events[d], value) /\ object'[e] = value
      BY <1>1, <2>1
    <3> QED BY <1>3, <3>1
  <2>2. CASE e # d
    <3>1. events'[e] = events[e] /\ object'[e] = object[e] /\ cached'[e] = cached[e]
      BY <1>1, <2>2
    <3> QED BY <3>1 DEF CopiesInv, CacheCatchesUp
  <2> QED BY <2>1, <2>2
<1>6. AbsentBindsNobody'
  BY <1>1 DEF CopiesInv, AbsentBindsNobody
<1>7. ASSUME NEW o \in Owners
      PROVE  worker'[o] \in Workers /\ Prepared(worker'[o])
             /\ (\A e \in worker'[o].fresh : worker'[o].fetched = object'[e])
  <2> DEFINE f == w[o].fresh \ {d}
             v == [w[o] EXCEPT !.fresh = f]
  <2>1. w[o] \in Workers
    OBVIOUS
  <2>2. worker'[o] = v
    BY DEF Store
  <2>3. f \in SUBSET Deps
    BY <2>1 DEF Workers
  <2>4. v \in Workers /\ v.pc = w[o].pc /\ v.next = w[o].next
        /\ v.fetched = w[o].fetched /\ v.fresh = f
    BY <2>1, <2>3 DEF Workers
  <2>5. \A e \in f : object'[e] = object[e] /\ w[o].fetched = object[e]
    BY <1>1, <2>3 DEF Agrees
  <2> HIDE DEF v, f
  <2> QED BY <2>2, <2>4, <2>5 DEF Prepared
<1>8. worker' \in [Owners -> Workers]
  BY <1>7 DEF Store
<1> QED BY <1>1, <1>2, <1>4, <1>5, <1>6, <1>7, <1>8 DEF CopiesInv, TypeOK, Agrees

\* A step of a worker that writes nothing.
LEMMA MoveKeepsCopies ==
    ASSUME CopiesInv, NEW o \in Owners, NEW w, Prepared(w), Agrees(w),
           worker' = [worker EXCEPT ![o] = w],
           UNCHANGED <<life, object, cached, events, left>>
    PROVE  CopiesInv'
<1>1. w \in Workers
  BY DEF Prepared
<1>2. worker' \in [Owners -> Workers]
  BY <1>1 DEF CopiesInv, TypeOK
<1>3. \A p \in Owners : Prepared(worker'[p]) /\ (Agrees(worker[p]) /\ Agrees(w))
  BY DEF CopiesInv, TypeOK
<1>4. \A p \in Owners : \A d \in worker'[p].fresh : worker'[p].fetched = object[d]
  BY <1>3 DEF CopiesInv, TypeOK, Agrees
<1> QED BY <1>2, <1>3, <1>4
        DEF CopiesInv, TypeOK, CacheCatchesUp, AbsentBindsNobody, Agrees

LEMMA OnwardPrepared ==
    ASSUME CopiesInv, NEW o \in Owners
    PROVE  /\ \E w : Prepared(w) /\ w.fresh = {} /\ Onward(o) = [worker EXCEPT ![o] = w]
           /\ Onward(o) \in [Owners -> Workers]
           /\ \A p \in Owners : Prepared(Onward(o)[p]) /\ Agrees(Onward(o)[p])
<1>1. worker \in [Owners -> Workers] /\ worker[o].next \in {1, 2}
  BY InitialTypes DEF CopiesInv, TypeOK, Workers
<1> DEFINE n == worker[o].next + 1
           v == [Idle EXCEPT !.pc = "fetch", !.next = n]
<1>2. worker[o].next < Len(Order) => Prepared(v) /\ v.fresh = {}
  <2> SUFFICES ASSUME worker[o].next < Len(Order)
               PROVE  Prepared(v) /\ v.fresh = {}
    OBVIOUS
  <2>1. n \in DOMAIN Order
    BY <1>1, InitialTypes
  <2>2. Idle \in Workers /\ Idle.fresh = {}
    BY InitialTypes DEF Prepared
  <2> HIDE DEF n
  <2>3. v \in Workers /\ v.pc = "fetch" /\ v.fresh = {}
    BY <2>1, <2>2 DEF Workers
  <2> QED BY <2>3 DEF Prepared
<1>3. PICK w : Prepared(w) /\ w.fresh = {} /\ Onward(o) = [worker EXCEPT ![o] = w]
  <2>1. CASE worker[o].next < Len(Order)
    BY <1>2, <2>1 DEF Onward, Moves
  <2>2. CASE ~(worker[o].next < Len(Order))
    BY <2>2, InitialTypes DEF Onward, Moves
  <2> QED BY <2>1, <2>2
<1>4. w \in Workers
  BY <1>3 DEF Prepared
<1>5. \A p \in Owners : Prepared(Onward(o)[p]) /\ Agrees(Onward(o)[p])
  BY <1>1, <1>3 DEF CopiesInv, Agrees
<1> QED BY <1>1, <1>3, <1>4, <1>5

LEMMA PassKeepsCopies ==
    ASSUME CopiesInv, NEW o \in Owners, Pass(o)
    PROVE  CopiesInv' /\ NobodyUnbound
<1>1. /\ worker \in [Owners -> Workers] /\ worker[o] \in Workers /\ Current(o) \in Deps
      /\ object \in [Deps -> Objects] /\ cached \in [Deps -> Objects]
      /\ Prepared(worker[o]) /\ Agrees(worker[o])
  BY InitialTypes DEF CopiesInv, TypeOK, Workers, Current, Deps
<1>2. PICK onward : Prepared(onward) /\ onward.fresh = {}
                    /\ Onward(o) = [worker EXCEPT ![o] = onward]
  BY OnwardPrepared
<1>3. Agrees(onward)
  BY <1>2 DEF Agrees
<1>4. "binding" \in Deps /\ "role" \in Deps
  BY DEF Deps
<1>5. CASE StartPass(o)
  <2> DEFINE v == [Idle EXCEPT !.pc = "fetch"]
  <2>1. v \in Workers /\ v.pc = "fetch" /\ v.fresh = {}
    BY InitialTypes DEF Prepared, Workers
  <2>2. Prepared(v) /\ Agrees(v)
    BY <2>1 DEF Prepared, Agrees
  <2>3. worker' = [worker EXCEPT ![o] = v]
        /\ UNCHANGED <<life, object, cached, events, left>>
    BY <1>5 DEF StartPass, At, Moves
  <2> QED BY <2>2, <2>3, MoveKeepsCopies DEF NobodyUnbound
<1>6. CASE Fetch(o)
  <2> DEFINE d == Current(o)
             seen == cached[d]
             f == {e \in {d} : events[e] = <<>>}
             create == [worker[o] EXCEPT !.pc = "create"]
             update == [worker[o] EXCEPT !.pc = "update", !.fetched = seen, !.fresh = f]
  <2>1. UNCHANGED <<life, object, cached, events, left>>
    BY <1>6 DEF Fetch, At
  <2>2. Prepared(create) /\ Agrees(create)
    BY <1>1 DEF Prepared, Agrees, Workers
  <2>3. ASSUME seen.exists, d = "binding"
        PROVE  Prepared(update) /\ Agrees(update)
    <3>1. seen \in Objects /\ f \in SUBSET Deps
      BY <1>1
    <3>2. worker[o].next = 2
      BY <1>1, <2>3, InitialTypes DEF Current, Workers
    <3>3. \A e \in f : seen = object[e]
      BY <1>1 DEF CopiesInv, CacheCatchesUp
    <3> HIDE DEF seen, f
    <3>4. update \in Workers /\ update.pc = "update" /\ update.next = worker[o].next
          /\ update.fetched = seen /\ update.fresh = f
      BY <1>1, <3>1 DEF Workers
    <3> HIDE DEF update
    <3> QED BY <2>3, <3>2, <3>3, <3>4 DEF Prepared, Agrees
  <2>4. \/ worker' = [worker EXCEPT ![o] = create]
        \/ seen.exists /\ d = "binding" /\ worker' = [worker EXCEPT ![o] = update]
        \/ worker' = [worker EXCEPT ![o] = onward]
    BY <1>2, <1>6 DEF Fetch, Moves
  <2>5. CopiesInv'
    <3>1. CASE worker' = [worker EXCEPT ![o] = create]
      <4> HIDE DEF create
      <4> QED BY <2>1, <2>2, <3>1, MoveKeepsCopies
    <3>2. CASE seen.exists /\ d = "binding" /\ worker' = [worker EXCEPT ![o] = update]
      <4>1. Prepared(update) /\ Agrees(update)
        BY <2>3, <3>2
      <4>2. worker' = [worker EXCEPT ![o] = update]
        BY <3>2
      <4> HIDE DEF update
      <4> QED BY <2>1, <4>1, <4>2, MoveKeepsCopies
    <3>3. CASE worker' = [worker EXCEPT ![o] = onward]
      BY <1>2, <1>3, <2>1, <3>3, MoveKeepsCopies
    <3> QED BY <2>4, <3>1, <3>2, <3>3
  <2> QED BY <2>1, <2>5 DEF NobodyUnbound
<1>7. CASE Create(o)
  <2> DEFINE d == Current(o)
             built == IF d = "role" THEN BuildRole(o) ELSE BuildRoleBinding(o)
  <2>1. /\ UNCHANGED <<life, cached, left>> /\ ~object[d].exists
        /\ Store(d, built, Onward(o))
    BY <1>7 DEF Create, At
  <2>2. built \in Objects /\ built.exists
    BY DEF BuildRole, BuildRoleBinding, ControllerReference, Objects
  <2>3. object' = [object EXCEPT ![d] = built]
    BY <2>1 DEF Store
  <2>4. object[d].subjects = {}
    BY <1>1, <2>1 DEF CopiesInv, AbsentBindsNobody
  <2>5. object["binding"].subjects \subseteq object'["binding"].subjects
    BY <1>1, <1>4, <2>3, <2>4
  <2>6. life' \in [Owners -> {"awaited", "present", "gone"}] /\ left' \in 0..MaxDisturbances
    BY <2>1 DEF CopiesInv, TypeOK
  <2> HIDE DEF built
  <2>7. CopiesInv'
    BY <1>1, <2>1, <2>2, <2>6, OnwardPrepared, StoreKeepsCopies
  <2> QED BY <2>5, <2>7 DEF NobodyUnbound
<1>8. CASE CreateExists(o)
  <2>1. worker' = [worker EXCEPT ![o] = onward]
        /\ UNCHANGED <<life, object, cached, events, left>>
    BY <1>2, <1>8 DEF CreateExists, At
  <2> QED BY <1>2, <1>3, <2>1, MoveKeepsCopies DEF NobodyUnbound
<1>9. CASE UpdateBinding(o)
  <2>1. worker[o].next = 2 /\ worker[o].fetched.exists /\ worker[o].fetched \in Objects
        /\ UNCHANGED <<life, cached, left>>
    BY <1>1, <1>9 DEF UpdateBinding, At, Prepared, Workers
  <2>2. CASE worker' = Onward(o) /\ UNCHANGED <<object, events>>
    BY <1>2, <1>3, <2>1, <2>2, MoveKeepsCopies DEF NobodyUnbound
  <2>3. CASE worker' = Moves(o, Idle) /\ UNCHANGED <<object, events>>
    <3>1. Prepared(Idle) /\ Agrees(Idle)
      BY InitialTypes DEF Agrees
    <3> QED BY <2>1, <2>3, <3>1, MoveKeepsCopies DEF Moves, NobodyUnbound
  <2>4. CASE Accepted(o) /\ Store("binding",
                    [worker[o].fetched EXCEPT !.subjects = UpdatedSubjects(o)], Onward(o))
    <3> DEFINE subjects == worker[o].fetched.subjects \cup {o}
               value == [worker[o].fetched EXCEPT !.subjects = subjects]
    <3>1. worker[o].fetched = object["binding"]
      BY <1>1, <2>1, <2>4, InitialTypes DEF Accepted, Current, Agrees
    <3>2. subjects \in SUBSET Owners
      BY <2>1 DEF Objects
    <3>3. Store("binding", value, Onward(o))
      BY <2>4 DEF UpdatedSubjects
    <3> HIDE DEF subjects
    <3>4. value \in Objects /\ value.exists /\ value.subjects = subjects
      BY <2>1, <3>2 DEF Objects
    <3>5. object'["binding"] = value
      BY <1>1, <1>4, <3>3 DEF Store
    <3>6. object["binding"].subjects \subseteq object'["binding"].subjects
      BY <3>1, <3>4, <3>5 DEF subjects
    <3>7. life' \in [Owners -> {"awaited", "present", "gone"}]
          /\ left' \in 0..MaxDisturbances
      BY <2>1 DEF CopiesInv, TypeOK
    <3> HIDE DEF value
    <3>8. CopiesInv'
      BY <1>4, <2>1, <3>3, <3>4, <3>7, OnwardPrepared, StoreKeepsCopies
    <3> QED BY <3>6, <3>8 DEF NobodyUnbound
  <2> QED BY <1>9, <2>2, <2>3, <2>4 DEF UpdateBinding
<1> QED BY <1>5, <1>6, <1>7, <1>8, <1>9 DEF Pass

LEMMA EnvironmentKeepsCopies ==
    ASSUME CopiesInv, Environment
    PROVE  CopiesInv'
<1>1. /\ worker \in [Owners -> Workers] /\ object \in [Deps -> Objects]
      /\ \A o \in Owners : Prepared(worker[o]) /\ Agrees(worker[o])
      /\ life \in [Owners -> {"awaited", "present", "gone"}]
  BY DEF CopiesInv, TypeOK
<1>2. ASSUME NEW d \in Deps, Deliver(d)
      PROVE  CopiesInv'
  <2>1. /\ events[d] \in Seq(Objects) /\ events[d] # <<>>
        /\ cached' = [cached EXCEPT ![d] = Head(events[d])]
        /\ events' = [events EXCEPT ![d] = Tail(events[d])]
        /\ UNCHANGED <<life, object, worker, left>>
        /\ cached \in [Deps -> Objects] /\ events \in [Deps -> Seq(Objects)]
    BY <1>2 DEF Deliver, CopiesInv, TypeOK
  <2>2. Head(events[d]) \in Objects /\ Tail(events[d]) \in Seq(Objects)
    BY <2>1, HeadTailProperties
  <2>3. /\ Tail(events[d]) = <<>> => Head(events[d]) = events[d][Len(events[d])]
        /\ Tail(events[d]) # <<>> =>
             Tail(events[d])[Len(Tail(events[d]))] = events[d][Len(events[d])]
    <3>1. Len(events[d]) \in Nat \ {0}
      BY <2>1, EmptySeq
    <3>2. Len(Tail(events[d])) = Len(events[d]) - 1
      BY <2>1, HeadTailProperties
    <3>3. Tail(events[d]) = <<>> => Len(events[d]) = 1
      <4> DEFINE rest == Tail(events[d])
      <4>1. Len(<<>>) = 0
        OBVIOUS
      <4>2. Len(rest) = Len(events[d]) - 1
        BY <3>2
      <4> HIDE DEF rest
      <4>3. rest = <<>> => Len(events[d]) = 1
        BY <3>1, <4>1, <4>2
      <4> QED BY <4>3 DEF rest
    <3>4. Head(events[d]) = events[d][1]
      BY <2>1, HeadTailProperties
    <3>5. Tail(events[d]) # <<>> => Len(Tail(events[d])) \in Nat \ {0}
      BY <2>2, EmptySeq
    <3>6. \A i \in 1..Len(Tail(events[d])) : Tail(events[d])[i] = events[d][i + 1]
      BY <2>1, <2>2, HeadTailProperties
    <3> QED BY <3>1, <3>2, <3>3, <3>4, <3>5, <3>6
  <2>4. CacheCatchesUp'
    <3> SUFFICES ASSUME NEW e \in Deps
                 PROVE  IF events'[e] = <<>> THEN cached'[e] = object'[e]
                        ELSE events'[e][Len(events'[e])] = object'[e]
      BY DEF CacheCatchesUp
    <3>1. CASE e = d
      <4>1. events[d][Len(events[d])] = object[d]
        BY <2>1 DEF CopiesInv, CacheCatchesUp
      <4>2. events'[e] = Tail(events[d]) /\ cached'[e] = Head(events[d])
            /\ object'[e] = object[d]
        BY <2>1, <3>1
      <4> QED BY <2>3, <4>1, <4>2
    <3>2. CASE e # d
      <4>1. events'[e] = events[e] /\ object'[e] = object[e] /\ cached'[e] = cached[e]
        BY <2>1, <3>2
      <4> QED BY <4>1 DEF CopiesInv, CacheCatchesUp
    <3> QED BY <3>1, <3>2
  <2>5. cached' \in [Deps -> Objects] /\ events' \in [Deps -> Seq(Objects)]
    BY <2>1, <2>2
  <2> QED BY <2>1, <2>4, <2>5 DEF CopiesInv, TypeOK, AbsentBindsNobody, Agrees, Prepared
<1>3. ASSUME NEW d \in Deps, NEW value \in Objects, value.exists \/ value.subjects = {},
             Store(d, value, worker), UNCHANGED cached,
             life' \in [Owners -> {"awaited", "present", "gone"}],
             left' \in 0..MaxDisturbances
      PROVE  CopiesInv'
  BY <1>1, <1>3, StoreKeepsCopies
<1>4. ASSUME NEW d \in Deps, GarbageCollect(d) \/ OthersDelete(d)
      PROVE  CopiesInv'
  <2>1. /\ Store(d, NoObject, worker) /\ cached' = cached /\ life' = life
        /\ left' = left \/ (left > 0 /\ left' = left - 1)
    BY <1>4 DEF GarbageCollect, OthersDelete, Disturb
  <2>2. left' \in 0..MaxDisturbances
    BY <2>1, BoundAssumption DEF CopiesInv, TypeOK
  <2> QED BY <1>1, <1>3, <2>1, <2>2, InitialTypes
<1>5. ASSUME NEW o \in Owners, UserCreates(o) \/ UserDeletes(o)
      PROVE  CopiesInv'
  <2>1. life' \in [Owners -> {"awaited", "present", "gone"}]
        /\ UNCHANGED <<object, cached, events, worker, left>>
    BY <1>1, <1>5 DEF UserCreates, UserDeletes
  <2> QED BY <2>1 DEF CopiesInv, TypeOK, CacheCatchesUp, AbsentBindsNobody, Agrees, Prepared
<1>6. ASSUME NEW o \in Owners, OthersUnbind(o)
      PROVE  CopiesInv'
  <2> DEFINE subjects == object["binding"].subjects \ {o}
             value == [object["binding"] EXCEPT !.subjects = subjects]
  <2>1. "binding" \in Deps /\ object["binding"] \in Objects
    BY <1>1 DEF Deps
  <2>2. /\ Store("binding", value, worker) /\ cached' = cached /\ life' = life
        /\ left > 0 /\ left' = left - 1
    BY <1>6 DEF OthersUnbind, Disturb
  <2>3. left' \in 0..MaxDisturbances
    BY <2>2, BoundAssumption DEF CopiesInv, TypeOK
  <2>4. object["binding"].exists
    BY <1>6, <2>1 DEF OthersUnbind, CopiesInv, AbsentBindsNobody
  <2>5. subjects \in SUBSET Owners
    BY <2>1 DEF Objects
  <2> HIDE DEF subjects
  <2>6. value \in Objects /\ value.exists
    BY <2>1, <2>4, <2>5 DEF Objects
  <2> HIDE DEF value
  <2> QED BY <1>1, <1>3, <2>1, <2>2, <2>3, <2>6
<1> QED BY <1>2, <1>4, <1>5, <1>6 DEF Environment

-----------------------------------------------------------------------------
LEMMA CopiesInvariant == Spec => []CopiesInv
<1>1. Init => CopiesInv
  <2> SUFFICES ASSUME Init
               PROVE  CopiesInv
    OBVIOUS
  <2>1. TypeOK
    <3>1. Idle \in Workers
      BY InitialTypes DEF Prepared
    <3>2. <<>> \in Seq(Objects)
      BY EmptySeq
    <3> QED BY <3>1, <3>2, InitialTypes, BoundAssumption DEF Init, TypeOK
  <2> QED BY <2>1, InitialTypes
          DEF Init, CopiesInv, CacheCatchesUp, AbsentBindsNobody, Agrees
<1>2. CopiesInv /\ [Next]_vars => CopiesInv'
  <2> SUFFICES ASSUME CopiesInv, [Next]_vars
               PROVE  CopiesInv'
    OBVIOUS
  <2>1. CASE UNCHANGED vars
    BY <2>1 DEF vars, CopiesInv, TypeOK, CacheCatchesUp, AbsentBindsNobody, Agrees, Prepared
  <2>2. CASE Next
    BY <2>2, PassKeepsCopies, EnvironmentKeepsCopies DEF Next
  <2> QED BY <2>1, <2>2
<1> QED BY <1>1, <1>2, PTL DEF Spec

\* The objects, the cache, the copies and the positions of the passes keep
\* their types.
THEOREM SharedTypes == Spec => []TypeOK
<1>1. CopiesInv => TypeOK
  BY DEF CopiesInv
<1> QED BY <1>1, CopiesInvariant, PTL

\* For any number of primaries: the read-modify-write of RoleBinding.Update
\* (rolebinding.go) through a stale cache loses no account, because the
\* server refuses a copy that is not its own.
THEOREM NoAccountIsLost == Spec => SubjectsKept
<1>1. CopiesInv /\ [Next]_vars => [NobodyUnbound]_vars
  <2> SUFFICES ASSUME CopiesInv, [Next]_vars, ~(UNCHANGED vars)
               PROVE  NobodyUnbound
    OBVIOUS
  <2> QED BY PassKeepsCopies DEF NobodyUnbound
<1> QED BY <1>1, CopiesInvariant, PTL DEF Spec, SubjectsKept
=============================================================================
