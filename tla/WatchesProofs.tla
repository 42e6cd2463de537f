---------------------------- MODULE WatchesProofs ----------------------------
(***************************************************************************)
(* Theorems about Watches, for any controllers, kinds and lists.           *)
(***************************************************************************)
EXTENDS Watches, SequenceTheorems, TLAPS

\* What ties the registry, the watches and the passes together.
StartedIsRecorded ==
    \A c \in Controllers, k \in Kinds :
        watches[c][k] > 0 => k \in watched \/ (At(c, "record") /\ Current(c) = k)

NotYetStarted == \A c \in Controllers : At(c, "watch") => watches[c][Current(c)] = 0

JustStarted == \A c \in Controllers : At(c, "record") => watches[c][Current(c)] > 0

RecordedIsStarted == \A k \in watched : \E o \in Controllers : watches[o][k] > 0

PassedIsRecorded == \A c \in Controllers : passed[c] \subseteq watched

Recorded ==
    /\ StartedIsRecorded
    /\ NotYetStarted
    /\ JustStarted
    /\ RecordedIsStarted
    /\ PassedIsRecorded

RegistryInv == TypeOK /\ WatchedOnce /\ Recorded

LEMMA CurrentType ==
    ASSUME TypeOK, NEW c \in Controllers, ~At(c, "idle")
    PROVE  /\ Current(c) \in Kinds
           /\ Tail(worker[c].todo) \in Seq(Kinds)
<1>1. worker[c].todo \in Seq(Kinds) /\ worker[c].todo # <<>>
  BY DEF TypeOK, Passes, At
<1> QED BY <1>1, HeadTailProperties DEF Current

\* What Proceed does, controller by controller.
LEMMA ProceedEffect ==
    ASSUME TypeOK, NEW c \in Controllers, ~At(c, "idle"), Proceed(c)
    PROVE  /\ worker' \in [Controllers -> Passes]
           /\ \A o \in Controllers : worker'[o].pc # "idle" => worker'[o].todo # <<>>
           /\ passed' \in [Controllers -> SUBSET Kinds]
           /\ worker'[c].pc \in {"idle", "check"}
           /\ \A o \in Controllers \ {c} : worker'[o] = worker[o] /\ passed'[o] = passed[o]
           /\ passed'[c] = passed[c] \cup {Current(c)}
<1> DEFINE next == IF Tail(worker[c].todo) = <<>> THEN Idle
                   ELSE [pc |-> "check", todo |-> Tail(worker[c].todo)]
<1>1. Current(c) \in Kinds /\ Tail(worker[c].todo) \in Seq(Kinds)
  BY CurrentType
<1>2. next \in Passes /\ next.pc \in {"idle", "check"} /\ (next.pc # "idle" => next.todo # <<>>)
  BY <1>1 DEF Passes, Idle
<1>3. worker' = [worker EXCEPT ![c] = next]
  BY DEF Proceed
<1>4. passed' = [passed EXCEPT ![c] = @ \cup {Current(c)}]
  BY DEF Proceed
<1> HIDE DEF next
<1> QED BY <1>1, <1>2, <1>3, <1>4 DEF TypeOK

\* A step of c that leaves the registry and the watches alone, and does not
\* take c to a watch or a record.
LEMMA QuietMove ==
    ASSUME RegistryInv, NEW c \in Controllers, ~At(c, "record"),
           UNCHANGED <<watched, watches>>,
           worker'[c].pc \in {"idle", "check"},
           \A o \in Controllers \ {c} : worker'[o] = worker[o],
           \A o \in Controllers : passed'[o] \subseteq watched
    PROVE  (WatchedOnce /\ Recorded)'
<1> USE DEF RegistryInv, Recorded
<1>0. \A o \in Controllers, pc \in {"watch", "record"} :
         At(o, pc)' => o # c /\ At(o, pc) /\ Current(o)' = Current(o)
  BY DEF At, Current
<1>1. StartedIsRecorded'
  BY <1>0 DEF StartedIsRecorded, At, Current
<1>2. NotYetStarted' /\ JustStarted'
  BY <1>0 DEF NotYetStarted, JustStarted
<1>3. RecordedIsStarted' /\ PassedIsRecorded' /\ WatchedOnce'
  BY DEF RecordedIsStarted, PassedIsRecorded, WatchedOnce
<1> QED BY <1>1, <1>2, <1>3

LEMMA InitInv == Init => RegistryInv
<1> SUFFICES ASSUME Init PROVE RegistryInv
  OBVIOUS
<1>1. Idle \in Passes /\ Idle.pc = "idle"
  BY DEF Idle, Passes
<1>2. TypeOK
  BY <1>1, FaultsAssumption DEF Init, TypeOK, NoWatches
<1>3. WatchedOnce /\ Recorded
  BY <1>1 DEF Init, WatchedOnce, NoWatches, At, Recorded, StartedIsRecorded,
       NotYetStarted, JustStarted, RecordedIsStarted, PassedIsRecorded
<1> QED BY <1>2, <1>3 DEF RegistryInv

LEMMA RestartInv == RegistryInv /\ Restart => RegistryInv'
<1> SUFFICES ASSUME RegistryInv, Restart PROVE RegistryInv'
  OBVIOUS
<1>1. Idle \in Passes /\ Idle.pc = "idle"
  BY DEF Idle, Passes
<1>2. TypeOK'
  BY <1>1 DEF Restart, RegistryInv, TypeOK, NoWatches
<1>3. (WatchedOnce /\ Recorded)'
  BY <1>1 DEF Restart, WatchedOnce, NoWatches, At, Recorded, StartedIsRecorded,
       NotYetStarted, JustStarted, RecordedIsStarted, PassedIsRecorded
<1> QED BY <1>2, <1>3 DEF RegistryInv

LEMMA StartInv ==
    ASSUME RegistryInv, NEW c \in Controllers, StartPass(c)
    PROVE  RegistryInv'
<1>1. PICK list \in Lists[c] :
        list # <<>> /\ worker' = [worker EXCEPT ![c] = [pc |-> "check", todo |-> list]]
  BY DEF StartPass
<1>2. list \in Seq(Kinds)
  BY ListsAssumption
<1>3. [pc |-> "check", todo |-> list] \in Passes
  BY <1>2 DEF Passes
<1>4. /\ At(c, "idle") /\ worker'[c].pc = "check" /\ worker'[c].todo = list
      /\ \A o \in Controllers \ {c} : worker'[o] = worker[o]
  BY <1>1 DEF StartPass, RegistryInv, TypeOK
<1>5. TypeOK'
  BY <1>1, <1>3, <1>4 DEF StartPass, RegistryInv, TypeOK
<1>6. (WatchedOnce /\ Recorded)'
  BY <1>4, QuietMove DEF StartPass, RegistryInv, Recorded, PassedIsRecorded, At
<1> QED BY <1>5, <1>6 DEF RegistryInv

LEMMA CheckInv ==
    ASSUME RegistryInv, NEW c \in Controllers, Check(c)
    PROVE  RegistryInv'
<1> USE DEF RegistryInv
<1>0. /\ At(c, "check") /\ ~At(c, "idle")
      /\ UNCHANGED <<watched, watches, faults>>
  BY DEF Check, At
<1>1. CASE Current(c) \in watched /\ Proceed(c)
  <2>1. TypeOK'
    BY <1>0, <1>1, ProceedEffect DEF TypeOK
  <2>2. (WatchedOnce /\ Recorded)'
    BY <1>0, <1>1, ProceedEffect, QuietMove DEF Recorded, PassedIsRecorded, At
  <2> QED BY <2>1, <2>2
<1>2. CASE Current(c) \notin watched /\ Goto(c, "watch") /\ UNCHANGED passed
  <2>1. /\ worker'[c].pc = "watch" /\ worker'[c].todo = worker[c].todo
        /\ worker' \in [Controllers -> Passes]
        /\ \A o \in Controllers \ {c} : worker'[o] = worker[o]
    BY <1>2 DEF Goto, TypeOK, Passes
  <2>2. TypeOK'
    BY <1>0, <1>2, <2>1 DEF TypeOK, At
  <2>3. watches[c][Current(c)] = 0
    <3>1. Current(c) \in Kinds
      BY <1>0, CurrentType
    <3>2. watches[c][Current(c)] \in Nat
      BY <3>1 DEF TypeOK
    <3> QED BY <1>0, <1>2, <3>1, <3>2 DEF Recorded, StartedIsRecorded, At
  <2>4. (WatchedOnce /\ Recorded)'
    <3>1. StartedIsRecorded'
      BY <1>0, <2>1 DEF Recorded, StartedIsRecorded, At, Current
    <3>2. NotYetStarted'
      BY <1>0, <2>1, <2>3 DEF Recorded, NotYetStarted, At, Current
    <3>3. JustStarted'
      BY <1>0, <2>1 DEF Recorded, JustStarted, At, Current
    <3>4. RecordedIsStarted' /\ PassedIsRecorded' /\ WatchedOnce'
      BY <1>0, <1>2 DEF Recorded, RecordedIsStarted, PassedIsRecorded, WatchedOnce
    <3> QED BY <3>1, <3>2, <3>3, <3>4 DEF Recorded
  <2> QED BY <2>2, <2>4
<1> QED BY <1>1, <1>2 DEF Check

LEMMA WatchInv ==
    ASSUME RegistryInv, NEW c \in Controllers, Watch(c)
    PROVE  RegistryInv'
<1> USE DEF RegistryInv
<1>0. /\ At(c, "watch") /\ ~At(c, "idle")
      /\ UNCHANGED <<watched, passed>>
  BY DEF Watch, At
<1>1. Current(c) \in Kinds
  BY <1>0, CurrentType
<1>2. CASE /\ watches' = [watches EXCEPT ![c][Current(c)] = @ + 1]
           /\ Goto(c, "record")
           /\ UNCHANGED faults
  <2>1. /\ worker'[c].pc = "record" /\ worker'[c].todo = worker[c].todo
        /\ worker' \in [Controllers -> Passes]
        /\ \A o \in Controllers \ {c} : worker'[o] = worker[o]
    BY <1>2 DEF Goto, TypeOK, Passes
  <2>2. /\ watches' \in [Controllers -> [Kinds -> Nat]]
        /\ watches'[c][Current(c)] = 1
        /\ \A o \in Controllers, k \in Kinds :
              o # c \/ k # Current(c) => watches'[o][k] = watches[o][k]
    <3>1. watches[c][Current(c)] = 0
      BY <1>0 DEF Recorded, NotYetStarted
    <3> QED BY <1>1, <1>2, <3>1 DEF TypeOK
  <2>3. TypeOK'
    <3>1. \A o \in Controllers : worker'[o].pc # "idle" => worker'[o].todo # <<>>
      BY <1>0, <2>1 DEF TypeOK, At
    <3> QED BY <1>0, <1>2, <2>1, <2>2, <3>1 DEF TypeOK
  <2>4. WatchedOnce'
    BY <1>1, <2>2 DEF WatchedOnce
  <2>5. \A o \in Controllers : ~At(o, "idle") => Current(o) \in Kinds
    BY CurrentType
  <2>6. Recorded'
    <3>1. StartedIsRecorded'
      BY <1>0, <2>1, <2>2 DEF Recorded, StartedIsRecorded, At, Current
    <3>2. NotYetStarted'
      <4>1. SUFFICES ASSUME NEW o \in Controllers, At(o, "watch")'
                     PROVE  (watches[o][Current(o)] = 0)'
        BY DEF NotYetStarted
      <4>2. o # c /\ At(o, "watch") /\ Current(o)' = Current(o)
        BY <2>1, <4>1 DEF At, Current
      <4>3. Current(o) \in Kinds
        BY <2>5, <4>2 DEF At
      <4> QED BY <2>2, <4>2, <4>3 DEF Recorded, NotYetStarted
    <3>3. JustStarted'
      <4>1. SUFFICES ASSUME NEW o \in Controllers, At(o, "record")'
                     PROVE  (watches[o][Current(o)] > 0)'
        BY DEF JustStarted
      <4>2. Current(o)' = Current(o) /\ (o # c => At(o, "record"))
        BY <2>1, <4>1 DEF At, Current
      <4>3. o # c => Current(o) \in Kinds
        BY <2>5, <4>2 DEF At
      <4> QED BY <2>2, <4>2, <4>3 DEF Recorded, JustStarted
    <3>4. RecordedIsStarted'
      <4>1. SUFFICES ASSUME NEW k \in watched
                     PROVE  \E o \in Controllers : watches'[o][k] > 0
        BY <1>0 DEF RecordedIsStarted
      <4>2. PICK o \in Controllers : watches[o][k] > 0
        BY DEF Recorded, RecordedIsStarted
      <4>3. k \in Kinds
        BY DEF TypeOK
      <4>4. watches'[o][k] > 0
        BY <2>2, <4>2, <4>3
      <4> QED BY <4>4
    <3>5. PassedIsRecorded'
      BY <1>0 DEF Recorded, PassedIsRecorded
    <3> QED BY <3>1, <3>2, <3>3, <3>4, <3>5 DEF Recorded
  <2> QED BY <2>3, <2>4, <2>6
<1>3. CASE /\ faults > 0 /\ faults' = faults - 1
           /\ worker' = [worker EXCEPT ![c] = Idle]
           /\ UNCHANGED watches
  <2>1. Idle \in Passes /\ Idle.pc = "idle"
    BY DEF Idle, Passes
  <2>2. /\ worker'[c].pc = "idle"
        /\ \A o \in Controllers \ {c} : worker'[o] = worker[o]
    BY <1>3, <2>1 DEF TypeOK
  <2>3. TypeOK'
    BY <1>0, <1>3, <2>1, <2>2, FaultsAssumption DEF TypeOK
  <2>4. (WatchedOnce /\ Recorded)'
    BY <1>0, <1>3, <2>2, QuietMove DEF Recorded, PassedIsRecorded, At
  <2> QED BY <2>3, <2>4
<1> QED BY <1>2, <1>3 DEF Watch

LEMMA RecordInv ==
    ASSUME RegistryInv, NEW c \in Controllers, Record(c)
    PROVE  RegistryInv'
<1> USE DEF RegistryInv
<1>0. /\ At(c, "record") /\ ~At(c, "idle") /\ Proceed(c)
      /\ watched' = watched \cup {Current(c)}
      /\ UNCHANGED <<watches, faults>>
  BY DEF Record, At
<1>1. Current(c) \in Kinds
  BY <1>0, CurrentType
<1>2. TypeOK'
  BY <1>0, <1>1, ProceedEffect DEF TypeOK
<1>3. \A o \in Controllers, pc \in {"watch", "record"} :
         At(o, pc)' => o # c /\ At(o, pc) /\ Current(o)' = Current(o)
  BY <1>0, ProceedEffect DEF At, Current
<1>4. StartedIsRecorded'
  <2>1. SUFFICES ASSUME NEW o \in Controllers, NEW k \in Kinds, watches[o][k] > 0,
                        k \notin watched'
                 PROVE  (At(o, "record") /\ Current(o) = k)'
    BY <1>0 DEF StartedIsRecorded
  <2>2. o # c /\ At(o, "record") /\ Current(o) = k
    BY <1>0, <2>1 DEF Recorded, StartedIsRecorded
  <2> QED BY <1>0, <2>2, ProceedEffect DEF At, Current
<1>5. NotYetStarted' /\ JustStarted'
  BY <1>0, <1>3 DEF Recorded, NotYetStarted, JustStarted
<1>6. RecordedIsStarted'
  BY <1>0, <1>1 DEF Recorded, RecordedIsStarted, JustStarted
<1>7. PassedIsRecorded' /\ WatchedOnce'
  BY <1>0, ProceedEffect DEF Recorded, PassedIsRecorded, WatchedOnce
<1> QED BY <1>2, <1>4, <1>5, <1>6, <1>7 DEF Recorded

LEMMA StepInv == RegistryInv /\ [Next]_vars => RegistryInv'
<1> SUFFICES ASSUME RegistryInv, [Next]_vars PROVE RegistryInv'
  OBVIOUS
<1>1. CASE UNCHANGED vars
  BY <1>1 DEF vars, RegistryInv, TypeOK, WatchedOnce, At, Current, Recorded,
       StartedIsRecorded, NotYetStarted, JustStarted, RecordedIsStarted, PassedIsRecorded
<1> QED BY <1>1, StartInv, CheckInv, WatchInv, RecordInv, RestartInv DEF Next

\* The registry and the passes keep their types; in particular a pass under
\* way always has a dependent left to look at, to watch or to record.
THEOREM WatchTypes == Spec => []TypeOK
<1>1. RegistryInv => TypeOK
  BY DEF RegistryInv
<1> QED BY <1>1, InitInv, StepInv, PTL DEF Spec

\* No controller ever starts two watches of one kind, whatever passes of
\* other controllers come between its check of the registry and its record.
THEOREM NoSecondWatch == Spec => []WatchedOnce
<1>1. RegistryInv => WatchedOnce
  BY DEF RegistryInv
<1> QED BY <1>1, InitInv, StepInv, PTL DEF Spec

\* Past the watch of a dependent's kind, some controller watches it.
THEOREM PassedKindsAreWatched == Spec => []PassedIsWatched
<1>1. RegistryInv => PassedIsWatched
  BY DEF RegistryInv, Recorded, RecordedIsStarted, PassedIsRecorded, PassedIsWatched
<1> QED BY <1>1, InitInv, StepInv, PTL DEF Spec
=============================================================================
