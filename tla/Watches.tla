------------------------------- MODULE Watches -------------------------------
(***************************************************************************)
(* The registry of watched kinds (generic.go: watched, mutex,              *)
(* createCallbackFor), which all the controllers of one operator share.    *)
(* Every controller has one worker, a goroutine, which goes through the    *)
(* watched dependents of its resource at the start of each pass.  The      *)
(* mutex is held for the read and for the write of the registry but not    *)
(* between them, so another worker can come in between.                    *)
(***************************************************************************)
EXTENDS Naturals, Sequences

CONSTANTS
    Controllers,    \* one per RegisterNewReconciler
    Kinds,          \* the GroupVersionKinds of dependents
    Lists,          \* Lists[c]: what InitDependentResources can return, as the
                    \* sequences of the kinds of the watched dependents
    MaxFaults       \* bound: calls of Controller.Watch that fail

ASSUME ListsAssumption == Lists \in [Controllers -> SUBSET Seq(Kinds)]
ASSUME FaultsAssumption == MaxFaults \in Nat

VARIABLES
    watched,        \* the registry
    watches,        \* watches[c][k]: watches of kind k that c has started
    worker,         \* worker[c]: the pass of c
    passed,         \* history: passed[c], the kinds c has got past
    faults          \* faults left

vars == <<watched, watches, worker, passed, faults>>

\* "todo" holds the kinds the loop has still to see, the current one first.
Idle == [pc |-> "idle", todo |-> <<>>]

Passes == [pc: {"idle", "check", "watch", "record"}, todo: Seq(Kinds)]

TypeOK ==
    /\ watched \subseteq Kinds
    /\ watches \in [Controllers -> [Kinds -> Nat]]
    /\ worker \in [Controllers -> Passes]
    /\ \A c \in Controllers : worker[c].pc # "idle" => worker[c].todo # <<>>
    /\ passed \in [Controllers -> SUBSET Kinds]
    /\ faults \in 0..MaxFaults

NoWatches == [c \in Controllers |-> [k \in Kinds |-> 0]]

Init ==
    /\ watched = {}
    /\ watches = NoWatches
    /\ worker = [c \in Controllers |-> Idle]
    /\ passed = [c \in Controllers |-> {}]
    /\ faults = MaxFaults

Current(c) == Head(worker[c].todo)

At(c, pc) == worker[c].pc = pc

Goto(c, pc) == worker' = [worker EXCEPT ![c].pc = pc]

ProceedUnbounded(c) ==
    /\ passed' = [passed EXCEPT ![c] = @ \cup {Current(c)}]
    /\ worker' = [worker EXCEPT ![c] = [pc |-> "check", todo |-> Tail(@.todo)]]

\* The callback returns nil: on to the next dependent, or out of the loop.
Proceed(c) ==
    /\ passed' = [passed EXCEPT ![c] = @ \cup {Current(c)}]
    /\ worker' = [worker EXCEPT ![c] =
           IF Tail(@.todo) = <<>> THEN Idle
           ELSE [pc |-> "check", todo |-> Tail(@.todo)]]

StartPass(c) ==
    /\ At(c, "idle")
    /\ \E list \in Lists[c] :
          /\ list # <<>>
          /\ worker' = [worker EXCEPT ![c] = [pc |-> "check", todo |-> list]]
    /\ UNCHANGED <<watched, watches, passed, faults>>

CheckAndRecord(c) ==
    /\ At(c, "check")
    /\ watched' = watched \cup {Current(c)}
    /\ IF Current(c) \in watched THEN Proceed(c) ELSE Goto(c, "watch") /\ UNCHANGED passed
    /\ UNCHANGED <<watches, faults>>

Check(c) ==
    /\ At(c, "check")
    /\ \/ Current(c) \in watched /\ Proceed(c)
       \/ Current(c) \notin watched /\ Goto(c, "watch") /\ UNCHANGED passed
    /\ UNCHANGED <<watched, watches, faults>>

\* c.Watch; an error ends the pass, and the request is made again.
Watch(c) ==
    /\ At(c, "watch")
    /\ \/ /\ watches' = [watches EXCEPT ![c][Current(c)] = @ + 1]
          /\ Goto(c, "record")
          /\ UNCHANGED faults
       \/ /\ faults > 0
          /\ faults' = faults - 1
          /\ worker' = [worker EXCEPT ![c] = Idle]
          /\ UNCHANGED watches
    /\ UNCHANGED <<watched, passed>>

RecordNothing(c) ==
    /\ At(c, "record")
    /\ Proceed(c)
    /\ UNCHANGED <<watched, watches, faults>>

Record(c) ==
    /\ At(c, "record")
    /\ watched' = watched \cup {Current(c)}
    /\ Proceed(c)
    /\ UNCHANGED <<watches, faults>>

\* The operator's process starts again.
Restart ==
    /\ watched' = {}
    /\ watches' = NoWatches
    /\ worker' = [c \in Controllers |-> Idle]
    /\ passed' = [c \in Controllers |-> {}]
    /\ UNCHANGED faults

Next ==
    \/ \E c \in Controllers : StartPass(c) \/ Check(c) \/ Watch(c) \/ Record(c)
    \/ Restart

Spec == Init /\ [][Next]_vars
-----------------------------------------------------------------------------
\* However the workers interleave between the check and the record, and
\* whatever calls failed before, a controller never has two watches for one
\* kind, which would run its handlers twice for every event.
WatchedOnce == \A c \in Controllers, k \in Kinds : watches[c][k] <= 1

\* A pass that has got past a watched dependent can count on a watch of its
\* kind being there: the registry never claims one that failed to start.
PassedIsWatched ==
    \A c \in Controllers : \A k \in passed[c] : \E o \in Controllers : watches[o][k] > 0

\* What the comment of DependentResourceConfig.Watched says: the operator is
\* notified of changes of the watched dependents of any of its resources.
\* The watch of a controller maps events to owners of its own type only.
DependentsReachTheirController ==
    \A c \in Controllers : \A k \in passed[c] : watches[c][k] > 0
=============================================================================
