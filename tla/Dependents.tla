----------------------------- MODULE Dependents -----------------------------
(***************************************************************************)
(* The data of one primary Resource and its ordered list of               *)
(* DependentResources (dependent.go, config.go, basedependent.go), and the *)
(* functions that compute its Status (baseresource.go).                    *)
(*                                                                         *)
(* A dependent is named by its position in BaseResource.dependents.  The   *)
(* wording of messages is left out: a message is the error it was made     *)
(* from, because DefaultErrorHandler only ever compares it.                *)
(***************************************************************************)
EXTENDS Naturals

CONSTANTS
    NDeps,      \* number of dependents InitDependentResources returns
    Kinds,      \* the GroupVersionKinds of the dependents
    Config,     \* Config[d] is what dependent d's GetConfig returns
    Recomputes  \* whether SetCondition recomputes the reason and the message
                \* of a status that holds the condition already

Deps == 1..NDeps

DependentResourceConfig ==
    [watched: BOOLEAN, owned: BOOLEAN, created: BOOLEAN, updated: BOOLEAN,
     checked: BOOLEAN, kind: Kinds]

ASSUME NDepsAssumption == NDeps \in Nat \ {0}
ASSUME ConfigAssumption == Config \in [Deps -> DependentResourceConfig]
ASSUME RecomputesAssumption == Recomputes \in BOOLEAN

(***************************************************************************)
(* The configurations the framework itself hands out.                      *)
(***************************************************************************)
NewConfig(k) ==
    [watched |-> TRUE, owned |-> TRUE, created |-> TRUE, updated |-> FALSE,
     checked |-> FALSE, kind |-> k]

NewDefaultSecretConfig(k) == [NewConfig(k) EXCEPT !.updated = TRUE]

NewOwnedRole(k) == [NewConfig(k) EXCEPT !.watched = FALSE]

-----------------------------------------------------------------------------
(***************************************************************************)
(* Errors a pass can report on the status.                                 *)
(***************************************************************************)
NoError == <<"none", 0>>
FetchFailed == <<"fetch", 0>>
InvalidSpec == <<"invalid", 0>>
DependentFailed(d) == <<"dependent", d>>

Errors == {NoError, FetchFailed, InvalidSpec} \cup {DependentFailed(d) : d \in Deps}

(***************************************************************************)
(* v1beta1.DependentCondition: only its Type, "Unset" when the status      *)
(* holds no condition for the dependent.                                   *)
(***************************************************************************)
Conditions == {"Unset", "Ready", "Pending", "Failed"}

Reasons == {"None", "Ready", "Pending", "Failed"}

Statuses == [reason: Reasons, message: Errors, conditions: [Deps -> Conditions]]

EmptyStatus ==
    [reason |-> "None", message |-> NoError, conditions |-> [d \in Deps |-> "Unset"]]

(***************************************************************************)
(* What Fetch gives for a dependent: the object, a NotFound error or       *)
(* another error; and the condition GetCondition derives from it, with the *)
(* customisation the README shows (a found object that is not ready is     *)
(* Pending).                                                               *)
(***************************************************************************)
ErrorDependentCondition(outcome) ==
    IF outcome = "notFound" THEN "Pending" ELSE "Failed"

GetCondition(outcome, ready) ==
    CASE outcome # "found" -> ErrorDependentCondition(outcome)
      [] outcome = "found" /\ ready -> "Ready"
      [] OTHER -> "Pending"

(***************************************************************************)
(* v1beta1.Status.SetCondition, external: it is the only code that can     *)
(* aggregate, since ComputeStatus calls nothing else.  It records the      *)
(* condition, recomputes the reason from the recorded conditions, and      *)
(* answers whether the status differs.  What it does with a condition the  *)
(* status holds already is not to be seen in this repository: Recomputes.  *)
(***************************************************************************)
AggregateReason(conditions) ==
    IF \E d \in Deps : conditions[d] = "Failed" THEN "Failed"
    ELSE IF \E d \in Deps : conditions[d] = "Pending" THEN "Pending"
    ELSE "Ready"

WithCondition(status, d, c) ==
    LET recorded == [status.conditions EXCEPT ![d] = c]
    IN  IF status.conditions[d] = c /\ ~Recomputes THEN status
        ELSE [reason |-> AggregateReason(recorded), message |-> NoError,
              conditions |-> recorded]

SetCondition(status, d, c) ==
    [updated |-> WithCondition(status, d, c) # status,
     status  |-> WithCondition(status, d, c)]

(***************************************************************************)
(* One turn of the loop of ComputeStatus.  In Go, needsUpdate ||           *)
(* status.SetCondition(condition) does not call SetCondition once          *)
(* needsUpdate holds.                                                      *)
(***************************************************************************)
ComputeStatusTurnUnnoticed(sofar, d, c) ==
    [updated |-> FALSE, status |-> SetCondition(sofar.status, d, c).status]

ComputeStatusTurn(sofar, d, c) ==
    IF sofar.updated THEN sofar ELSE SetCondition(sofar.status, d, c)

DefaultErrorHandler(status, e) ==
    [updated |-> status.reason # "Failed" \/ status.message # e,
     status  |-> [status EXCEPT !.reason = "Failed", !.message = e]]
=============================================================================
