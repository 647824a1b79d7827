-------------------------- MODULE RequestLifecycle --------------------------
(***************************************************************************)
(* What the executioner promises to whoever submits FencingRequest         *)
(* objects, with nothing said of informers, workers, ConfigMaps or Jobs.   *)
(* A request is submitted, every attempt leaves an update behind, at most  *)
(* one final result is recorded, and after that nothing about the outcome  *)
(* changes any more; the request may be withdrawn at any time.             *)
(***************************************************************************)
EXTENDS Naturals, Sequences

CONSTANTS
  Requests,      \* the names of the FencingRequest objects
  Results,       \* the final results (FencingResult of the API types)
  Updates,       \* the entries that Status.Updates may hold
  NoResult,      \* the value of Status.Result before there is one
  MaxUpdates     \* bound: entries of Status.Updates the API server still stores

VARIABLE status  \* what the API server says of each request

Phases == {"unborn", "live", "gone"}

StatusRecord ==
  [phase : Phases, complete : BOOLEAN, result : Results \cup {NoResult},
   updates : Seq(Updates)]

Init ==
  status = [r \in Requests |-> [phase |-> "unborn", complete |-> FALSE,
                                result |-> NoResult, updates |-> <<>>]]

(* The watcher, or an administrator, creates the object. *)
Submit(r) ==
  /\ status[r].phase = "unborn"
  /\ status' = [status EXCEPT ![r].phase = "live"]

(* AddResult: one more entry in the history of a request still open. *)
Record(r, u) ==
  /\ status[r].phase = "live"
  /\ ~status[r].complete
  /\ Len(status[r].updates) < MaxUpdates
  /\ status' = [status EXCEPT ![r].updates = Append(@, u)]

(* SetFinalResult: the outcome, with an entry of its own. *)
Finish(r, res, u) ==
  /\ status[r].phase = "live"
  /\ ~status[r].complete
  /\ Len(status[r].updates) < MaxUpdates
  /\ status' = [status EXCEPT ![r].complete = TRUE,
                              ![r].result = res,
                              ![r].updates = Append(@, u)]

(* The object is deleted: a healthy node cancels it, or an administrator. *)
Withdraw(r) ==
  /\ status[r].phase = "live"
  /\ status' = [status EXCEPT ![r].phase = "gone"]

Next ==
  \E r \in Requests :
     \/ Submit(r)
     \/ Withdraw(r)
     \/ \E u \in Updates : Record(r, u)
     \/ \E u \in Updates, res \in Results : Finish(r, res, u)

Spec == Init /\ [][Next]_status

-----------------------------------------------------------------------------

TypeOK == status \in [Requests -> StatusRecord]

(* Once a final result is recorded the outcome is settled: the result stays *)
(* and no attempt is added to the history, not even if the request is       *)
(* withdrawn (SetFinalResult, Update); before that the history only grows.  *)
History(r) == status[r].updates

FinalOrGrowing ==
  \A r \in Requests :
    IF status[r].complete
    THEN /\ status'[r].complete /\ status'[r].result = status[r].result
         /\ History(r)' = History(r)
    ELSE \/ History(r)' = History(r) /\ ~status'[r].complete
         \/ \E u \in Updates : History(r)' = Append(History(r), u)

OutcomeIsFinal == [][FinalOrGrowing]_status
=============================================================================
