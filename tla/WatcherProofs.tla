---------------------------- MODULE WatcherProofs ----------------------------
(***************************************************************************)
(* What holds of Watcher for every value of its constants: the types of    *)
(* its variables with the shape of the workers (WellFormed), and that a    *)
(* loss the Node worker is done with stays on record (LossIsOnRecord).     *)
(***************************************************************************)
EXTENDS Watcher, TLAPS

(* An Event that was written, and any that is serious, names its node.      *)
Named(q) == q.phase # "unborn" \/ Serious(q) => q.host \in Nodes

Typed ==
  /\ WellFormed
  /\ \A p \in Problems : Named(problem[p]) /\ Named(seenProblem[p])

(* The part of WellFormed that a worker's step may disturb. *)
WorkersTyped ==
  /\ watcher \in [Watchers -> WatcherRecord]
  /\ \A w \in Watchers : /\ watcher[w].pc # "idle" => watcher[w].target \in Nodes
                         /\ watcher[w].pc = "delete" <=> watcher[w].todo # {}

RequestsTyped ==
  /\ request \in [Requests -> [phase : Phases, target : Nodes \cup {None},
                               complete : BOOLEAN]]
  /\ \A r \in Requests : request[r].phase = "live" => request[r].target \in Nodes

-----------------------------------------------------------------------------
(* Operators that build records.                                           *)

LEMMA IdleTyped ==
  /\ Idle \in WatcherRecord
  /\ Idle.pc = "idle" /\ Idle.target = None /\ Idle.todo = {}
  /\ Idle.purpose = "create"
BY DEF Idle, WatcherRecord

LEMMA FreshTyped ==
  /\ FreshNode \in NodeRecord
  /\ UnbornProblem \in ProblemRecord /\ Named(UnbornProblem)
  /\ UnbornProblem.phase = "unborn"
BY WatcherAssumption
DEF FreshNode, UnbornProblem, NodeRecord, ProblemRecord, Readiness, Phases,
    Components, Named, Serious

LEMMA GoTyped ==
  ASSUME WorkersTyped, NEW w \in Watchers, NEW k \in WatcherRecord,
         k.pc # "idle" => k.target \in Nodes, k.pc = "delete" <=> k.todo # {},
         Go(w, k)
  PROVE  WorkersTyped'
BY DEF WorkersTyped, Go

LEMMA RestTyped ==
  ASSUME WorkersTyped, NEW w \in Watchers, Rest(w)
  PROVE  WorkersTyped'
BY GoTyped, IdleTyped DEF Rest

LEMMA ActingTyped ==
  ASSUME WorkersTyped, NEW w \in Watchers, NEW pc \in {"getNode", "list", "create"},
         NEW n \in Nodes, NEW purpose \in {"create", "cancel"}, Act(w, pc, n, purpose)
  PROVE  WorkersTyped'
<1> DEFINE k == [Idle EXCEPT !.pc = pc, !.target = n, !.purpose = purpose]
<1>1. k \in WatcherRecord /\ k.pc = pc /\ k.target = n /\ k.todo = {}
  BY DEF Idle, WatcherRecord
<1>2. Go(w, k)
  BY DEF Act
<1> QED BY <1>1, <1>2, GoTyped

LEMMA RefuseTyped ==
  ASSUME refusals \in 0 .. MaxRefusals, NEW call, Refuse(call) \/ Granted
  PROVE  refusals' \in 0 .. MaxRefusals
BY WatcherAssumption DEF Refuse, Granted

LEMMA TypedParts ==
  Typed => /\ WorkersTyped /\ RequestsTyped
           /\ node \in [Nodes -> NodeRecord] /\ seenNode \in [Nodes -> NodeRecord]
           /\ watchQueue \in [Node : SUBSET Nodes, Event : SUBSET Problems]
           /\ watching \subseteq Watchers /\ process \in {"running", "killed"}
           /\ refusals \in 0 .. MaxRefusals
BY DEF Typed, WellFormed, TypeOK, WatcherShape, WorkersTyped, RequestsTyped

-----------------------------------------------------------------------------
(* Each step keeps the types.                                              *)

LEMMA InitTyped == Init => Typed
BY IdleTyped, FreshTyped, WatcherAssumption
DEF Init, InitWorld, StartWatching, Typed, WellFormed, TypeOK, WatcherShape,
    NothingQueued, UnbornRequest, Phases, Watchers

LEMMA NoticeTyped == Typed /\ Notice => Typed'
<1> SUFFICES ASSUME Typed, Notice PROVE Typed'
  OBVIOUS
<1> USE DEF Typed, WellFormed, TypeOK, WatcherShape, Named
<1>1. CASE SyncNodes
  BY <1>1 DEF SyncNodes, world, Watchers
<1>2. CASE SyncProblems
  BY <1>2 DEF SyncProblems, world, Watchers
<1>3. ASSUME NEW n \in Nodes, ObserveNode(n) PROVE Typed'
  BY <1>3 DEF ObserveNode, world
<1>4. ASSUME NEW p \in Problems, ObserveProblem(p) PROVE Typed'
  BY <1>4 DEF ObserveProblem, world
<1> QED BY <1>1, <1>2, <1>3, <1>4 DEF Notice

(* What a worker's step leaves alone. *)
LEMMA WorkerStepTyped ==
  ASSUME Typed, WorkersTyped', RequestsTyped', refusals' \in 0 .. MaxRefusals,
         watchQueue' \in [Node : SUBSET Nodes, Event : SUBSET Problems],
         UNCHANGED <<world, seenNode, seenProblem, watching, process>>
  PROVE  Typed'
BY DEF Typed, WellFormed, TypeOK, WatcherShape, Named, WorkersTyped, RequestsTyped, world

LEMMA TakeTyped ==
  ASSUME Typed
  PROVE  /\ \A n \in Nodes : TakeNode(n) => Typed'
         /\ \A p \in Problems : TakeProblem(p) => Typed'
<1>0. "Node" \in Watchers /\ "Event" \in Watchers
  BY DEF Watchers
<1>1. ASSUME NEW n \in Nodes, TakeNode(n) PROVE Typed'
  <2>1. WorkersTyped'
    <3>1. CASE Act("Node", "list", n, "create") \/ Act("Node", "list", n, "cancel")
      BY <3>1, <1>0, ActingTyped, TypedParts
    <3>2. CASE UNCHANGED watcher
      BY <3>2, TypedParts DEF WorkersTyped
    <3> QED BY <1>1, <3>1, <3>2 DEF TakeNode
  <2>2. watchQueue' \in [Node : SUBSET Nodes, Event : SUBSET Problems]
    BY <1>1, TypedParts DEF TakeNode
  <2>3. UNCHANGED <<world, request, seenNode, seenProblem, watching, process, refusals>>
    BY <1>1 DEF TakeNode
  <2>4. RequestsTyped' /\ refusals' \in 0 .. MaxRefusals
    BY <2>3, TypedParts DEF RequestsTyped
  <2> QED BY <2>1, <2>2, <2>3, <2>4, WorkerStepTyped
<1>2. ASSUME NEW p \in Problems, TakeProblem(p) PROVE Typed'
  <2>1. WorkersTyped'
    <3>1. CASE Serious(seenProblem[p])
      <4>1. seenProblem[p].host \in Nodes
        BY <3>1 DEF Typed, Named
      <4> QED BY <1>2, <3>1, <4>1, <1>0, ActingTyped, TypedParts DEF TakeProblem
    <3>2. CASE ~Serious(seenProblem[p])
      BY <1>2, <3>2, TypedParts DEF TakeProblem, WorkersTyped
    <3> QED BY <3>1, <3>2
  <2>2. watchQueue' \in [Node : SUBSET Nodes, Event : SUBSET Problems]
    BY <1>2, TypedParts DEF TakeProblem
  <2>3. UNCHANGED <<world, request, seenNode, seenProblem, watching, process, refusals>>
    BY <1>2 DEF TakeProblem
  <2>4. RequestsTyped' /\ refusals' \in 0 .. MaxRefusals
    BY <2>3, TypedParts DEF RequestsTyped
  <2> QED BY <2>1, <2>2, <2>3, <2>4, WorkerStepTyped
<1> QED BY <1>1, <1>2

LEMMA ProceedTyped ==
  ASSUME Typed, NEW w \in Watchers, Proceed(w)
  PROVE  Typed'
<1> DEFINE n == watcher[w].target
<1> USE TypedParts
<1>1. CASE GetNode(w)
  <2>1. n \in Nodes
    BY <1>1 DEF GetNode, WorkersTyped
  <2>2. WorkersTyped'
    BY <1>1, <2>1, ActingTyped, RestTyped DEF GetNode
  <2>3. refusals' \in 0 .. MaxRefusals
    BY <1>1, RefuseTyped DEF GetNode
  <2> QED BY <1>1, <2>2, <2>3, WorkerStepTyped DEF GetNode, RequestsTyped
<1>2. CASE ListRequests(w)
  <2>1. n \in Nodes
    BY <1>2 DEF ListRequests, WorkersTyped
  <2>2. ASSUME NEW found \in SUBSET Requests, Schedule(w, found) PROVE WorkersTyped'
    BY <2>1, <2>2, ActingTyped, RestTyped DEF Schedule
  <2>3. ASSUME NEW found \in SUBSET Requests, Cancel(w, found) PROVE WorkersTyped'
    <3> DEFINE k == [watcher[w] EXCEPT !.pc = "delete", !.todo = found]
    <3>1. k \in WatcherRecord /\ k.pc = "delete" /\ k.todo = found /\ k.target = n
      BY DEF WorkersTyped, WatcherRecord
    <3> QED BY <2>1, <2>3, <3>1, GoTyped, RestTyped DEF Cancel
  <2>4. Answers(n) \subseteq SUBSET Requests
    BY DEF Answers, Listed
  <2>5. WorkersTyped'
    BY <1>2, <2>2, <2>3, <2>4 DEF ListRequests
  <2> QED BY <1>2, <2>5, WorkerStepTyped DEF ListRequests, RequestsTyped
<1>3. CASE CreateRequest(w)
  <2>1. n \in Nodes
    BY <1>3 DEF CreateRequest, WorkersTyped
  <2>2. WorkersTyped'
    BY <1>3, RestTyped DEF CreateRequest
  <2>3. RequestsTyped'
    <3>1. ASSUME NEW r \in Requests, request' = [request EXCEPT ![r] = NewRequest(r, n)]
          PROVE  RequestsTyped'
      <4> DEFINE q == NewRequest(r, n)
      <4>1. q \in [phase : Phases, target : Nodes \cup {None}, complete : BOOLEAN]
            /\ q.target \in Nodes
        BY <2>1 DEF NewRequest, RequestsTyped, Phases
      <4>2. request' = [request EXCEPT ![r] = q]
        BY <3>1
      <4> HIDE DEF q
      <4> QED BY <4>1, <4>2 DEF RequestsTyped
    <3>2. CASE UNCHANGED request
      BY <3>2 DEF RequestsTyped
    <3> QED BY <1>3, <3>1, <3>2 DEF CreateRequest
  <2>4. refusals' \in 0 .. MaxRefusals
    BY <1>3, RefuseTyped DEF CreateRequest
  <2> QED BY <1>3, <2>2, <2>3, <2>4, WorkerStepTyped DEF CreateRequest
<1>4. ASSUME NEW r \in Requests, DeleteRequest(w, r) PROVE Typed'
  <2> DEFINE left == watcher[w].todo \ {r}
             k == [watcher[w] EXCEPT !.todo = left]
  <2>1. n \in Nodes /\ watcher[w].pc = "delete"
    BY <1>4 DEF DeleteRequest, WorkersTyped
  <2>2. k \in WatcherRecord /\ k.pc = "delete" /\ k.todo = left /\ k.target = n
    BY <2>1 DEF WorkersTyped, WatcherRecord
  <2>3. WorkersTyped'
    BY <1>4, <2>1, <2>2, GoTyped, RestTyped DEF DeleteRequest
  <2>4. RequestsTyped'
    BY <1>4 DEF DeleteRequest, RequestsTyped, Phases
  <2>5. refusals' \in 0 .. MaxRefusals
    BY <1>4, RefuseTyped DEF DeleteRequest
  <2> QED BY <1>4, <2>3, <2>4, <2>5, WorkerStepTyped DEF DeleteRequest
<1> QED BY <1>1, <1>2, <1>3, <1>4 DEF Proceed

LEMMA WorldTyped == Typed /\ World => Typed'
<1> SUFFICES ASSUME Typed, World PROVE Typed'
  OBVIOUS
<1> USE DEF Typed, WellFormed, TypeOK, WatcherShape, Named, Elsewhere, memory
<1>1. ASSUME NEW n \in Nodes, NEW ready \in Readiness, ChangeReadiness(n, ready)
      PROVE Typed'
  <2> DEFINE lost == IF ready = "Unknown" THEN node[n].losses + 1 ELSE node[n].losses
             changed == [node[n] EXCEPT !.ready = ready, !.losses = lost]
  <2>1. lost \in 0 .. MaxLosses
    BY <1>1, WatcherAssumption DEF ChangeReadiness, NodeRecord
  <2>2. node[n] \in NodeRecord /\ lost \in 0 .. MaxLosses
    BY <2>1
  <2>3. changed \in NodeRecord
    BY ONLY <2>2, ready \in Readiness DEF NodeRecord
  <2>4. node' = [node EXCEPT ![n] = changed]
    BY <1>1 DEF ChangeReadiness
  <2>5. node' \in [Nodes -> NodeRecord]
    BY <2>3, <2>4
  <2> QED BY <1>1, <2>5 DEF ChangeReadiness
<1>2. ASSUME NEW n \in Nodes, DeleteNode(n) PROVE Typed'
  <2> DEFINE k == [node[n] EXCEPT !.live = FALSE]
  <2>0. node \in [Nodes -> NodeRecord] /\ node[n] \in NodeRecord
    OBVIOUS
  <2>1. k \in NodeRecord
    BY ONLY <2>0 DEF NodeRecord
  <2>2. node' = [node EXCEPT ![n] = k]
    BY <1>2 DEF DeleteNode
  <2> HIDE DEF k
  <2>3. node' \in [Nodes -> NodeRecord]
    BY ONLY <2>0, <2>1, <2>2
  <2> QED BY <1>2, <2>3 DEF DeleteNode
<1>3. ASSUME NEW n \in Nodes, RegisterNode(n) PROVE Typed'
  <2> DEFINE k == [node[n] EXCEPT !.live = TRUE, !.ready = "True"]
  <2>0. node \in [Nodes -> NodeRecord] /\ node[n] \in NodeRecord
    OBVIOUS
  <2>1. k \in NodeRecord
    BY ONLY <2>0 DEF NodeRecord, Readiness
  <2>2. node' = [node EXCEPT ![n] = k]
    BY <1>3 DEF RegisterNode
  <2> HIDE DEF k
  <2>3. node' \in [Nodes -> NodeRecord]
    BY ONLY <2>0, <2>1, <2>2
  <2> QED BY <1>3, <2>3 DEF RegisterNode
<1>4. ASSUME NEW p \in Problems, NEW n \in Nodes, NEW report \in Reports,
             ReportProblem(p, n, report)
      PROVE Typed'
  <2>1. report \in [type : {"Normal", "Warning"}, component : Components]
    BY WatcherAssumption
  <2> QED BY <1>4, <2>1 DEF ReportProblem, ProblemRecord, Phases
<1>5. ASSUME NEW p \in Problems, ExpireProblem(p) PROVE Typed'
  BY <1>5 DEF ExpireProblem, ProblemRecord, Phases, Serious
<1> QED BY <1>1, <1>2, <1>3, <1>4, <1>5 DEF World

(* The process ends, by the fault that is counted here or one that is not. *)
Ending == Crash \/ (Stop /\ Granted)

LEMMA ProcessTyped ==
  Typed /\ (Ending \/ Restart \/ \E r \in Requests : Complete(r)) => Typed'
<1> SUFFICES ASSUME Typed, Ending \/ Restart \/ \E r \in Requests : Complete(r)
             PROVE  Typed'
  OBVIOUS
<1> USE DEF Typed, WellFormed, TypeOK, WatcherShape, Named
<1>1. CASE Ending
  <2>1. Stop /\ refusals' \in 0 .. MaxRefusals
    BY <1>1, RefuseTyped DEF Ending, Crash
  <2> QED BY <2>1, FreshTyped, IdleTyped DEF Stop, ForgetNodes, NothingQueued, world
<1>2. CASE Restart
  BY <1>2 DEF Restart, world, memory
<1>3. ASSUME NEW r \in Requests, Complete(r) PROVE Typed'
  <2> DEFINE R == [phase : Phases, target : Nodes \cup {None}, complete : BOOLEAN]
             done == [request[r] EXCEPT !.complete = TRUE]
  <2>1. request[r] \in R
    OBVIOUS
  <2>2. done \in R /\ done.target = request[r].target
    BY ONLY <2>1
  <2>3. request' = [request EXCEPT ![r] = done]
    BY <1>3 DEF Complete
  <2>4. RequestsTyped'
    BY <1>3, <2>2, <2>3, TypedParts DEF Complete, RequestsTyped
  <2>5. WorkersTyped'
    BY <1>3, TypedParts DEF Complete, WorkersTyped, memory
  <2> QED BY <1>3, <2>4, <2>5, TypedParts, WorkerStepTyped DEF Complete, memory
<1> QED BY <1>1, <1>2, <1>3

LEMMA NextTyped == Typed /\ [OpenNext]_vars => Typed'
<1>1. Typed /\ UNCHANGED vars => Typed'
  BY DEF Typed, WellFormed, TypeOK, WatcherShape, Named, vars, world, memory
<1> QED BY <1>1, NoticeTyped, TakeTyped, ProceedTyped, WorldTyped, ProcessTyped
        DEF OpenNext, Next, Ending, Watch

(* What is shown of the watcher in a process that may end at any time holds  *)
(* of it alone.                                                              *)
LEMMA OpenCovers == Spec => OpenSpec
<1>1. [Next]_vars => [OpenNext]_vars
  BY DEF OpenNext
<1> QED BY <1>1, PTL DEF Spec, OpenSpec

LEMMA OpenWellFormed == OpenSpec => []WellFormed
<1>1. Typed => WellFormed
  BY DEF Typed
<1> QED BY <1>1, InitTyped, NextTyped, PTL DEF OpenSpec

(* The variables hold what the Go types and the API objects allow, and a    *)
(* handler that is under way has a node to act for, always.                 *)
THEOREM WatcherWellFormed == Spec => []WellFormed
BY OpenCovers, OpenWellFormed, PTL

-----------------------------------------------------------------------------
(* Why a loss stays on record.                                             *)

(* Only the Node worker cancels, and it deletes what it listed for its node. *)
WorkersKeepTheirPurpose ==
  /\ watcher["Node"].pc # "getNode" /\ watcher["Event"].purpose = "create"
  /\ \A w \in Watchers : /\ watcher[w].pc = "idle" => watcher[w].target = None
                         /\ watcher[w].pc = "create" => watcher[w].purpose = "create"
                         /\ watcher[w].pc = "delete" => watcher[w].purpose = "cancel"
  /\ \A r \in watcher["Node"].todo :
       request[r].phase # "unborn" /\ request[r].target = watcher["Node"].target

(* A worker that cancels for a node which was lost since will be asked again. *)
LateCancelIsFollowedUp ==
  \A n \in Nodes :
    /\ watcher["Node"].target = n /\ watcher["Node"].purpose = "cancel"
    /\ Lost(seenNode[n])
    => n \in watchQueue.Node

(* The informer's copy has not seen more losses than there were, so that a   *)
(* copy that equals the node knows of its last loss.                         *)
CopiesLag == \A n \in Nodes : seenNode[n].losses <= node[n].losses

StoppedWatchesNothing == Running \/ watching = {}

LossKept == \A n \in Nodes : Lost(node[n]) /\ Attended(n) => OnRecord(n)

RecordInv ==
  /\ WorkersKeepTheirPurpose /\ LateCancelIsFollowedUp
  /\ CopiesLag /\ StoppedWatchesNothing /\ LossKept

-----------------------------------------------------------------------------
(* Each step keeps it.                                                     *)

LEMMA InitRecorded == Init => RecordInv
BY IdleTyped
DEF Init, InitWorld, StartWatching, RecordInv, WorkersKeepTheirPurpose,
    LateCancelIsFollowedUp, CopiesLag, StoppedWatchesNothing, LossKept, FreshNode,
    Lost, Watchers, Attended, Running

(* Steps that neither move a worker nor touch a request. *)
LEMMA NoticeRecorded == Typed /\ RecordInv /\ Notice => RecordInv'
<1> SUFFICES ASSUME Typed, RecordInv, Notice PROVE RecordInv'
  OBVIOUS
<1> USE TypedParts DEF RecordInv
<1>1. CASE SyncNodes
  <2>1. CopiesLag'
    BY <1>1 DEF SyncNodes, CopiesLag, world, NodeRecord
  <2>2. LateCancelIsFollowedUp' /\ LossKept'
    BY <1>1 DEF SyncNodes, LateCancelIsFollowedUp, LossKept, world, Lost, Attended
  <2> QED BY <1>1, <2>1, <2>2
          DEF SyncNodes, WorkersKeepTheirPurpose, StoppedWatchesNothing, Running
<1>2. CASE SyncProblems
  BY <1>2 DEF SyncProblems, WorkersKeepTheirPurpose, StoppedWatchesNothing, Running,
              CopiesLag, LateCancelIsFollowedUp, LossKept, world, Lost, Attended, OnRecord
<1>3. ASSUME NEW n \in Nodes, ObserveNode(n) PROVE RecordInv'
  <2>1. CopiesLag'
    BY <1>3 DEF ObserveNode, CopiesLag, world, NodeRecord
  <2>2. LateCancelIsFollowedUp'
    BY <1>3 DEF ObserveNode, LateCancelIsFollowedUp, Lost
  <2>3. LossKept'
    BY <1>3 DEF ObserveNode, LossKept, world, Lost, Attended, OnRecord, Running
  <2> QED BY <1>3, <2>1, <2>2, <2>3
          DEF ObserveNode, WorkersKeepTheirPurpose, StoppedWatchesNothing, Running
<1>4. ASSUME NEW p \in Problems, ObserveProblem(p) PROVE RecordInv'
  BY <1>4 DEF ObserveProblem, WorkersKeepTheirPurpose, StoppedWatchesNothing, Running,
              CopiesLag, LateCancelIsFollowedUp, LossKept, world, Lost, Attended, OnRecord
<1> QED BY <1>1, <1>2, <1>3, <1>4 DEF Notice

(* What the steps of the Event worker leave alone, and those of others that  *)
(* may only put a request on record or complete one.                         *)
LEMMA RecordGrows ==
  ASSUME Typed, RecordInv, WorkersKeepTheirPurpose',
         UNCHANGED <<world, seenNode, watching, process, watchQueue.Node,
                     watcher["Node"]>>,
         \A r \in Requests : request[r].phase # "unborn" => request'[r].phase # "unborn",
         \A r \in Requests : request[r].phase = "live" =>
            request'[r].phase = "live" /\ request'[r].target = request[r].target
  PROVE  RecordInv'
<1>1. \A n \in Nodes : OnRecord(n) => OnRecord(n)'
  BY DEF OnRecord
<1>2. LossKept'
  BY <1>1 DEF RecordInv, LossKept, Attended, Lost, Running, world
<1> QED BY <1>2 DEF RecordInv, LateCancelIsFollowedUp, CopiesLag,
                    StoppedWatchesNothing, Running, Lost, world

(* What any step of the Node worker does to a node it does not act for, and  *)
(* to the one it is done with, if a loss of it is on record.                 *)
LEMMA NodeWorkerRecords ==
  ASSUME Typed, RecordInv, WorkersKeepTheirPurpose',
         UNCHANGED <<world, seenNode, watching, process>>,
         LateCancelIsFollowedUp',
         \A n \in Nodes : Attended(n)' /\ Lost(node[n]) /\ ~Attended(n) => OnRecord(n)',
         \A n \in Nodes : Attended(n) /\ OnRecord(n) => OnRecord(n)'
  PROVE  RecordInv'
<1>1. \A n \in Nodes : Lost(node'[n]) <=> Lost(node[n])
  BY DEF world
<1>2. LossKept'
  BY <1>1 DEF RecordInv, LossKept
<1> QED BY <1>2 DEF RecordInv, CopiesLag, StoppedWatchesNothing, Running, world

(* A worker's new local, if it keeps to its purpose, keeps the invariant's.  *)
LEMMA GoKeepsPurpose ==
  ASSUME Typed, WorkersKeepTheirPurpose, NEW w \in Watchers, NEW k, Go(w, k),
         w = "Node" => k.pc # "getNode", w = "Event" => k.purpose = "create",
         k.pc = "idle" => k.target = None,
         k.pc = "create" => k.purpose = "create",
         k.pc = "delete" => k.purpose = "cancel",
         \A r \in Requests : request[r].phase # "unborn" =>
            request'[r].phase # "unborn" /\ request'[r].target = request[r].target,
         w = "Node" => \A r \in k.todo : /\ r \in Requests
                                         /\ request[r].phase # "unborn"
                                         /\ request[r].target = k.target
  PROVE  WorkersKeepTheirPurpose'
<1>1. watcher' = [watcher EXCEPT ![w] = k] /\ watcher \in [Watchers -> WatcherRecord]
  BY TypedParts DEF Go, WorkersTyped
<1>2. "Node" \in Watchers /\ "Event" \in Watchers
  BY DEF Watchers
<1>3. watcher["Node"].todo \subseteq Requests
  BY <1>1, <1>2 DEF WatcherRecord
<1> QED BY <1>1, <1>2, <1>3 DEF WorkersKeepTheirPurpose

LEMMA RestKeepsPurpose ==
  ASSUME Typed, WorkersKeepTheirPurpose, NEW w \in Watchers, Rest(w),
         \A r \in Requests : request[r].phase # "unborn" =>
            request'[r].phase # "unborn" /\ request'[r].target = request[r].target
  PROVE  WorkersKeepTheirPurpose'
BY IdleTyped, GoKeepsPurpose DEF Rest

LEMMA ActKeepsPurpose ==
  ASSUME Typed, WorkersKeepTheirPurpose, NEW w \in Watchers,
         NEW pc \in {"getNode", "list", "create"}, NEW n \in Nodes,
         NEW purpose \in {"create", "cancel"}, Act(w, pc, n, purpose),
         w = "Node" => pc # "getNode", w = "Event" => purpose = "create",
         pc = "create" => purpose = "create",
         UNCHANGED request
  PROVE  WorkersKeepTheirPurpose'
<1> DEFINE k == [Idle EXCEPT !.pc = pc, !.target = n, !.purpose = purpose]
<1>1. k.pc = pc /\ k.target = n /\ k.todo = {} /\ k.purpose = purpose /\ Go(w, k)
  BY DEF Act, Idle
<1> HIDE DEF k
<1> QED BY <1>1, GoKeepsPurpose

LEMMA TakeNodeRecorded ==
  ASSUME Typed, RecordInv, NEW n \in Nodes, TakeNode(n)
  PROVE  RecordInv'
<1>1. PICK purpose \in {"create", "cancel"} :
        Act("Node", "list", n, purpose) /\ (purpose = "cancel" => ~Lost(seenNode[n]))
  BY DEF TakeNode, isNodeDirty
<1>2. "Node" \in Watchers /\ watcher["Node"].target = None /\ watcher["Node"].pc = "idle"
  BY DEF TakeNode, RecordInv, WorkersKeepTheirPurpose, Watchers
<1>3. WorkersKeepTheirPurpose'
  BY <1>1, <1>2, ActKeepsPurpose DEF TakeNode, RecordInv
<1>4. watcher'["Node"].target = n /\ watcher'["Node"].purpose = purpose
  BY <1>1, <1>2, TypedParts DEF Act, Go, Idle, WorkersTyped
<1>5. watchQueue'.Node = watchQueue.Node \ {n}
  BY TypedParts DEF TakeNode
<1>6. LateCancelIsFollowedUp'
  BY <1>1, <1>4 DEF LateCancelIsFollowedUp, TakeNode, Lost
<1>7. \A m \in Nodes : Attended(m)' => Attended(m)
  BY <1>2, <1>4, <1>5, WatcherAssumption DEF Attended, TakeNode, Running, world
<1>8. \A m \in Nodes : OnRecord(m) => OnRecord(m)'
  BY DEF OnRecord, TakeNode
<1> QED BY <1>3, <1>6, <1>7, <1>8, NodeWorkerRecords DEF TakeNode

LEMMA EventStepRecorded ==
  ASSUME Typed, RecordInv,
         \/ \E p \in Problems : TakeProblem(p)
         \/ Proceed("Event")
  PROVE  RecordInv'
<1> DEFINE e == watcher["Event"]
<1>0. {"Node", "Event"} \subseteq Watchers /\ watcher \in [Watchers -> WatcherRecord]
      /\ WorkersKeepTheirPurpose
  BY TypedParts DEF Watchers, WorkersTyped, RecordInv
<1>1. ASSUME NEW p \in Problems, TakeProblem(p) PROVE RecordInv'
  <2>1. WorkersKeepTheirPurpose' /\ UNCHANGED watcher["Node"]
    <3>1. CASE Serious(seenProblem[p])
      <4>1. seenProblem[p].host \in Nodes
        BY <3>1 DEF Typed, Named
      <4>2. Act("Event", "getNode", seenProblem[p].host, "create") /\ UNCHANGED request
        BY <1>1, <3>1 DEF TakeProblem
      <4>3. WorkersKeepTheirPurpose'
        BY <1>0, <4>1, <4>2, ActKeepsPurpose
      <4> QED BY <1>0, <4>2, <4>3 DEF Act, Go
    <3>2. CASE ~Serious(seenProblem[p])
      BY <1>0, <1>1, <3>2 DEF TakeProblem, WorkersKeepTheirPurpose
    <3> QED BY <3>1, <3>2
  <2>2. UNCHANGED <<world, request, seenNode, watching, process, watchQueue.Node>>
    BY <1>1, TypedParts DEF TakeProblem
  <2> QED BY <2>1, <2>2, RecordGrows
<1>2. CASE GetNode("Event")
  <2>1. e.target \in Nodes /\ UNCHANGED <<world, request, seenNode, watching, process,
                                          watchQueue.Node>>
    BY <1>0, <1>2, TypedParts DEF GetNode, WorkersTyped
  <2>2. WorkersKeepTheirPurpose'
    BY <1>0, <1>2, <2>1, ActKeepsPurpose, RestKeepsPurpose DEF GetNode
  <2>3. UNCHANGED watcher["Node"]
    BY <1>0, <1>2 DEF GetNode, Act, Rest, Go
  <2> QED BY <2>1, <2>2, <2>3, RecordGrows
<1>3. CASE ListRequests("Event")
  <2>0. e.pc = "list" /\ UNCHANGED <<world, request, seenNode, watching, process,
                                     watchQueue>>
    BY <1>3 DEF ListRequests
  <2>1. e.target \in Nodes /\ UNCHANGED <<world, request, seenNode, watching, process,
                                          watchQueue.Node>>
    BY <1>0, <2>0, TypedParts DEF WorkersTyped
  <2>2. Act("Event", "create", e.target, "create") \/ Rest("Event")
    <3>1. e.purpose # "cancel"
      BY <1>0 DEF WorkersKeepTheirPurpose
    <3>2. \E found \in Answers(e.target) : Schedule("Event", found)
      BY <1>3, <3>1 DEF ListRequests
    <3> QED BY <3>2 DEF Schedule
  <2>3. WorkersKeepTheirPurpose'
    BY <1>0, <2>1, <2>2, ActKeepsPurpose, RestKeepsPurpose
  <2>4. UNCHANGED watcher["Node"]
    BY <1>0, <2>2 DEF Act, Rest, Go
  <2> QED BY <2>1, <2>3, <2>4, RecordGrows
<1>4. CASE CreateRequest("Event")
  <2>1. \A r \in Requests : request[r].phase # "unborn" => request'[r] = request[r]
    <3>1. CASE UNCHANGED request
      BY <3>1
    <3>2. CASE \E r \in Requests : /\ request[r].phase = "unborn"
                                   /\ request' = [request EXCEPT
                                                    ![r] = NewRequest(r, e.target)]
      BY <3>2, TypedParts DEF RequestsTyped
    <3> QED BY <1>4, <3>1, <3>2 DEF CreateRequest
  <2>2. \A r \in Requests : request[r].phase # "unborn" => request'[r].phase # "unborn"
    BY <2>1
  <2>3. Rest("Event") /\ UNCHANGED <<world, seenNode, watching, process, watchQueue.Node>>
    BY <1>4 DEF CreateRequest
  <2>4. WorkersKeepTheirPurpose'
    BY <1>0, <2>1, <2>3, RestKeepsPurpose
  <2>5. UNCHANGED watcher["Node"]
    BY <1>0, <2>3 DEF Rest, Go
  <2> QED BY <2>1, <2>2, <2>3, <2>4, <2>5, RecordGrows
<1>5. ASSUME NEW r \in Requests, DeleteRequest("Event", r) PROVE FALSE
  BY <1>0, <1>5 DEF DeleteRequest, WorkersKeepTheirPurpose
<1> QED BY <1>1, <1>2, <1>3, <1>4, <1>5 DEF Proceed

LEMMA NodeStepRecorded ==
  ASSUME Typed, RecordInv, Proceed("Node"), "createRequest" \notin Refusable
  PROVE  RecordInv'
<1> DEFINE e == watcher["Node"]
<1>0. PICK n :
      /\ n = e.target
      /\ {"Node", "Event"} \subseteq Watchers
      /\ watcher \in [Watchers -> WatcherRecord]
      /\ WorkersKeepTheirPurpose /\ LateCancelIsFollowedUp
  BY TypedParts DEF Watchers, WorkersTyped, RecordInv
(* What a step that ends the handler has to show. *)
<1>1. ASSUME Rest("Node"),
             UNCHANGED <<world, seenNode, watching, process, watchQueue>>,
             \A r \in Requests : request[r].phase # "unborn" =>
                request'[r].phase # "unborn" /\ request'[r].target = request[r].target,
             \A m \in Nodes : m # n /\ OnRecord(m) => OnRecord(m)',
             n \in Nodes, e.purpose = "cancel" \/ OnRecord(n)'
      PROVE  RecordInv'
  <2>1. WorkersKeepTheirPurpose'
    BY <1>0, <1>1, RestKeepsPurpose
  <2>2. watcher'["Node"].target = None
    BY <1>0, <1>1, IdleTyped DEF Rest, Go
  <2>3. LateCancelIsFollowedUp'
    BY <1>0, <2>2, WatcherAssumption DEF LateCancelIsFollowedUp
  <2>4. ASSUME NEW m \in Nodes, Attended(m)', Lost(node[m]), ~Attended(m)
        PROVE  OnRecord(m)'
    <3>1. m = n /\ seenNode[m] = node[m] /\ m \notin watchQueue.Node
      BY <1>0, <1>1, <2>4 DEF Attended, Running, world
    <3>2. e.purpose # "cancel"
      BY <1>0, <2>4, <3>1 DEF LateCancelIsFollowedUp
    <3> QED BY <1>0, <1>1, <3>1, <3>2
  <2>5. \A m \in Nodes : Attended(m) => m # n
    BY <1>0 DEF Attended
  <2> QED BY <1>0, <1>1, <2>1, <2>3, <2>4, <2>5, NodeWorkerRecords
(* What a step that goes on for the same node has to show. *)
<1>2. ASSUME WorkersKeepTheirPurpose', watcher'["Node"].target = n,
             watcher'["Node"].purpose = e.purpose,
             UNCHANGED <<world, seenNode, watching, process, watchQueue>>,
             \A m \in Nodes : m # n /\ OnRecord(m) => OnRecord(m)'
      PROVE  RecordInv'
  <2>1. LateCancelIsFollowedUp'
    BY <1>0, <1>2 DEF LateCancelIsFollowedUp
  <2>2. \A m \in Nodes : /\ Attended(m)' => Attended(m)
                         /\ Attended(m) => m # n
    BY <1>0, <1>2 DEF Attended, Running, world
  <2> QED BY <1>0, <1>2, <2>1, <2>2, NodeWorkerRecords
<1>3. GetNode("Node") => FALSE
  BY <1>0 DEF GetNode, WorkersKeepTheirPurpose
<1>4. CASE ListRequests("Node")
  <2>0. /\ e.pc = "list" /\ Answers(n) \subseteq SUBSET Listed(n)
        /\ UNCHANGED <<world, request, seenNode, watching, process, watchQueue>>
    BY <1>0, <1>4 DEF ListRequests, Answers
  <2>1. n \in Nodes /\ Listed(n) \subseteq Requests
    BY <1>0, <2>0, TypedParts DEF WorkersTyped, Listed
  <2>2. PICK found \in SUBSET Listed(n) :
          IF e.purpose = "cancel" THEN Cancel("Node", found) ELSE Schedule("Node", found)
    BY <1>0, <1>4, <2>0 DEF ListRequests
  <2>3. \A m \in Nodes : OnRecord(m) => OnRecord(m)'
    BY <1>0, <2>0 DEF OnRecord
  <2>4. CASE /\ Rest("Node")
             /\ e.purpose = "cancel" \/ \E r \in found : request[r].complete
    <3>1. e.purpose = "cancel" \/ OnRecord(n)'
      BY <1>0, <2>0, <2>1, <2>2, <2>4 DEF OnRecord, Listed
    <3> QED BY <1>0, <1>1, <2>0, <2>1, <2>3, <2>4, <3>1
  <2>5. CASE e.purpose # "cancel" /\ Act("Node", "create", n, "create")
    <3>1. WorkersKeepTheirPurpose'
      BY <1>0, <2>0, <2>1, <2>5, ActKeepsPurpose
    <3>2. watcher'["Node"].target = n /\ watcher'["Node"].purpose = "create"
      BY <1>0, <2>5 DEF Act, Go, Idle
    <3>3. e.purpose = "create"
      BY <1>0, <2>5 DEF WatcherRecord
    <3> QED BY <1>0, <1>2, <2>0, <2>3, <3>1, <3>2, <3>3
  <2>6. CASE /\ e.purpose = "cancel"
             /\ Go("Node", [e EXCEPT !.pc = "delete", !.todo = found])
    <3> DEFINE k == [e EXCEPT !.pc = "delete", !.todo = found]
    <3>1. k.pc = "delete" /\ k.target = n /\ k.purpose = "cancel" /\ k.todo = found
      BY <1>0, <2>6 DEF WatcherRecord
    <3>2. \A r \in found : /\ r \in Requests /\ request[r].phase # "unborn"
                           /\ request[r].target = n
      BY <1>0 DEF Listed
    <3>3. watcher'["Node"] = k /\ Go("Node", k)
      BY <1>0, <2>6 DEF Go
    <3> HIDE DEF k
    <3>4. WorkersKeepTheirPurpose'
      BY <1>0, <2>0, <3>1, <3>2, <3>3, GoKeepsPurpose
    <3> QED BY <1>0, <1>2, <2>0, <2>3, <2>6, <3>1, <3>3, <3>4
  <2> QED BY <1>0, <2>2, <2>4, <2>5, <2>6 DEF Schedule, Cancel
<1>5. CASE CreateRequest("Node")
  <2>0. /\ e.pc = "create" /\ Rest("Node")
        /\ UNCHANGED <<world, seenNode, watching, process, watchQueue>>
    BY <1>0, <1>5 DEF CreateRequest
  <2>1. n \in Nodes
    BY <1>0, <2>0, TypedParts DEF WorkersTyped
  <2>2. CASE \E r \in Requests : /\ request[r].phase = "unborn"
                                 /\ request' = [request EXCEPT ![r] = NewRequest(r, n)]
    <3>1. PICK r \in Requests : /\ request[r].phase = "unborn"
                                /\ request' = [request EXCEPT ![r] = NewRequest(r, n)]
      BY <1>0, <2>2
    <3>2. \A q \in Requests : request[q].phase # "unborn" => request'[q] = request[q]
      BY <1>0, <3>1, TypedParts DEF RequestsTyped
    <3>3. request'[r].phase = "live" /\ request'[r].target = n
      BY <1>0, <3>1, TypedParts DEF RequestsTyped, NewRequest
    <3>4. \A m \in Nodes : OnRecord(m) => OnRecord(m)'
      BY <1>0, <3>2, <3>3 DEF OnRecord
    <3>5. OnRecord(n)'
      BY <1>0, <3>3 DEF OnRecord
    <3> QED BY <1>0, <1>1, <2>0, <2>1, <3>2, <3>4, <3>5
  <2>3. CASE UNCHANGED request /\ \A r \in Requests : request[r].phase # "unborn"
    BY <1>0, <1>1, <2>0, <2>1, <2>3 DEF OnRecord
  <2>4. ~Refuse("createRequest")
    BY <1>0 DEF Refuse
  <2> QED BY <1>0, <1>5, <2>2, <2>3, <2>4 DEF CreateRequest
<1>6. ASSUME NEW r \in Requests, DeleteRequest("Node", r) PROVE RecordInv'
  <2> DEFINE left == e.todo \ {r}
             k == [e EXCEPT !.todo = left]
  <2>0. /\ e.pc = "delete" /\ r \in e.todo
        /\ UNCHANGED <<world, seenNode, watching, process, watchQueue>>
        /\ UNCHANGED request \/ request' = [request EXCEPT ![r].phase = "gone"]
    BY <1>0, <1>6 DEF DeleteRequest
  <2>1. n \in Nodes /\ e.purpose = "cancel" /\ request[r].target = n
    BY <1>0, <2>0, TypedParts DEF WorkersTyped, WorkersKeepTheirPurpose
  <2>2. \A q \in Requests : /\ request[q].phase # "unborn" => request'[q].phase # "unborn"
                            /\ request'[q].target = request[q].target
                            /\ q # r => request'[q] = request[q]
    BY <1>0, <2>0, TypedParts DEF RequestsTyped
  <2>3. \A m \in Nodes : m # n /\ OnRecord(m) => OnRecord(m)'
    BY <1>0, <2>1, <2>2 DEF OnRecord
  <2>4. CASE Rest("Node")
    BY <1>0, <1>1, <2>0, <2>1, <2>2, <2>3, <2>4
  <2>5. CASE Go("Node", k)
    <3>1. k.pc = "delete" /\ k.target = n /\ k.purpose = "cancel" /\ k.todo = left
      BY <1>0, <2>0, <2>1 DEF WatcherRecord
    <3>2. \A q \in left : /\ q \in Requests /\ request[q].phase # "unborn"
                          /\ request[q].target = n
      BY <1>0 DEF WorkersKeepTheirPurpose, WatcherRecord
    <3>3. watcher'["Node"] = k
      BY <1>0, <2>5 DEF Go
    <3> HIDE DEF k
    <3>4. WorkersKeepTheirPurpose'
      BY <1>0, <2>2, <2>5, <3>1, <3>2, GoKeepsPurpose
    <3> QED BY <1>0, <1>2, <2>0, <2>1, <2>3, <3>1, <3>3, <3>4
  <2> QED BY <1>0, <1>6, <2>4, <2>5 DEF DeleteRequest
<1> QED BY <1>0, <1>3, <1>4, <1>5, <1>6 DEF Proceed

LEMMA WorldRecorded == Typed /\ RecordInv /\ World => RecordInv'
<1> SUFFICES ASSUME Typed, RecordInv, World PROVE RecordInv'
  OBVIOUS
<1>1. CASE \E n \in Nodes : \/ \E ready \in Readiness : ChangeReadiness(n, ready)
                            \/ DeleteNode(n) \/ RegisterNode(n)
  <2>1. PICK n \in Nodes : \/ \E ready \in Readiness : ChangeReadiness(n, ready)
                           \/ DeleteNode(n) \/ RegisterNode(n)
    BY <1>1
  <2>2. /\ UNCHANGED Elsewhere
        /\ \A m \in Nodes : m # n => node'[m] = node[m]
    BY <2>1, TypedParts DEF ChangeReadiness, DeleteNode, RegisterNode
  <2>3. /\ node'[n].losses >= node[n].losses
        /\ Lost(node'[n]) => node'[n].losses > node[n].losses
    <3>1. node[n].losses \in Nat
      BY TypedParts DEF NodeRecord
    <3>2. CASE \E ready \in Readiness : ChangeReadiness(n, ready)
      BY <3>1, <3>2, TypedParts DEF ChangeReadiness, NodeRecord, Lost
    <3>3. CASE DeleteNode(n) \/ RegisterNode(n)
      BY <3>1, <3>3, TypedParts DEF DeleteNode, RegisterNode, NodeRecord, Lost
    <3> QED BY <2>1, <3>2, <3>3
  <2>4. node'[n].losses \in Nat /\ node[n].losses \in Nat /\ seenNode[n].losses \in Nat
    <3>1. node' \in [Nodes -> NodeRecord]
      BY WorldTyped DEF Typed, WellFormed, TypeOK
    <3> QED BY <3>1, TypedParts DEF NodeRecord
  <2>5. CopiesLag'
    BY <2>2, <2>3, <2>4 DEF RecordInv, CopiesLag, Elsewhere, memory
  <2>6. LossKept'
    <3>1. ~(Lost(node'[n]) /\ seenNode[n] = node'[n])
      BY <2>3, <2>4 DEF RecordInv, CopiesLag
    <3>2. \A m \in Nodes : m # n /\ Lost(node'[m]) /\ Attended(m)'
                           => Lost(node[m]) /\ Attended(m)
      BY <2>2 DEF Attended, Running, Elsewhere, memory
    <3>3. \A m \in Nodes : OnRecord(m)' <=> OnRecord(m)
      BY <2>2 DEF OnRecord, Elsewhere
    <3> QED BY <2>2, <3>1, <3>2, <3>3 DEF RecordInv, LossKept, Attended, Elsewhere, memory
  <2> QED BY <2>2, <2>5, <2>6
          DEF RecordInv, WorkersKeepTheirPurpose, LateCancelIsFollowedUp, Lost,
              StoppedWatchesNothing, Running, Elsewhere, memory
<1>2. CASE UNCHANGED <<node, Elsewhere>>
  BY <1>2 DEF RecordInv, WorkersKeepTheirPurpose, LateCancelIsFollowedUp, CopiesLag,
              StoppedWatchesNothing, LossKept, Lost, Attended, OnRecord, Running,
              Elsewhere, memory
<1> QED BY <1>1, <1>2 DEF World, ReportProblem, ExpireProblem

LEMMA ProcessRecorded ==
  Typed /\ RecordInv /\ (Ending \/ Restart \/ \E r \in Requests : Complete(r)) => RecordInv'
<1> SUFFICES ASSUME Typed, RecordInv, Ending \/ Restart \/ \E r \in Requests : Complete(r)
             PROVE  RecordInv'
  OBVIOUS
<1>1. CASE Ending
  BY <1>1, IdleTyped, TypedParts, WatcherAssumption
  DEF Ending, Crash, Stop, ForgetNodes, RecordInv, WorkersKeepTheirPurpose, LateCancelIsFollowedUp,
      CopiesLag, StoppedWatchesNothing, LossKept, FreshNode, Lost, Watchers, Attended,
      Running, world, NodeRecord
<1>2. CASE Restart
  BY <1>2
  DEF Restart, RecordInv, WorkersKeepTheirPurpose, LateCancelIsFollowedUp, CopiesLag,
      StoppedWatchesNothing, LossKept, Attended, Running, world, memory
<1>3. ASSUME NEW r \in Requests, Complete(r) PROVE RecordInv'
  <2>1. /\ \A q \in Requests : /\ request'[q].phase = request[q].phase
                              /\ request'[q].target = request[q].target
        /\ UNCHANGED <<world, memory, process>>
    BY <1>3, TypedParts DEF Complete, RequestsTyped
  <2>2. WorkersKeepTheirPurpose'
    <3>1. watcher["Node"].todo \subseteq Requests
      BY TypedParts DEF WorkersTyped, WatcherRecord, Watchers
    <3> QED BY <2>1, <3>1 DEF RecordInv, WorkersKeepTheirPurpose, memory
  <2> QED BY <2>1, <2>2, RecordGrows DEF memory
<1> QED BY <1>1, <1>2, <1>3

LEMMA NextRecorded ==
  Typed /\ RecordInv /\ "createRequest" \notin Refusable /\ [OpenNext]_vars => RecordInv'
<1>1. RecordInv /\ UNCHANGED vars => RecordInv'
  BY DEF RecordInv, WorkersKeepTheirPurpose, LateCancelIsFollowedUp, CopiesLag,
         StoppedWatchesNothing, LossKept, Lost, Attended, OnRecord, Running,
         vars, world, memory
<1> QED BY <1>1, NoticeRecorded, TakeNodeRecorded, EventStepRecorded, NodeStepRecorded,
           WorldRecorded, ProcessRecorded DEF OpenNext, Next, Ending, Watch, Watchers

LEMMA OpenLossStays == OpenSpec => []LossIsOnRecord
<1>1. CASE "createRequest" \in Refusable
  <2>1. LossIsOnRecord
    BY <1>1 DEF LossIsOnRecord
  <2> QED BY <2>1, PTL
<1>2. CASE "createRequest" \notin Refusable
  <2>1. Init => Typed /\ RecordInv
    BY InitTyped, InitRecorded
  <2>2. Typed /\ RecordInv /\ [OpenNext]_vars => (Typed /\ RecordInv)'
    BY <1>2, NextTyped, NextRecorded
  <2>3. Typed /\ RecordInv => LossIsOnRecord
    BY DEF RecordInv, LossKept, LossIsOnRecord
  <2> QED BY <2>1, <2>2, <2>3, PTL DEF OpenSpec
<1> QED BY <1>1, <1>2

(* A loss that the Node worker is done with is on record and stays so while  *)
(* the node is lost, whatever fails, crashes or is cancelled meanwhile, as   *)
(* long as creations are not refused.                                        *)
THEOREM LossStaysOnRecord == Spec => []LossIsOnRecord
BY OpenCovers, OpenLossStays, PTL
=============================================================================
