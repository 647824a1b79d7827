------------------------ MODULE ExecutionerOutcomes ------------------------
(***************************************************************************)
(* What becomes of a request, for every value of the constants: its        *)
(* outcome follows RequestLifecycle under the mapping Outcome, and its     *)
(* history claims no more attempts than there are Jobs.                    *)
(***************************************************************************)
EXTENDS ExecutionerSafety, FiniteSetTheorems

-----------------------------------------------------------------------------
(* The refinement of RequestLifecycle.                                     *)

OutcomeOf(req) ==
  [phase |-> req.phase, complete |-> req.complete,
   result |-> req.result, updates |-> req.updates]

OutcomeRecord ==
  [phase : Phases, complete : BOOLEAN, result : Results \cup {None},
   updates : Seq(Update)]

(* A step that changes one request changes one entry of the outcome. *)
LEMMA OneOutcome ==
  ASSUME Typed, NEW r \in Requests, NEW s, request' = [request EXCEPT ![r] = s]
  PROVE  Outcome' = [Outcome EXCEPT ![r] = OutcomeOf(s)]
<1>1. request' \in [Requests -> {request[q] : q \in Requests} \cup {s}]
  BY DEF Typed, TypeOK
<1>2. \A q \in Requests : request'[q] = IF q = r THEN s ELSE request[q]
  BY DEF Typed, TypeOK
<1>3. Outcome' = [q \in Requests |-> OutcomeOf(request'[q])]
  BY DEF Outcome, OutcomeOf
<1>4. Outcome = [q \in Requests |-> OutcomeOf(request[q])]
  BY DEF Outcome, OutcomeOf
<1> QED BY <1>2, <1>3, <1>4

LEMMA OutcomeFields ==
  ASSUME NEW req \in RequestRecord
  PROVE  /\ OutcomeOf(req) \in OutcomeRecord
         /\ OutcomeOf(req).phase = req.phase /\ OutcomeOf(req).complete = req.complete
         /\ OutcomeOf(req).result = req.result /\ OutcomeOf(req).updates = req.updates
BY DEF OutcomeOf, OutcomeRecord, RequestRecord

LEMMA OutcomeChange ==
  ASSUME NEW z \in OutcomeRecord, NEW x \in OutcomeRecord, x.phase = z.phase
  PROVE  /\ x.complete = TRUE =>
              x = [z EXCEPT !.complete = TRUE, !.result = x.result, !.updates = x.updates]
         /\ x.complete = z.complete /\ x.result = z.result =>
              x = [z EXCEPT !.updates = x.updates]
<1>1. ASSUME x.complete = TRUE
      PROVE  x = [z EXCEPT !.complete = TRUE, !.result = x.result, !.updates = x.updates]
  <2> DEFINE a == [z EXCEPT !.complete = TRUE]
             b == [a EXCEPT !.result = x.result]
             c == [b EXCEPT !.updates = x.updates]
  <2>1. a \in OutcomeRecord /\ a.phase = z.phase /\ a.complete = TRUE
    BY DEF OutcomeRecord
  <2> HIDE DEF a
  <2>2. b \in OutcomeRecord /\ b.phase = z.phase /\ b.complete = TRUE /\ b.result = x.result
    BY <2>1 DEF OutcomeRecord
  <2> HIDE DEF b
  <2>3. /\ c \in OutcomeRecord /\ c.phase = z.phase /\ c.complete = TRUE
        /\ c.result = x.result /\ c.updates = x.updates
    BY <2>2 DEF OutcomeRecord
  <2> HIDE DEF c
  <2>4. x = c
    BY <1>1, <2>3 DEF OutcomeRecord
  <2> QED BY <2>4 DEF a, b, c
<1>2. ASSUME x.complete = z.complete, x.result = z.result
      PROVE  x = [z EXCEPT !.updates = x.updates]
  <2> DEFINE c == [z EXCEPT !.updates = x.updates]
  <2>1. /\ c \in OutcomeRecord /\ c.phase = z.phase /\ c.complete = z.complete
        /\ c.result = z.result /\ c.updates = x.updates
    BY DEF OutcomeRecord
  <2> HIDE DEF c
  <2>2. x = c
    BY <1>2, <2>1 DEF OutcomeRecord
  <2> QED BY <2>2 DEF c
<1> QED BY <1>1, <1>2

LEMMA InitRefines == Init => L!Init
BY DEF Init, NoRequests, UnbornRequest, Outcome, L!Init

LEMMA SubmitRefines ==
  ASSUME Typed, NEW r \in Requests, NEW n \in Nodes, Submit(r, n)
  PROVE  L!Submit(r)
<1> DEFINE s == [request[r] EXCEPT !.phase = "live", !.target = n]
<1>1. request[r] \in RequestRecord /\ request' = [request EXCEPT ![r] = s]
  BY DEF Submit, Typed, TypeOK
<1>2. OutcomeOf(s) = [OutcomeOf(request[r]) EXCEPT !.phase = "live"]
  BY <1>1 DEF OutcomeOf, RequestRecord
<1> HIDE DEF s
<1>3. Outcome' = [Outcome EXCEPT ![r] = OutcomeOf(s)]
  BY <1>1, OneOutcome
<1>4. Outcome[r] = OutcomeOf(request[r])
  BY DEF Outcome, OutcomeOf
<1>5. Outcome[r].phase = "unborn"
  BY <1>4 DEF Submit, OutcomeOf
<1> QED BY <1>2, <1>3, <1>4, <1>5 DEF L!Submit

LEMMA WithdrawRefines ==
  ASSUME Typed, NEW r \in Requests, Withdraw(r)
  PROVE  L!Withdraw(r)
<1> DEFINE s == [request[r] EXCEPT !.phase = "gone"]
<1>1. request[r] \in RequestRecord /\ request' = [request EXCEPT ![r] = s]
  BY DEF Withdraw, Typed, TypeOK
<1>2. OutcomeOf(s) = [OutcomeOf(request[r]) EXCEPT !.phase = "gone"]
  BY <1>1 DEF OutcomeOf, RequestRecord
<1> HIDE DEF s
<1>3. Outcome' = [Outcome EXCEPT ![r] = OutcomeOf(s)]
  BY <1>1, OneOutcome
<1>4. Outcome[r] = OutcomeOf(request[r])
  BY DEF Outcome, OutcomeOf
<1>5. Outcome[r].phase = "live"
  BY <1>4 DEF Withdraw, OutcomeOf
<1> QED BY <1>2, <1>3, <1>4, <1>5 DEF L!Withdraw

(* A write that the API server takes is one entry of history, and it is the *)
(* outcome if the handler made it one.                                      *)
LEMMA WriteRefines ==
  ASSUME Typed, CopiesAreOrdered, NEW w \in Handlers, WriteStatus(w),
         Accepted(worker[w].req, worker[w].key),
         request' = [request EXCEPT ![worker[w].key] = Stored(worker[w].req)]
  PROVE  L!Next
<1> DEFINE r == worker[w].key
           req == worker[w].req
           s == Stored(req)
<1>1. r \in Requests /\ req \in RequestRecord
  BY DEF WriteStatus, Typed, TypeOK, WorkerRecord, WorkerShape, LocalsSet
<1>2. req.phase = "live" /\ Successor(req, r) /\ req.version = request[r].version
  BY DEF WriteStatus, CopiesAreOrdered, CopyOrdered, Accepted
<1>3. PICK u \in Update : req.updates = Append(request[r].updates, u)
  BY <1>2, Zenon DEF Successor
<1>4. /\ ~request[r].complete /\ request[r].phase = "live"
      /\ IF req.complete THEN req.result \in Results ELSE req.result = request[r].result
  BY <1>2, Zenon DEF Successor, Accepted
<1>5. /\ s.phase = "live" /\ s.complete = req.complete /\ s.result = req.result
      /\ s.updates = Append(request[r].updates, u)
  BY <1>1, <1>2, <1>3, StoredFields
<1> HIDE DEF s
<1>6. Outcome' = [Outcome EXCEPT ![r] = OutcomeOf(s)]
  BY <1>1, OneOutcome DEF s
<1>7. Outcome[r] = OutcomeOf(request[r]) /\ Outcome \in [Requests -> {OutcomeOf(request[q]) : q \in Requests}]
  BY <1>1 DEF Outcome, OutcomeOf
<1>8. Outcome[r].phase = "live" /\ ~Outcome[r].complete
  <2>1. Outcome[r].phase = request[r].phase /\ Outcome[r].complete = request[r].complete
    BY <1>7 DEF OutcomeOf
  <2> QED BY <1>4, <2>1, Zenon
<1> HIDE DEF r, req
<1>9. /\ Outcome[r] \in OutcomeRecord /\ s \in RequestRecord
      /\ s.updates \in Seq(Update) /\ s.updates = Append(Outcome[r].updates, u)
      /\ s.phase = Outcome[r].phase
  <2>1. request[r] \in RequestRecord /\ s \in RequestRecord
    BY <1>1, StoredTyped DEF s, Typed, TypeOK
  <2>2. /\ Outcome[r] \in OutcomeRecord
        /\ Outcome[r].phase = request[r].phase /\ Outcome[r].updates = request[r].updates
    BY <1>7, <2>1, OutcomeFields
  <2> QED BY <1>4, <1>5, <2>1, <2>2 DEF RequestRecord
<1>u. Len(Outcome[r].updates) < MaxUpdates
  <2>1. Outcome[r].updates = request[r].updates /\ request[r].updates \in Seq(Update)
    <3>1. request[r] \in RequestRecord
      BY <1>1 DEF Typed, TypeOK
    <3> QED BY <1>7, <3>1, OutcomeFields DEF RequestRecord
  <2>2. Len(req.updates) <= MaxUpdates
    BY DEF Accepted, req
  <2>3. Len(req.updates) = Len(request[r].updates) + 1
    BY <1>3, <2>1 DEF r, req
  <2> QED BY <2>1, <2>2, <2>3, BoundAssumption
<1> DEFINE x == OutcomeOf(s)
<1>10. /\ x \in OutcomeRecord /\ x.phase = Outcome[r].phase /\ x.complete = s.complete
       /\ x.result = s.result /\ x.updates = s.updates
  BY <1>9, OutcomeFields
<1> HIDE DEF x
<1>11. CASE req.complete
  <2>1. x.complete = TRUE /\ x.result \in Results
    BY <1>1, <1>4, <1>5, <1>10, <1>11 DEF RequestRecord
  <2>2. x = [Outcome[r] EXCEPT !.complete = TRUE, !.result = x.result,
                               !.updates = x.updates]
    BY <1>9, <1>10, <2>1, OutcomeChange
  <2>3. L!Finish(r, x.result, u)
    BY <1>6, <1>7, <1>8, <1>9, <1>10, <1>u, <2>2 DEF L!Finish, x
  <2> QED BY <1>1, <2>1, <2>3 DEF L!Next
<1>12. CASE ~req.complete
  <2>1. x.complete = Outcome[r].complete /\ x.result = Outcome[r].result
    <3>1. request[r] \in RequestRecord
      BY <1>1 DEF Typed, TypeOK
    <3>2. s.complete = request[r].complete /\ s.result = request[r].result
      BY <1>1, <1>4, <1>5, <1>12, <3>1 DEF RequestRecord
    <3> QED BY <1>7, <1>10, <3>1, <3>2, OutcomeFields
  <2>2. x = [Outcome[r] EXCEPT !.updates = x.updates]
    BY <1>9, <1>10, <2>1, OutcomeChange
  <2>3. L!Record(r, u)
    BY <1>6, <1>7, <1>8, <1>9, <1>10, <1>u, <2>2 DEF L!Record, x
  <2> QED BY <1>1, <2>3 DEF L!Next
<1> QED BY <1>11, <1>12

LEMMA NextRefines ==
  ASSUME Typed, CopiesAreOrdered, [Next]_vars
  PROVE  L!Next \/ UNCHANGED Outcome
<1>1. CASE UNCHANGED request
  BY <1>1 DEF Outcome
<1>2. ASSUME NEW w \in Handlers, WriteStatus(w) PROVE L!Next \/ UNCHANGED Outcome
  BY <1>1, <1>2, WriteRefines DEF WriteStatus
<1>3. ASSUME NEW r \in Requests, NEW n \in Nodes, Submit(r, n) PROVE L!Next
  BY <1>3, SubmitRefines DEF L!Next
<1>4. ASSUME NEW r \in Requests, Withdraw(r) PROVE L!Next
  BY <1>4, WithdrawRefines DEF L!Next
<1>5. CASE Cluster
  BY <1>1, <1>3, <1>4, <1>5 DEF Cluster, EditConfigMap, StartPod, PodSucceeds,
     PodFails, RemoveJob
<1>6. CASE Handle
  <2>1. ASSUME NEW w \in Handlers, Step(w), ~WriteStatus(w) PROVE UNCHANGED request
    BY <2>1 DEF Step, LookupRequest, HandleFencingJob, ChooseConfig, VisitConfig,
       EndVisit, ChooseMethod, CreateJob, Panic, server
  <2> QED BY <1>1, <1>2, <1>6, <2>1 DEF Handle, TakeRequest, TakeJob, server
<1>7. CASE Inform \/ Load \/ Crash \/ Restart \/ ConcurrentMapAccess \/ UNCHANGED vars
  BY <1>1, <1>7 DEF Inform, SyncRequests, SyncJobs, SyncMaps, ObserveRequest, ObserveJob,
     ObserveMap, Load, ParseConfigMap, TakeConfigMap, Crash, Restart,
     ConcurrentMapAccess, Panic, server, vars
<1> QED BY <1>5, <1>6, <1>7 DEF Next, Operator

(* The executioner implements the lifecycle it promises: a history that     *)
(* only grows, at most one final result, and nothing after it, whatever     *)
(* the two workers, the informers and the faults do to the copies.          *)
THEOREM ImplementsLifecycle == Spec => Lifecycle
<1> DEFINE I == Typed /\ CopiesAreOrdered
<1>1. Init => I
  BY InitTyped, InitOrdered
<1>2. I /\ [Next]_vars => I'
  BY NextTyped, NextOrdered
<1>3. I /\ [Next]_vars => [L!Next]_Outcome
  BY NextRefines
<1> QED BY <1>1, <1>2, <1>3, InitRefines, PTL DEF Spec, Lifecycle, L!Spec

LP == INSTANCE RequestLifecycleProofs
        WITH status <- Outcome, Updates <- Update, NoResult <- None

LEMMA OutcomeTyped == Typed => LP!TypeOK
<1> SUFFICES ASSUME Typed, NEW r \in Requests
             PROVE  Outcome[r] \in LP!StatusRecord
  BY DEF LP!TypeOK, Outcome
<1>1. request[r] \in RequestRecord
  BY DEF Typed, TypeOK
<1> QED BY <1>1 DEF Outcome, LP!StatusRecord, LP!Phases, RequestRecord, Phases

(* So a recorded outcome is final: what the lifecycle guarantees holds of   *)
(* the status that the API server keeps.                                    *)
THEOREM OutcomeStaysFinal == Spec => OutcomeIsFinal
<1> DEFINE I == Typed /\ CopiesAreOrdered
<1>1. Init => I
  BY InitTyped, InitOrdered
<1>2. I /\ [Next]_vars => I'
  BY NextTyped, NextOrdered
<1>3. LP!Next <=> L!Next
  BY DEF LP!Next, L!Next, LP!Submit, L!Submit, LP!Withdraw, L!Withdraw,
     LP!Record, L!Record, LP!Finish, L!Finish
<1>4. LP!FinalOrGrowing <=> L!FinalOrGrowing
  BY DEF LP!FinalOrGrowing, L!FinalOrGrowing, LP!History, L!History
<1>5. I /\ [Next]_vars => [L!FinalOrGrowing]_Outcome
  BY <1>3, <1>4, NextRefines, OutcomeTyped, LP!NextFinalOrGrowing
<1> QED BY <1>1, <1>2, <1>5, PTL DEF Spec, OutcomeIsFinal, L!OutcomeIsFinal

-----------------------------------------------------------------------------
(* The attempts that a history claims.                                     *)

Attempts(updates) == Cardinality(Claims(updates))
Started(r) == Cardinality(JobsOf(r))

(* A handler whose write the server would take claims no more than that. *)
ClaimsBacked(k) ==
  k.pc = "write" /\ k.req.version = request[k.key].version
    => Attempts(k.req.updates) <= Started(k.key)

ProgressInv ==
  /\ \A r \in Requests : IsFiniteSet(JobsOf(r))
  /\ ProgressMeansJobs
  /\ \A w \in Handlers : ClaimsBacked(worker[w])

-----------------------------------------------------------------------------
(* Histories.                                                              *)

LEMMA ClaimsCounted ==
  ASSUME NEW s \in Seq(Update)
  PROVE  IsFiniteSet(Claims(s)) /\ Attempts(s) \in Nat
<1>1. Claims(s) \subseteq 1 .. Len(s) /\ Len(s) \in Nat
  BY DEF Claims
<1>2. IsFiniteSet(1 .. Len(s))
  BY FS_Interval
<1>3. IsFiniteSet(Claims(s))
  BY <1>1, <1>2, FS_Subset
<1> QED BY <1>3, FS_CardinalityType DEF Attempts

LEMMA ClaimsOfAppend ==
  ASSUME NEW s \in Seq(Update), NEW u \in Update
  PROVE  /\ Attempts(s) \in Nat
         /\ Attempts(Append(s, u)) =
              IF u.message = "MethodInProgress" THEN Attempts(s) + 1 ELSE Attempts(s)
<1> DEFINE n == Len(s) + 1
<1>1. n \notin Claims(s)
  BY DEF Claims
<1>2. Claims(Append(s, u)) =
        IF u.message = "MethodInProgress" THEN Claims(s) \cup {n} ELSE Claims(s)
  BY DEF Claims
<1>3. Cardinality(Claims(s) \cup {n}) = Cardinality(Claims(s)) + 1
  BY <1>1, ClaimsCounted, FS_AddElement
<1> QED BY <1>2, <1>3, ClaimsCounted DEF Attempts

LEMMA AddResultAppends ==
  ASSUME NEW req \in RequestRecord, NEW m, NEW res
  PROVE  /\ AddResult(req, m, res).version = req.version
         /\ AddResult(req, m, res).updates
              = Append(req.updates, [method |-> m, message |-> res])
BY DEF AddResult, RequestRecord

LEMMA SetFinalResultAppends ==
  ASSUME NEW req \in RequestRecord, NEW res \in Results
  PROVE  /\ SetFinalResult(req, res).version = req.version
         /\ SetFinalResult(req, res).updates
              = Append(req.updates, [method |-> None, message |-> res])
<1> DEFINE done == [req EXCEPT !.complete = TRUE, !.result = res]
<1>1. done \in RequestRecord /\ done.version = req.version /\ done.updates = req.updates
  BY DEF RequestRecord
<1> HIDE DEF done
<1>2. SetFinalResult(req, res) = AddResult(done, None, res)
  BY DEF SetFinalResult, done
<1> QED BY <1>1, <1>2, AddResultAppends

(* An entry that claims no attempt. *)
NoClaim == {u \in Update : u.message # "MethodInProgress"}

LEMMA ResultClaimsNothing ==
  ASSUME NEW m \in Methods \cup {None}, NEW res \in Results
  PROVE  [method |-> m, message |-> res] \in NoClaim
BY DEF NoClaim, Update, Messages, Results, Failures

LEMMA MethodErrorAppends ==
  ASSUME NEW req \in RequestRecord, NEW m \in Methods, NEW last \in BOOLEAN
  PROVE  /\ MethodError(req, m, last).version = req.version
         /\ \E u \in NoClaim : MethodError(req, m, last).updates = Append(req.updates, u)
<1>1. "GivingUp" \in Results
  BY DEF Results, Failures
<1>2. CASE last
  <2>1. [method |-> None, message |-> "GivingUp"] \in NoClaim
    BY <1>1, ResultClaimsNothing
  <2> QED BY <1>1, <1>2, <2>1, SetFinalResultAppends DEF MethodError
<1>3. CASE ~last
  <2>1. [method |-> m, message |-> "GivingUp"] \in NoClaim
    BY <1>1, ResultClaimsNothing
  <2> QED BY <1>3, <2>1, AddResultAppends DEF MethodError
<1> QED BY <1>2, <1>3

-----------------------------------------------------------------------------
(* Jobs.                                                                   *)

LEMMA OneJobChanges ==
  ASSUME Typed, [Next]_vars
  PROVE  \E j : \A i \in Jobs : i # j => job'[i] = job[i]
<1>1. CASE UNCHANGED job
  BY <1>1
<1>2. CASE \E w \in Handlers : CreateJob(w)
  BY <1>2 DEF CreateJob, Typed, TypeOK
<1>3. CASE \E j \in Jobs : StartPod(j) \/ PodSucceeds(j) \/ PodFails(j) \/ RemoveJob(j)
  BY <1>3 DEF StartPod, PodSucceeds, PodFails, RemoveJob, Typed, TypeOK
<1>4. CASE Inform \/ Load \/ Crash \/ Restart \/ ConcurrentMapAccess \/ UNCHANGED vars
  BY <1>1, <1>4 DEF Inform, SyncRequests, SyncJobs, SyncMaps, ObserveRequest, ObserveJob,
     ObserveMap, Load, ParseConfigMap, TakeConfigMap, Crash, Restart,
     ConcurrentMapAccess, Panic, server, vars
<1>5. CASE Handle
  <2>1. ASSUME NEW w \in Handlers, Step(w), ~CreateJob(w) PROVE UNCHANGED job
    BY <2>1 DEF Step, LookupRequest, HandleFencingJob, ChooseConfig, VisitConfig,
       EndVisit, ChooseMethod, WriteStatus, Panic, server
  <2> QED BY <1>1, <1>2, <1>5, <2>1 DEF Handle, TakeRequest, TakeJob, server
<1>6. CASE Cluster
  BY <1>1, <1>3, <1>6 DEF Cluster, Submit, Withdraw, EditConfigMap
<1> QED BY <1>4, <1>5, <1>6 DEF Next, Operator

LEMMA JobsGrow ==
  ASSUME Typed, [Next]_vars, NEW r \in Requests, IsFiniteSet(JobsOf(r))
  PROVE  /\ IsFiniteSet(JobsOf(r)') /\ Started(r) \in Nat /\ Started(r)' \in Nat
         /\ Started(r) <= Started(r)'
         /\ JobsOf(r)' # JobsOf(r) => Started(r)' >= Started(r) + 1
<1> DEFINE old == JobsOf(r)
           new == JobsOf(r)'
<1>1. old \subseteq new
  BY NextAdvances DEF JobsAdvance, JobsOf
<1>2. PICK j : \A i \in Jobs : i # j => job'[i] = job[i]
  BY OneJobChanges
<1>3. new = old \/ (new = old \cup {j} /\ j \notin old)
  BY <1>1, <1>2 DEF JobsOf
<1> HIDE DEF old, new
<1>4. IsFiniteSet(old)
  BY DEF old
<1>5. IsFiniteSet(new) /\ Cardinality(old) \in Nat
      /\ (new # old => Cardinality(new) = Cardinality(old) + 1)
  BY <1>3, <1>4, FS_AddElement, FS_CardinalityType
<1> QED BY <1>5 DEF Started, old, new

-----------------------------------------------------------------------------
(* Requests: the server's history is extended only by an accepted write.   *)

LEMMA RequestSteps ==
  ASSUME Typed, [Next]_vars, NEW r \in Requests
  PROVE  \/ /\ request'[r].updates = request[r].updates
            /\ request'[r].version = request[r].version
         \/ \E w \in Handlers :
              /\ worker[w].pc = "write" /\ worker[w].key = r
              /\ worker[w].req.version = request[r].version
              /\ request'[r].updates = worker[w].req.updates
              /\ request'[r].version = request[r].version + 1
<1>1. CASE UNCHANGED request
  BY <1>1
<1>2. ASSUME NEW w \in Handlers, WriteStatus(w), ~UNCHANGED request
      PROVE  \/ request'[r] = request[r]
             \/ /\ worker[w].pc = "write" /\ worker[w].key = r
                /\ worker[w].req.version = request[r].version
                /\ request'[r].updates = worker[w].req.updates
                /\ request'[r].version = request[r].version + 1
  <2> DEFINE key == worker[w].key
             req == worker[w].req
  <2>1. key \in Requests /\ req \in RequestRecord /\ worker[w].pc = "write"
    BY <1>2 DEF WriteStatus, Typed, TypeOK, WorkerRecord, WorkerShape, LocalsSet
  <2>2. Accepted(req, key) /\ request' = [request EXCEPT ![key] = Stored(req)]
    BY <1>2 DEF WriteStatus
  <2>3. Stored(req).updates = req.updates /\ Stored(req).version = req.version + 1
    BY <2>1, StoredFields
  <2>4. CASE key = r
    BY <2>1, <2>2, <2>3, <2>4 DEF Accepted, Typed, TypeOK
  <2>5. CASE key # r
    BY <2>2, <2>5 DEF Typed, TypeOK
  <2> QED BY <2>4, <2>5
<1>3. ASSUME NEW q \in Requests, (\E n \in Nodes : Submit(q, n)) \/ Withdraw(q)
      PROVE  /\ request'[r].updates = request[r].updates
             /\ request'[r].version = request[r].version
  <2>1. request[q] \in RequestRecord /\ request \in [Requests -> RequestRecord]
    BY DEF Typed, TypeOK
  <2>2. ASSUME NEW n \in Nodes, Submit(q, n)
        PROVE  request' = [request EXCEPT ![q] = [request[q] EXCEPT !.phase = "live",
                                                                    !.target = n]]
    BY <2>1, <2>2 DEF Submit
  <2>3. CASE Withdraw(q)
    BY <2>1, <2>3 DEF Withdraw, RequestRecord
  <2>4. ASSUME NEW n \in Nodes, Submit(q, n)
        PROVE  /\ request'[r].updates = request[r].updates
               /\ request'[r].version = request[r].version
    <3>1. request'[q] = [request[q] EXCEPT !.phase = "live", !.target = n]
      BY <2>1, <2>2, <2>4
    <3>2. r # q => request'[r] = request[r]
      BY <2>1, <2>2, <2>4
    <3> QED BY <2>1, <3>1, <3>2 DEF RequestRecord
  <2> QED BY <1>3, <2>3, <2>4
<1>4. CASE Cluster
  BY <1>1, <1>3, <1>4 DEF Cluster, EditConfigMap, StartPod, PodSucceeds, PodFails, RemoveJob
<1>5. CASE Handle
  <2>1. ASSUME NEW w \in Handlers, Step(w), ~WriteStatus(w) PROVE UNCHANGED request
    BY <2>1 DEF Step, LookupRequest, HandleFencingJob, ChooseConfig, VisitConfig,
       EndVisit, ChooseMethod, CreateJob, Panic, server
  <2> QED BY <1>1, <1>2, <1>5, <2>1 DEF Handle, TakeRequest, TakeJob, server
<1>6. CASE Inform \/ Load \/ Crash \/ Restart \/ ConcurrentMapAccess \/ UNCHANGED vars
  BY <1>1, <1>6 DEF Inform, SyncRequests, SyncJobs, SyncMaps, ObserveRequest, ObserveJob,
     ObserveMap, Load, ParseConfigMap, TakeConfigMap, Crash, Restart,
     ConcurrentMapAccess, Panic, server, vars
<1> QED BY <1>4, <1>5, <1>6 DEF Next, Operator

-----------------------------------------------------------------------------
(* Workers: how one comes to be about to write.                            *)

(* out is written on top of req, with a new Job if it claims an attempt. *)
Extends(out, req, r) ==
  /\ out.version = req.version
  /\ \E u \in Update :
       /\ out.updates = Append(req.updates, u)
       /\ u.message = "MethodInProgress" => JobsOf(r)' # JobsOf(r)

(* Worker w starts to write on top of an up to date copy. *)
Enters(w) ==
  \E r \in Requests, req \in RequestRecord :
    /\ worker[w].key = r /\ worker'[w].key = r /\ worker'[w].pc = "write"
    /\ UpToDate(req, r) /\ Extends(worker'[w].req, req, r)

LEMMA GotoWrite ==
  ASSUME Typed, NEW w \in Handlers, NEW out, Goto(w, "write", out)
  PROVE  /\ worker'[w].pc = "write" /\ worker'[w].key = worker[w].key
         /\ worker'[w].req = out
BY DEF Goto, IdleWorker, Typed, TypeOK

LEMMA EntersWithout ==
  ASSUME Typed, NEW w \in Handlers, NEW r \in Requests, worker[w].key = r,
         NEW req \in RequestRecord, UpToDate(req, r), NEW out,
         out.version = req.version,
         NEW u \in NoClaim, out.updates = Append(req.updates, u), Goto(w, "write", out)
  PROVE  Enters(w)
<1>1. u \in Update /\ u.message # "MethodInProgress"
  BY DEF NoClaim
<1>2. Extends(out, req, r)
  BY <1>1, Zenon DEF Extends
<1>3. worker'[w].key = r /\ worker'[w].pc = "write" /\ worker'[w].req = out
  BY GotoWrite
<1> QED BY <1>2, <1>3 DEF Enters

LEMMA LookupEnters ==
  ASSUME Typed, CopiesAreOrdered, NEW w \in Handlers, LookupRequest(w)
  PROVE  Enters(w) \/ worker'[w].pc # "write"
<1>0. PICK r \in Requests : r = worker[w].key
  BY DEF LookupRequest, Typed, TypeOK, WorkerShape, LocalsSet
<1> DEFINE req == request[r]
           out == SetFinalResult(req, "Complete")
<1>1. req \in RequestRecord
  BY DEF Typed, TypeOK
<1>2. CASE Write(w, out)
  <2>1. "Complete" \in Results
    BY DEF Results
  <2>2. /\ out.version = req.version
        /\ out.updates = Append(req.updates, [method |-> None, message |-> "Complete"])
    BY <1>1, <2>1, SetFinalResultAppends
  <2>3. [method |-> None, message |-> "Complete"] \in NoClaim
    BY <2>1, ResultClaimsNothing
  <2>4. UpToDate(req, r) /\ Goto(w, "write", out)
    BY <1>2, ServerUpToDate DEF Write
  <2> HIDE DEF out, req
  <2> QED BY <1>0, <1>1, <2>2, <2>3, <2>4, EntersWithout
<1>3. CASE Finish(w)
  BY <1>3 DEF Finish, IdleWorker, Typed, TypeOK
<1>4. CASE Panic
  BY <1>4 DEF Panic, Forget, AllIdle, IdleWorker
<1>5. CASE Goto(w, "choose", req)
  BY <1>5 DEF Goto, IdleWorker, Typed, TypeOK
<1>6. CASE HandleFencingJob(w, req)
  BY <1>2, <1>3, <1>4, <1>5, <1>6 DEF HandleFencingJob
<1> QED BY <1>0, <1>3, <1>6 DEF LookupRequest

LEMMA EndVisitEnters ==
  ASSUME Typed, CopiesAreOrdered, NEW w \in Handlers, EndVisit(w)
  PROVE  Enters(w) \/ worker'[w].pc # "write"
<1> DEFINE req == worker[w].req
           out == SetFinalResult(req, "NoConfig")
<1>1. CASE NoConfigFound(w)
  <2>1. "NoConfig" \in Results
    BY DEF Results, Failures
  <2>2. PICK r \in Requests :
          r = worker[w].key /\ req \in RequestRecord /\ UpToDate(req, r)
    BY BusyCopy DEF EndVisit, Busy
  <2>3. /\ out.version = req.version
        /\ out.updates = Append(req.updates, [method |-> None, message |-> "NoConfig"])
    BY <2>1, <2>2, SetFinalResultAppends
  <2>4. [method |-> None, message |-> "NoConfig"] \in NoClaim
    BY <2>1, ResultClaimsNothing
  <2>5. Goto(w, "write", out)
    BY <1>1 DEF NoConfigFound, Write
  <2> HIDE DEF out, req
  <2> QED BY <2>2, <2>3, <2>4, <2>5, EntersWithout
<1>2. CASE worker[w].chosen # None
  BY <1>2 DEF EndVisit, Typed, TypeOK, WorkerRecord
<1> QED BY <1>1, <1>2 DEF EndVisit

(* A method's failure is recorded. *)
LEMMA ErrorEnters ==
  ASSUME Typed, CopiesAreOrdered, NEW w \in Handlers, worker[w].pc \in Busy,
         NEW m \in Methods, NEW last \in BOOLEAN,
         Write(w, MethodError(worker[w].req, m, last))
  PROVE  Enters(w)
<1> DEFINE req == worker[w].req
           out == MethodError(req, m, last)
<1>1. PICK r \in Requests :
        r = worker[w].key /\ req \in RequestRecord /\ UpToDate(req, r)
  BY BusyCopy
<1>2. out.version = req.version /\ \E u \in NoClaim : out.updates = Append(req.updates, u)
  BY <1>1, MethodErrorAppends
<1>3. Goto(w, "write", out)
  BY DEF Write
<1> HIDE DEF out, req
<1> QED BY <1>1, <1>2, <1>3, EntersWithout

LEMMA ChooseMethodEnters ==
  ASSUME Typed, CopiesAreOrdered, NEW w \in Handlers, ChooseMethod(w)
  PROVE  Enters(w) \/ worker'[w].pc # "write"
<1> DEFINE methods == worker[w].cfg.methods
<1>1. worker[w].pc \in Busy /\ worker[w].cfg \in Contents
  BY DEF ChooseMethod, Busy, Typed, TypeOK, WorkerShape, LocalsSet
<1>2. ASSUME NEW i \in 1 .. Len(methods),
             Write(w, MethodError(worker[w].req, methods[i], i = Len(methods)))
      PROVE  Enters(w)
  <2>1. methods[i] \in Methods /\ (i = Len(methods)) \in BOOLEAN
    BY <1>1, MethodTyped
  <2> QED BY <1>1, <1>2, <2>1, ErrorEnters
<1>3. CASE Panic \/ Finish(w)
  BY <1>3 DEF Panic, Forget, AllIdle, Finish, IdleWorker, Typed, TypeOK
<1>4. ASSUME NEW i, worker' = [worker EXCEPT ![w].pc = "create", ![w].attempt = i]
      PROVE  worker'[w].pc # "write"
  BY <1>4 DEF Typed, TypeOK, WorkerRecord
<1> QED BY <1>2, <1>3, <1>4 DEF ChooseMethod, ChosenMethod

LEMMA CreateJobEnters ==
  ASSUME Typed, CopiesAreOrdered, NEW w \in Handlers, CreateJob(w)
  PROVE  Enters(w)
<1> DEFINE req == worker[w].req
           methods == worker[w].cfg.methods
           m == methods[worker[w].attempt]
           last == worker[w].attempt = Len(methods)
           held(j) == [req EXCEPT !.activeJob = j]
<1>1. /\ worker[w].pc \in Busy /\ worker[w].cfg \in Contents
      /\ worker[w].attempt \in 1 .. Len(methods)
  BY DEF CreateJob, Typed, TypeOK, WorkerShape, LocalsSet, Busy
<1>2. m \in Methods /\ last \in BOOLEAN
  BY <1>1, MethodTyped
<1>3. PICK r \in Requests :
        r = worker[w].key /\ req \in RequestRecord /\ UpToDate(req, r)
  BY <1>1, BusyCopy
<1>4. CASE Write(w, MethodError(req, m, last))
  BY <1>1, <1>2, <1>4, ErrorEnters
<1>5. ASSUME NEW j \in Jobs, job[j].phase = "unborn",
             job' = [job EXCEPT ![j] = [UnbornJob EXCEPT !.phase = "live",
                       !.owner = worker[w].key, !.config = req.config, !.method = m]],
             Write(w, AddResult(held(j), m, "MethodInProgress"))
      PROVE  Enters(w)
  <2> DEFINE h == held(j)
             out == AddResult(h, m, "MethodInProgress")
             u == [method |-> m, message |-> "MethodInProgress"]
  <2>1. h \in RequestRecord /\ h.version = req.version /\ h.updates = req.updates
    BY <1>3 DEF RequestRecord
  <2>2. u \in Update
    BY <1>2 DEF Update, Messages
  <2>3. j \in JobsOf(r)' /\ j \notin JobsOf(r)
    <3>1. job'[j].phase = "live" /\ job'[j].owner = r
      BY <1>3, <1>5 DEF Typed, TypeOK, UnbornJob
    <3> QED BY <1>5, <3>1 DEF JobsOf
  <2> HIDE DEF h, m
  <2>4. out.version = req.version /\ out.updates = Append(req.updates, u)
    <3>1. \A x \in RequestRecord :
            /\ AddResult(x, m, "MethodInProgress").version = x.version
            /\ AddResult(x, m, "MethodInProgress").updates = Append(x.updates, u)
      BY AddResultAppends
    <3> QED BY <2>1, <3>1
  <2>5. Goto(w, "write", out)
    BY <1>5 DEF Write, h
  <2> HIDE DEF out, u
  <2>6. Extends(out, req, r)
    BY <2>2, <2>3, <2>4, Zenon DEF Extends
  <2>7. worker'[w].key = worker[w].key /\ worker'[w].pc = "write" /\ worker'[w].req = out
    BY <2>5, GotoWrite
  <2> QED BY <1>3, <2>6, <2>7 DEF Enters
<1> QED BY <1>4, <1>5 DEF CreateJob

LEMMA StepEnters ==
  ASSUME Typed, CopiesAreOrdered, NEW w \in Handlers, Step(w)
  PROVE  Enters(w) \/ worker'[w].pc # "write"
<1>0. worker \in [Handlers -> WorkerRecord] /\ worker[w] \in WorkerRecord
  BY DEF Typed, TypeOK
<1>1. ASSUME WriteStatus(w) PROVE worker'[w].pc # "write"
  BY <1>0, <1>1 DEF WriteStatus, Finish, IdleWorker
<1>2. ASSUME ChooseConfig(w) PROVE worker'[w].pc # "write"
  BY <1>0, <1>2 DEF ChooseConfig, WorkerRecord
<1>3. ASSUME NEW c \in ConfigMaps, VisitConfig(w, c)
      PROVE  worker'[w].pc # "write"
  <2>1. CASE Panic
    BY <2>1 DEF Panic, Forget, AllIdle, IdleWorker
  <2> DEFINE turn == [worker[w] EXCEPT !.visited = @ \cup {c}]
             taken == [turn EXCEPT !.chosen = c, !.cfg = fencingConfigs[c]]
  <2>2. turn.pc = worker[w].pc /\ taken.pc = worker[w].pc
    BY <1>0 DEF WorkerRecord
  <2>3. \/ Panic
        \/ /\ worker[w].pc = "visit"
           /\ worker' = [worker EXCEPT ![w] = turn] \/ worker' = [worker EXCEPT ![w] = taken]
    BY <1>3 DEF VisitConfig
  <2> HIDE DEF turn, taken
  <2> QED BY <1>0, <2>1, <2>2, <2>3
<1> QED BY <1>1, <1>2, <1>3, LookupEnters, EndVisitEnters, ChooseMethodEnters,
           CreateJobEnters DEF Step

LEMMA OtherWorker ==
  ASSUME Typed, NEW w \in Handlers, NEW v \in Handlers, v # w, Step(v)
  PROVE  worker'[w] = worker[w] \/ worker'[w].pc # "write"
<1>1. CASE Panic
  BY <1>1 DEF Panic, Forget, AllIdle, IdleWorker
<1>2. ASSUME NEW k, worker' = [worker EXCEPT ![v] = k] PROVE worker'[w] = worker[w]
  BY <1>2 DEF Typed, TypeOK
<1>3. CASE UNCHANGED worker
  BY <1>3
<1>4. CASE LookupRequest(v)
  BY <1>1, <1>2, <1>4 DEF LookupRequest, HandleFencingJob, Finish, Write, Goto
<1>5. CASE ChooseConfig(v) \/ WriteStatus(v)
  BY <1>2, <1>5 DEF ChooseConfig, WriteStatus, Finish
<1>6. ASSUME NEW c \in ConfigMaps, VisitConfig(v, c)
      PROVE  worker'[w] = worker[w] \/ worker'[w].pc # "write"
  <2> DEFINE turn == [worker[v] EXCEPT !.visited = @ \cup {c}]
             taken == [turn EXCEPT !.chosen = c, !.cfg = fencingConfigs[c]]
  <2>1. \/ Panic
        \/ worker' = [worker EXCEPT ![v] = turn]
        \/ worker' = [worker EXCEPT ![v] = taken]
    BY <1>6 DEF VisitConfig
  <2> HIDE DEF turn, taken
  <2> QED BY ONLY <1>1, <1>2, <2>1
<1>7. CASE EndVisit(v)
  BY <1>2, <1>7 DEF EndVisit, NoConfigFound, Write, Goto
<1>8. CASE ChooseMethod(v)
  BY <1>1, <1>2, <1>8, ZenonT(30) DEF ChooseMethod, ChosenMethod, Finish, Write, Goto
<1>9. CASE CreateJob(v)
  BY <1>2, <1>9 DEF CreateJob, Write, Goto
<1> QED BY <1>4, <1>5, <1>6, <1>7, <1>8, <1>9 DEF Step

LEMMA WorkerMoves ==
  ASSUME Typed, CopiesAreOrdered, [Next]_vars, NEW w \in Handlers
  PROVE  \/ worker'[w] = worker[w]
         \/ worker'[w].pc # "write"
         \/ Enters(w)
<1>1. CASE \E v \in Handlers : Step(v)
  BY <1>1, StepEnters, OtherWorker
<1>2. ASSUME NEW r \in Requests, TakeRequest(r)
      PROVE  worker'[w] = worker[w] \/ worker'[w].pc # "write"
  <2> DEFINE k == [IdleWorker EXCEPT !.pc = "choose", !.key = r, !.req = seenRequest[r]]
  <2>1. worker' = worker \/ worker' = [worker EXCEPT !["FencingRequest"] = k]
    BY <1>2 DEF TakeRequest
  <2>2. k.pc # "write"
    BY DEF IdleWorker
  <2> HIDE DEF k
  <2> QED BY <2>1, <2>2 DEF Typed, TypeOK
<1>3. ASSUME NEW j \in Jobs, TakeJob(j)
      PROVE  worker'[w] = worker[w] \/ worker'[w].pc # "write"
  <2> DEFINE k == [IdleWorker EXCEPT !.pc = "lookup", !.key = seenJob[j].owner,
                                     !.event = j, !.status = seenJob[j]]
  <2>1. worker' = worker \/ worker' = [worker EXCEPT !["Job"] = k]
    BY <1>3 DEF TakeJob
  <2>2. k.pc # "write"
    BY DEF IdleWorker
  <2> HIDE DEF k
  <2> QED BY <2>1, <2>2 DEF Typed, TypeOK
<1>4. CASE Crash \/ ConcurrentMapAccess
  BY <1>4 DEF Crash, ConcurrentMapAccess, Panic, Forget, AllIdle, IdleWorker
<1>5. CASE UNCHANGED worker
  BY <1>5
<1>6. CASE Inform \/ Load \/ Restart \/ UNCHANGED vars
  BY <1>5, <1>6 DEF Inform, SyncRequests, SyncJobs, SyncMaps, ObserveRequest, ObserveJob,
     ObserveMap, Load, ParseConfigMap, TakeConfigMap, Restart, informer, vars
<1>7. CASE Cluster
  BY <1>5, <1>7 DEF Cluster, Submit, Withdraw, EditConfigMap, StartPod, PodSucceeds,
     PodFails, RemoveJob, Outside, informer
<1> QED BY <1>1, <1>2, <1>3, <1>4, <1>6, <1>7 DEF Next, Operator, Handle

-----------------------------------------------------------------------------
(* The invariant.                                                          *)

LEMMA InitProgress == Init => ProgressInv
<1> SUFFICES ASSUME Init PROVE ProgressInv
  OBVIOUS
<1>1. ASSUME NEW r \in Requests
      PROVE  JobsOf(r) = {} /\ Claims(request[r].updates) = {}
  BY DEF Init, NoJobs, NoRequests, UnbornJob, UnbornRequest, JobsOf, Claims
<1>2. IsFiniteSet({}) /\ Cardinality({}) = 0
  BY FS_EmptySet
<1>3. \A w \in Handlers : ClaimsBacked(worker[w])
  BY DEF Init, AllIdle, IdleWorker, ClaimsBacked
<1>4. ProgressMeansJobs
  <2> SUFFICES ASSUME NEW r \in Requests
               PROVE  Cardinality(Claims(request[r].updates)) <= Cardinality(JobsOf(r))
    BY DEF ProgressMeansJobs
  <2>1. Cardinality(Claims(request[r].updates)) = 0 /\ Cardinality(JobsOf(r)) = 0
    BY <1>1, <1>2
  <2> QED BY <2>1
<1>5. \A r \in Requests : IsFiniteSet(JobsOf(r))
  BY <1>1, <1>2
<1> QED BY <1>3, <1>4, <1>5 DEF ProgressInv

(* What is written on top of an up to date copy is backed: its history is   *)
(* the server's and one entry, which has a Job of its own if it claims one. *)
LEMMA EnteredBacked ==
  ASSUME Typed, CopiesAreOrdered, ProgressInv, [Next]_vars, NEW w \in Handlers, Enters(w),
         request'[worker[w].key].version = request[worker[w].key].version
  PROVE  ClaimsBacked(worker[w])'
<1> DEFINE out == worker'[w].req
<1>1. PICK r \in Requests, req \in RequestRecord :
        /\ worker[w].key = r /\ worker'[w].key = r
        /\ UpToDate(req, r) /\ Extends(out, req, r)
  BY DEF Enters
<1>3. SUFFICES ASSUME out.version = request[r].version
               PROVE  Attempts(out.updates) <= Started(r)'
  BY <1>1 DEF ClaimsBacked, Started, JobsOf
<1>4. req.updates = request[r].updates /\ req.updates \in Seq(Update)
  BY <1>1, <1>3 DEF Extends, UpToDate, SameStatus, RequestRecord
<1>5. PICK u \in Update : /\ out.updates = Append(req.updates, u)
                          /\ u.message = "MethodInProgress" => JobsOf(r)' # JobsOf(r)
  BY <1>1 DEF Extends
<1>6. /\ Attempts(req.updates) \in Nat
      /\ Attempts(out.updates) = IF u.message = "MethodInProgress"
                                 THEN Attempts(req.updates) + 1 ELSE Attempts(req.updates)
  BY <1>4, <1>5, ClaimsOfAppend
<1>7. Attempts(req.updates) <= Started(r)
  BY <1>1, <1>4 DEF ProgressInv, ProgressMeansJobs, Attempts, Started
<1>8. /\ Started(r) \in Nat /\ Started(r)' \in Nat /\ Started(r) <= Started(r)'
      /\ JobsOf(r)' # JobsOf(r) => Started(r)' >= Started(r) + 1
  BY <1>1, JobsGrow DEF ProgressInv
<1> QED BY <1>5, <1>6, <1>7, <1>8

LEMMA NextProgress ==
  Typed /\ CopiesAreOrdered /\ ProgressInv /\ [Next]_vars => ProgressInv'
<1> SUFFICES ASSUME Typed, CopiesAreOrdered, ProgressInv, [Next]_vars PROVE ProgressInv'
  OBVIOUS
<1>1. ASSUME NEW r \in Requests
      PROVE  /\ IsFiniteSet(JobsOf(r)') /\ Started(r) \in Nat /\ Started(r)' \in Nat
             /\ Started(r) <= Started(r)'
  BY JobsGrow DEF ProgressInv
<1>2. ASSUME NEW req \in RequestRecord PROVE Attempts(req.updates) \in Nat
  BY ClaimsCounted DEF RequestRecord
<1>3. ASSUME NEW r \in Requests
      PROVE  Attempts(request'[r].updates) <= Started(r)'
  <2>1. CASE request'[r].updates = request[r].updates
    <3>1. request[r] \in RequestRecord
      BY DEF Typed, TypeOK
    <3>2. Attempts(request[r].updates) <= Started(r)
      BY DEF ProgressInv, ProgressMeansJobs, Attempts, Started
    <3> QED BY <2>1, <3>1, <3>2, <1>1, <1>2
  <2>2. ASSUME NEW w \in Handlers, worker[w].pc = "write", worker[w].key = r,
               worker[w].req.version = request[r].version,
               request'[r].updates = worker[w].req.updates
        PROVE  Attempts(request'[r].updates) <= Started(r)'
    <3>1. worker[w].req \in RequestRecord
      BY DEF Typed, TypeOK, WorkerRecord
    <3>2. Attempts(worker[w].req.updates) <= Started(r)
      BY <2>2 DEF ProgressInv, ClaimsBacked
    <3> QED BY <2>2, <3>1, <3>2, <1>1, <1>2
  <2> QED BY <2>1, <2>2, RequestSteps
<1>4. ASSUME NEW w \in Handlers PROVE ClaimsBacked(worker[w])'
  <2>1. CASE worker'[w].pc # "write"
    BY <2>1 DEF ClaimsBacked
  <2>2. CASE worker'[w] = worker[w] /\ worker[w].pc = "write"
    <3> DEFINE req == worker[w].req
    <3>1. PICK r \in Requests : r = worker[w].key
      BY <2>2 DEF Typed, TypeOK, WorkerRecord, WorkerShape, LocalsSet
    <3>2. req \in RequestRecord
      BY DEF Typed, TypeOK, WorkerRecord
    <3>3. request[r].version \in Nat /\ req.version \in Nat
          /\ req.version <= request[r].version
      BY <2>2, <3>1, <3>2
      DEF CopiesAreOrdered, CopyOrdered, Successor, Typed, TypeOK, RequestRecord
    <3>4. SUFFICES ASSUME req.version = request'[r].version
                   PROVE  Attempts(req.updates) <= Started(r)'
      BY <2>2, <3>1 DEF ClaimsBacked, Started, JobsOf
    <3>5. request'[r].version = request[r].version
      BY <3>3, <3>4, RequestSteps
    <3>6. Attempts(req.updates) <= Started(r)
      BY <2>2, <3>1, <3>4, <3>5 DEF ProgressInv, ClaimsBacked
    <3> QED BY <3>2, <3>6, <1>1, <1>2
  <2>3. CASE Enters(w)
    <3>1. PICK r \in Requests, req \in RequestRecord :
            /\ worker[w].key = r /\ worker'[w].key = r
            /\ UpToDate(req, r) /\ worker'[w].req.version = req.version
      BY <2>3 DEF Enters, Extends
    <3>2. CASE request'[r].version = request[r].version
      BY <2>3, <3>1, <3>2, EnteredBacked
    <3>3. CASE request'[r].version = request[r].version + 1
      <4>1. request[r].version \in Nat /\ req.version \in Nat
            /\ req.version <= request[r].version
        BY <3>1 DEF UpToDate, Typed, TypeOK, RequestRecord
      <4> QED BY <3>1, <3>3, <4>1 DEF ClaimsBacked
    <3> QED BY <3>2, <3>3, RequestSteps
  <2> QED BY <2>1, <2>2, <2>3, WorkerMoves
<1> QED BY <1>1, <1>3, <1>4 DEF ProgressInv, ProgressMeansJobs, Attempts, Started

(* The history never claims more attempts than there are Jobs of the        *)
(* request, however often it was read, written and retried (AddResult,      *)
(* createFencingJob, Update).                                               *)
THEOREM AttemptsAreBacked == Spec => []ProgressMeansJobs
<1> DEFINE I == Typed /\ CopiesAreOrdered /\ ProgressInv
<1>1. Init => I
  BY InitTyped, InitOrdered, InitProgress
<1>2. I /\ [Next]_vars => I'
  BY NextTyped, NextOrdered, NextProgress
<1>3. I => ProgressMeansJobs
  BY DEF ProgressInv
<1> QED BY <1>1, <1>2, <1>3, PTL DEF Spec

=============================================================================
