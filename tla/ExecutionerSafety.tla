-------------------------- MODULE ExecutionerSafety --------------------------
(***************************************************************************)
(* The safety of Executioner, for every value of its constants: copies of  *)
(* a request are ordered, a completion is backed by a Job that ended well, *)
(* and the outcome of a request behaves as RequestLifecycle says.          *)
(***************************************************************************)
EXTENDS ExecutionerTyping

Busy == {"choose", "visit", "method", "create"}

-----------------------------------------------------------------------------
(* What the operators that build requests and workers leave in the fields. *)

LEMMA AddResultFields ==
  ASSUME NEW req \in RequestRecord, NEW m \in Methods \cup {None},
         NEW res \in Messages
  PROVE  /\ AddResult(req, m, res).phase = req.phase
         /\ AddResult(req, m, res).version = req.version
         /\ AddResult(req, m, res).complete = req.complete
         /\ AddResult(req, m, res).result = req.result
         /\ \E u \in Update : AddResult(req, m, res).updates = Append(req.updates, u)
<1>1. [method |-> m, message |-> res] \in Update
  BY DEF Update
<1> QED BY <1>1 DEF AddResult, RequestRecord

LEMMA SetFinalResultFields ==
  ASSUME NEW req \in RequestRecord, NEW res \in Results
  PROVE  /\ SetFinalResult(req, res).phase = req.phase
         /\ SetFinalResult(req, res).version = req.version
         /\ SetFinalResult(req, res).complete = TRUE
         /\ SetFinalResult(req, res).result = res
         /\ \E u \in Update : SetFinalResult(req, res).updates = Append(req.updates, u)
<1> DEFINE done == [req EXCEPT !.complete = TRUE, !.result = res]
<1>1. done \in RequestRecord
  BY DEF RequestRecord
<1>2. /\ done.phase = req.phase /\ done.version = req.version
      /\ done.complete = TRUE /\ done.result = res /\ done.updates = req.updates
  BY Zenon DEF RequestRecord
<1>3. res \in Messages /\ None \in Methods \cup {None}
  BY DEF Messages
<1> HIDE DEF done
<1>4. SetFinalResult(req, res) = AddResult(done, None, res)
  BY DEF SetFinalResult, done
<1>5. /\ AddResult(done, None, res).phase = done.phase
      /\ AddResult(done, None, res).version = done.version
      /\ AddResult(done, None, res).complete = done.complete
      /\ AddResult(done, None, res).result = done.result
      /\ \E u \in Update : AddResult(done, None, res).updates = Append(done.updates, u)
  BY <1>1, <1>3, AddResultFields
<1> QED BY <1>2, <1>4, <1>5, Zenon

LEMMA AtFields ==
  ASSUME NEW w, NEW pc, NEW req
  PROVE  /\ At(w, pc, req).pc = pc /\ At(w, pc, req).key = worker[w].key
         /\ At(w, pc, req).req = req
BY DEF At, IdleWorker

(* From an open request whose copy is up to date, whatever a handler sends  *)
(* to the API server is the copy and one update more.                       *)
LEMMA SuccessorOf ==
  ASSUME NEW req, NEW next, NEW r, UpToDate(req, r), ~req.complete,
         next.version = req.version,
         \E u \in Update : next.updates = Append(req.updates, u),
         \/ ~next.complete /\ next.result = req.result
         \/ next.complete /\ next.result \in Results
  PROVE  Successor(next, r)
<1>1. next.version <= request[r].version
  BY DEF UpToDate
<1>2. ASSUME next.version = request[r].version
      PROVE  /\ ~request[r].complete
             /\ req.result = request[r].result /\ req.updates = request[r].updates
  BY <1>2, Zenon DEF UpToDate, SameStatus
<1>3. ASSUME next.version = request[r].version
      PROVE  IF next.complete THEN next.result \in Results
                              ELSE next.result = request[r].result
  BY <1>2, <1>3, Zenon
<1>4. ASSUME next.version = request[r].version
      PROVE  \E u \in Update : next.updates = Append(request[r].updates, u)
  BY <1>2, <1>4, Zenon
<1>5. Settled(next)
  <2>1. req.result = None
    BY Zenon DEF UpToDate, Settled
  <2>2. None \notin Results
    BY NoneAssumption
  <2> QED BY <2>1, <2>2, Zenon DEF Settled
<1> QED BY <1>1, <1>2, <1>3, <1>4, <1>5, Zenon DEF Successor

LEMMA AddedSucceeds ==
  ASSUME NEW req \in RequestRecord, NEW r, NEW m \in Methods \cup {None},
         NEW res \in Messages, UpToDate(req, r), ~req.complete
  PROVE  Successor(AddResult(req, m, res), r)
<1> DEFINE next == AddResult(req, m, res)
<1>1. /\ next.version = req.version
      /\ next.complete = req.complete
      /\ next.result = req.result
      /\ \E u \in Update : next.updates = Append(req.updates, u)
  BY AddResultFields
<1> HIDE DEF next
<1>2. ~next.complete
  BY <1>1, Zenon
<1>3. Successor(next, r)
  BY <1>1, <1>2, SuccessorOf, Zenon
<1> QED BY <1>3 DEF next

LEMMA FinalSucceeds ==
  ASSUME NEW req \in RequestRecord, NEW r, NEW res \in Results,
         UpToDate(req, r), ~req.complete
  PROVE  Successor(SetFinalResult(req, res), r)
<1> DEFINE next == SetFinalResult(req, res)
<1>1. /\ next.version = req.version
      /\ next.complete = TRUE
      /\ next.result = res
      /\ \E u \in Update : next.updates = Append(req.updates, u)
  BY SetFinalResultFields
<1> HIDE DEF next
<1>2. next.complete /\ next.result \in Results
  BY <1>1, Zenon
<1>3. Successor(next, r)
  BY <1>1, <1>2, SuccessorOf, Zenon
<1> QED BY <1>3 DEF next

LEMMA ErrorSucceeds ==
  ASSUME NEW req \in RequestRecord, NEW r, NEW m \in Methods, NEW last \in BOOLEAN,
         UpToDate(req, r), ~req.complete
  PROVE  /\ Successor(MethodError(req, m, last), r)
         /\ MethodError(req, m, last).phase = req.phase
         /\ \/ MethodError(req, m, last).result = "GivingUp"
            \/ MethodError(req, m, last).result = req.result
<1>1. "GivingUp" \in Results /\ "GivingUp" \in Messages
  BY DEF Messages, Results, Failures
<1>2. CASE last
  <2>1. MethodError(req, m, last) = SetFinalResult(req, "GivingUp")
    BY <1>2 DEF MethodError
  <2>2. /\ SetFinalResult(req, "GivingUp").phase = req.phase
        /\ SetFinalResult(req, "GivingUp").result = "GivingUp"
        /\ Successor(SetFinalResult(req, "GivingUp"), r)
    BY <1>1, FinalSucceeds, SetFinalResultFields
  <2> QED BY <2>1, <2>2, Zenon
<1>3. CASE ~last
  <2>1. MethodError(req, m, last) = AddResult(req, m, "GivingUp")
    BY <1>3 DEF MethodError
  <2>2. /\ AddResult(req, m, "GivingUp").phase = req.phase
        /\ AddResult(req, m, "GivingUp").result = req.result
        /\ Successor(AddResult(req, m, "GivingUp"), r)
    BY <1>1, AddedSucceeds, AddResultFields
  <2> QED BY <2>1, <2>2, Zenon
<1> QED BY <1>2, <1>3

-----------------------------------------------------------------------------
(* Copies stay ordered: the ways in which a step may touch them.           *)

LEMMA UnbornSettled == Settled(UnbornRequest)
BY DEF Settled, UnbornRequest

LEMMA ServerUpToDate ==
  ASSUME Typed, CopiesAreOrdered, NEW r \in Requests
  PROVE  UpToDate(request[r], r)
<1>1. request[r].version <= request[r].version
  BY DEF Typed, TypeOK, RequestRecord
<1>2. Settled(request[r])
  BY DEF CopiesAreOrdered
<1> QED BY <1>1, <1>2, Zenon DEF UpToDate, SameStatus

LEMMA FrameOrdered ==
  ASSUME CopiesAreOrdered, UNCHANGED <<request, seenRequest, worker>>
  PROVE  CopiesAreOrdered'
BY DEF CopiesAreOrdered, CopyOrdered, UpToDate, Successor, SameStatus, Settled

LEMMA IdleOrdered == CopyOrdered(IdleWorker)
BY DEF CopyOrdered, IdleWorker

(* One worker's locals change, or none. *)
LEMMA LocalsOrdered ==
  ASSUME Typed, CopiesAreOrdered, UNCHANGED <<request, seenRequest>>,
         NEW w \in Handlers, NEW k, CopyOrdered(k),
         worker' = [worker EXCEPT ![w] = k]
  PROVE  CopiesAreOrdered'
<1>1. ASSUME NEW v \in Handlers PROVE CopyOrdered(worker[v])'
  <2>1. worker'[v] = worker[v] \/ worker'[v] = k
    BY DEF Typed, TypeOK
  <2>2. CopyOrdered(worker'[v])
    BY <2>1 DEF CopiesAreOrdered
  <2> QED BY <2>2 DEF CopyOrdered, UpToDate, Successor, SameStatus, Settled
<1>2. /\ \A r \in Requests : request[r].version = 0 => SameStatus(UnbornRequest, r)
      /\ \A r \in Requests : UpToDate(seenRequest[r], r)
  BY DEF CopiesAreOrdered
<1> QED BY <1>1, <1>2 DEF CopiesAreOrdered, UpToDate, SameStatus

(* A handler goes on with a copy it holds, or one it just read. *)
LEMMA GotoOrdered ==
  ASSUME Typed, CopiesAreOrdered, UNCHANGED <<request, seenRequest>>,
         NEW w \in Handlers, NEW pc, NEW req, Goto(w, pc, req),
         req.phase = "live",
         \/ pc \in Busy /\ ~req.complete /\ UpToDate(req, worker[w].key)
         \/ pc = "write" /\ Successor(req, worker[w].key)
  PROVE  CopiesAreOrdered'
<1>1. worker' = [worker EXCEPT ![w] = At(w, pc, req)]
  BY DEF Goto, At
<1> DEFINE k == At(w, pc, req)
<1>2. k.pc = pc /\ k.key = worker[w].key /\ k.req = req
  BY AtFields
<1> HIDE DEF k
<1>3. CopyOrdered(k)
  <2>1. CASE pc \in Busy /\ ~req.complete /\ UpToDate(req, worker[w].key)
    <3>1. k.pc # "write"
      BY <1>2, <2>1 DEF Busy
    <3> QED BY <1>2, <2>1, <3>1, Zenon DEF CopyOrdered
  <2>2. CASE pc = "write" /\ Successor(req, worker[w].key)
    <3>1. k.pc \notin Busy
      BY <1>2, <2>2 DEF Busy
    <3> QED BY <1>2, <2>2, <3>1, Zenon DEF CopyOrdered, Busy
  <2> QED BY <2>1, <2>2
<1> QED BY <1>1, <1>3, LocalsOrdered DEF k

LEMMA FinishOrdered ==
  ASSUME Typed, CopiesAreOrdered, UNCHANGED <<request, seenRequest>>,
         NEW w \in Handlers, Finish(w)
  PROVE  CopiesAreOrdered'
BY IdleOrdered, LocalsOrdered DEF Finish

(* All copies are lost. *)
LEMMA ForgetOrdered ==
  ASSUME Typed, CopiesAreOrdered, Forget, UNCHANGED request
  PROVE  CopiesAreOrdered'
<1>1. \A r \in Requests : request[r].version \in Nat
  BY DEF Typed, TypeOK, RequestRecord
<1>2. \A r \in Requests : UpToDate(UnbornRequest, r)
  <2>1. UnbornRequest.version = 0
    BY DEF UnbornRequest
  <2> QED BY <1>1, <2>1, UnbornSettled DEF UpToDate, CopiesAreOrdered
<1>3. \A r \in Requests : seenRequest'[r] = UnbornRequest
  BY DEF Forget, NoRequests
<1>4. \A w \in Handlers : worker'[w] = IdleWorker
  BY DEF Forget, AllIdle
<1>5. \A r \in Requests : UpToDate(seenRequest[r], r)'
  BY <1>2, <1>3 DEF UpToDate, SameStatus
<1>6. \A w \in Handlers : CopyOrdered(worker[w])'
  BY <1>4 DEF CopyOrdered, IdleWorker
<1>7. /\ \A r \in Requests : Settled(request'[r])
      /\ \A r \in Requests : request'[r].version = 0 => SameStatus(UnbornRequest, r)'
  BY DEF CopiesAreOrdered, SameStatus
<1> QED BY <1>5, <1>6, <1>7 DEF CopiesAreOrdered

LEMMA InitOrdered == Init => CopiesAreOrdered
<1> SUFFICES ASSUME Init PROVE CopiesAreOrdered
  OBVIOUS
<1>1. \A r \in Requests : request[r] = UnbornRequest /\ seenRequest[r] = UnbornRequest
  BY DEF Init, NoRequests
<1>2. \A w \in Handlers : worker[w] = IdleWorker
  BY DEF Init, AllIdle
<1>3. UnbornRequest.version = 0
  BY DEF UnbornRequest
<1> QED BY <1>1, <1>2, <1>3, IdleOrdered, UnbornSettled DEF CopiesAreOrdered,
           UpToDate, SameStatus

(* A handler moves on with the same request in hand; it may have changed    *)
(* the configuration recorded in it.                                        *)
SameCopy(q, req) ==
  /\ q.phase = req.phase /\ q.version = req.version /\ q.complete = req.complete
  /\ q.result = req.result /\ q.updates = req.updates

LEMMA TurnOrdered ==
  ASSUME Typed, CopiesAreOrdered, UNCHANGED <<request, seenRequest>>,
         NEW w \in Handlers, worker[w].pc \in Busy,
         NEW k, k.pc \in Busy, k.key = worker[w].key, SameCopy(k.req, worker[w].req),
         worker' = [worker EXCEPT ![w] = k]
  PROVE  CopiesAreOrdered'
<1>1. /\ worker[w].req.phase = "live" /\ ~worker[w].req.complete
      /\ UpToDate(worker[w].req, worker[w].key)
  BY Zenon DEF CopiesAreOrdered, CopyOrdered, Busy
<1>2. k.req.phase = "live" /\ ~k.req.complete
  BY <1>1, Zenon DEF SameCopy
<1>3. UpToDate(k.req, k.key)
  BY <1>1, Zenon DEF SameCopy, UpToDate, SameStatus, Settled
<1>4. k.pc # "write"
  BY DEF Busy
<1>5. CopyOrdered(k)
  BY <1>2, <1>3, <1>4, Zenon DEF CopyOrdered
<1> QED BY <1>5, LocalsOrdered

LEMMA TakeRequestOrdered ==
  ASSUME Typed, CopiesAreOrdered, NEW r \in Requests, TakeRequest(r)
  PROVE  CopiesAreOrdered'
<1> DEFINE w == "FencingRequest"
           k == [IdleWorker EXCEPT !.pc = "choose", !.key = r, !.req = seenRequest[r]]
<1>1. UNCHANGED <<request, seenRequest>> /\ w \in Handlers
  BY DEF TakeRequest, server, Handlers
<1>2. CASE ~Open(seenRequest[r])
  BY <1>1, <1>2, FrameOrdered DEF TakeRequest
<1>3. CASE Open(seenRequest[r])
  <2>1. worker' = [worker EXCEPT ![w] = k]
    BY <1>3 DEF TakeRequest
  <2>2. k.pc = "choose" /\ k.key = r /\ k.req = seenRequest[r]
    BY DEF IdleWorker
  <2> HIDE DEF k
  <2>3. CopyOrdered(k)
    <3>1. UpToDate(seenRequest[r], r)
      BY DEF CopiesAreOrdered
    <3>2. k.pc # "write"
      BY <2>2
    <3> QED BY <1>3, <2>2, <3>1, <3>2, Zenon DEF CopyOrdered, Open
  <2> QED BY <1>1, <2>1, <2>3, LocalsOrdered
<1> QED BY <1>2, <1>3

LEMMA TakeJobOrdered ==
  ASSUME Typed, CopiesAreOrdered, NEW j \in Jobs, TakeJob(j)
  PROVE  CopiesAreOrdered'
<1> DEFINE w == "Job"
           k == [IdleWorker EXCEPT !.pc = "lookup", !.key = seenJob[j].owner,
                                   !.event = j, !.status = seenJob[j]]
<1>1. UNCHANGED <<request, seenRequest>> /\ w \in Handlers
  BY DEF TakeJob, server, Handlers
<1>2. CASE worker' = worker
  BY <1>1, <1>2, FrameOrdered
<1>3. CASE worker' = [worker EXCEPT ![w] = k]
  <2>1. k.pc = "lookup"
    BY DEF IdleWorker
  <2> HIDE DEF k
  <2>2. CopyOrdered(k)
    BY <2>1 DEF CopyOrdered
  <2> QED BY <1>1, <1>3, <2>2, LocalsOrdered
<1> QED BY <1>2, <1>3 DEF TakeJob

LEMMA LookupOrdered ==
  ASSUME Typed, CopiesAreOrdered, NEW w \in Handlers, LookupRequest(w)
  PROVE  CopiesAreOrdered'
<1> DEFINE r == worker[w].key
           req == request[r]
<1>1. UNCHANGED request /\ r \in Requests /\ req \in RequestRecord
  BY DEF LookupRequest, HandleFencingJob, Panic, server, Typed, TypeOK, WorkerShape,
         LocalsSet
<1>2. UpToDate(req, r)
  BY <1>1, ServerUpToDate
<1>3. CASE Finish(w) /\ UNCHANGED <<server, informer, config, process>>
  BY <1>1, <1>3, FinishOrdered DEF informer
<1>4. CASE HandleFencingJob(w, req) /\ req.phase = "live"
  <2>1. CASE Panic
    BY <1>1, <2>1, ForgetOrdered DEF Panic
  <2>2. CASE /\ Write(w, SetFinalResult(req, "Complete")) /\ ~req.complete
             /\ UNCHANGED <<server, informer, config, process>>
    <3>1. "Complete" \in Results
      BY DEF Results
    <3>2. Successor(SetFinalResult(req, "Complete"), r)
      BY <1>1, <1>2, <2>2, <3>1, FinalSucceeds
    <3>3. SetFinalResult(req, "Complete").phase = "live"
      BY <1>1, <1>4, <3>1, SetFinalResultFields
    <3> QED BY <1>1, <2>2, <3>2, <3>3, GotoOrdered DEF Write, informer
  <2>3. CASE /\ Goto(w, "choose", req) /\ ~req.complete
             /\ UNCHANGED <<server, informer, config, process>>
    BY <1>1, <1>2, <1>4, <2>3, GotoOrdered DEF Busy, informer
  <2> QED BY <1>3, <1>4, <2>1, <2>2, <2>3 DEF HandleFencingJob
<1> QED BY <1>3, <1>4 DEF LookupRequest

LEMMA ChooseConfigOrdered ==
  ASSUME Typed, CopiesAreOrdered, NEW w \in Handlers, ChooseConfig(w)
  PROVE  CopiesAreOrdered'
<1> DEFINE c == worker[w].req.config
           p == [worker[w] EXCEPT !.pc = "method", !.cfg = fencingConfigs[c]]
           q == [worker[w] EXCEPT !.pc = "visit", !.req.config = None,
                                  !.due = DOMAIN fencingConfigs]
<1>1. UNCHANGED <<request, seenRequest>> /\ worker[w].pc \in Busy
  BY DEF ChooseConfig, server, informer, Busy
<1>2. worker[w] \in WorkerRecord /\ worker[w].req \in RequestRecord
  BY DEF Typed, TypeOK, WorkerRecord
<1>3. CASE Pinned(c)
  <2>1. worker' = [worker EXCEPT ![w] = p]
    BY <1>3 DEF ChooseConfig, Typed, TypeOK
  <2>2. p.pc \in Busy /\ p.key = worker[w].key /\ SameCopy(p.req, worker[w].req)
    BY <1>2 DEF Busy, SameCopy, WorkerRecord
  <2> HIDE DEF p
  <2> QED BY <1>1, <2>1, <2>2, TurnOrdered
<1>4. CASE ~Pinned(c)
  <2>1. worker' = [worker EXCEPT ![w] = q]
    BY <1>4 DEF ChooseConfig, Typed, TypeOK
  <2>2. /\ q.pc = "visit" /\ q.key = worker[w].key
        /\ q.req = [worker[w].req EXCEPT !.config = None]
    BY <1>2 DEF WorkerRecord
  <2> HIDE DEF q
  <2>3. q.pc \in Busy /\ SameCopy(q.req, worker[w].req)
    BY <1>2, <2>2 DEF Busy, SameCopy, RequestRecord
  <2> QED BY <1>1, <2>1, <2>2, <2>3, TurnOrdered
<1> QED BY <1>3, <1>4

LEMMA VisitOrdered ==
  ASSUME Typed, CopiesAreOrdered, NEW w \in Handlers, NEW c \in ConfigMaps,
         VisitConfig(w, c)
  PROVE  CopiesAreOrdered'
<1> DEFINE p == [worker[w] EXCEPT !.visited = @ \cup {c}]
           q == [p EXCEPT !.chosen = c, !.cfg = fencingConfigs[c]]
<1>1. UNCHANGED request /\ worker[w].pc \in Busy /\ worker[w] \in WorkerRecord
  BY DEF VisitConfig, Panic, server, Busy, Typed, TypeOK
<1>2. CASE Panic
  BY <1>1, <1>2, ForgetOrdered DEF Panic
<1>3. CASE worker' = [worker EXCEPT ![w] = p] /\ UNCHANGED informer
  <2>1. p.pc \in Busy /\ p.key = worker[w].key /\ SameCopy(p.req, worker[w].req)
    BY <1>1 DEF SameCopy, WorkerRecord
  <2> HIDE DEF p
  <2> QED BY <1>1, <1>3, <2>1, TurnOrdered DEF informer
<1>4. CASE worker' = [worker EXCEPT ![w] = q] /\ UNCHANGED informer
  <2>1. q.pc \in Busy /\ q.key = worker[w].key /\ SameCopy(q.req, worker[w].req)
    BY <1>1 DEF SameCopy, WorkerRecord
  <2> HIDE DEF q
  <2> QED BY <1>1, <1>4, <2>1, TurnOrdered DEF informer
<1> QED BY <1>2, <1>3, <1>4 DEF VisitConfig

(* What a handler in the middle of HandleFencingRequest holds. *)
LEMMA BusyCopy ==
  ASSUME Typed, CopiesAreOrdered, NEW w \in Handlers, worker[w].pc \in Busy
  PROVE  /\ worker[w].req \in RequestRecord /\ worker[w].key \in Requests
         /\ worker[w].req.phase = "live" /\ ~worker[w].req.complete
         /\ UpToDate(worker[w].req, worker[w].key)
<1>1. worker[w].req \in RequestRecord /\ worker[w].key \in Requests
  BY DEF Typed, TypeOK, WorkerRecord, WorkerShape, LocalsSet, Busy
<1>2. /\ worker[w].req.phase = "live" /\ ~worker[w].req.complete
      /\ UpToDate(worker[w].req, worker[w].key)
  BY Zenon DEF CopiesAreOrdered, CopyOrdered, Busy
<1> QED BY <1>1, <1>2

LEMMA EndVisitOrdered ==
  ASSUME Typed, CopiesAreOrdered, NEW w \in Handlers, EndVisit(w)
  PROVE  CopiesAreOrdered'
<1> DEFINE req == worker[w].req
           p == [worker[w] EXCEPT !.pc = "method", !.req.config = worker[w].chosen,
                                  !.chosen = None, !.due = {}, !.visited = {}]
<1>1. UNCHANGED <<request, seenRequest>> /\ worker[w].pc \in Busy
  BY DEF EndVisit, server, informer, Busy
<1>2. worker[w] \in WorkerRecord /\ req \in RequestRecord
  BY DEF Typed, TypeOK, WorkerRecord
<1>3. CASE NoConfigFound(w)
  <2>1. "NoConfig" \in Results
    BY DEF Results, Failures
  <2>2. /\ req.phase = "live" /\ ~req.complete /\ UpToDate(req, worker[w].key)
    BY <1>1, BusyCopy
  <2>3. Successor(SetFinalResult(req, "NoConfig"), worker[w].key)
    BY <1>2, <2>1, <2>2, FinalSucceeds
  <2>4. SetFinalResult(req, "NoConfig").phase = "live"
    BY <1>2, <2>1, <2>2, SetFinalResultFields
  <2> QED BY <1>1, <1>3, <2>3, <2>4, GotoOrdered DEF NoConfigFound, Write
<1>4. CASE worker[w].chosen # None
  <2>1. worker' = [worker EXCEPT ![w] = p]
    BY <1>4 DEF EndVisit, Typed, TypeOK
  <2>2. /\ p.pc = "method" /\ p.key = worker[w].key
        /\ p.req = [req EXCEPT !.config = worker[w].chosen]
    BY <1>2 DEF WorkerRecord
  <2> HIDE DEF p
  <2>3. p.pc \in Busy /\ SameCopy(p.req, req)
    BY <1>2, <2>2 DEF Busy, SameCopy, RequestRecord
  <2> QED BY <1>1, <2>1, <2>2, <2>3, TurnOrdered
<1> QED BY <1>3, <1>4 DEF EndVisit

LEMMA ChooseMethodOrdered ==
  ASSUME Typed, CopiesAreOrdered, NEW w \in Handlers, ChooseMethod(w)
  PROVE  CopiesAreOrdered'
<1> DEFINE methods == worker[w].cfg.methods
           req == worker[w].req
           k(i) == [worker[w] EXCEPT !.pc = "create", !.attempt = i]
<1>1. UNCHANGED request /\ worker[w].pc \in Busy
  BY DEF ChooseMethod, Panic, server, Busy
<1>2. worker[w] \in WorkerRecord /\ worker[w].cfg \in Contents
  BY DEF ChooseMethod, Typed, TypeOK, WorkerShape, LocalsSet
<1>3. CASE Panic
  BY <1>1, <1>3, ForgetOrdered DEF Panic
<1>4. ASSUME NEW i \in 1 .. Len(methods), UNCHANGED <<server, informer, config, process>>,
             \/ Finish(w)
             \/ worker' = [worker EXCEPT ![w].pc = "create", ![w].attempt = i]
             \/ Write(w, MethodError(req, methods[i], i = Len(methods)))
      PROVE  CopiesAreOrdered'
  <2>0. UNCHANGED <<request, seenRequest>>
    BY <1>4 DEF server, informer
  <2>1. CASE Finish(w)
    BY <2>0, <2>1, FinishOrdered
  <2>2. CASE worker' = [worker EXCEPT ![w].pc = "create", ![w].attempt = i]
    <3>1. /\ k(i).pc \in Busy /\ k(i).key = worker[w].key
          /\ SameCopy(k(i).req, worker[w].req)
      BY <1>2 DEF Busy, SameCopy, WorkerRecord
    <3>2. worker' = [worker EXCEPT ![w] = k(i)]
      BY <2>2 DEF Typed, TypeOK
    <3> HIDE DEF k
    <3> QED BY <1>1, <2>0, <3>1, <3>2, TurnOrdered
  <2>3. CASE Write(w, MethodError(req, methods[i], i = Len(methods)))
    <3> DEFINE failure == MethodError(req, methods[i], i = Len(methods))
    <3>1. methods[i] \in Methods /\ (i = Len(methods)) \in BOOLEAN
      BY <1>2, MethodTyped
    <3>2. Successor(failure, worker[w].key) /\ failure.phase = "live"
      BY <1>1, <3>1, BusyCopy, ErrorSucceeds
    <3> HIDE DEF failure
    <3>3. Goto(w, "write", failure)
      BY <2>3 DEF Write, failure
    <3> QED BY <2>0, <3>2, <3>3, GotoOrdered
  <2> QED BY <1>4, <2>1, <2>2, <2>3
<1> QED BY <1>3, <1>4 DEF ChooseMethod, ChosenMethod

(* What CreateJob may go on to write. *)
LEMMA CreateJobWrites ==
  ASSUME Typed, CopiesAreOrdered, NEW w \in Handlers, CreateJob(w)
  PROVE  \E out : /\ Goto(w, "write", out) /\ out.phase = "live"
                  /\ Successor(out, worker[w].key)
                  /\ out.result = "GivingUp" \/ out.result = worker[w].req.result
<1> DEFINE req == worker[w].req
           methods == worker[w].cfg.methods
           m == methods[worker[w].attempt]
           last == worker[w].attempt = Len(methods)
           held(j) == [req EXCEPT !.activeJob = j]
           failure == MethodError(req, m, last)
<1>1. /\ worker[w] \in WorkerRecord /\ worker[w].pc \in Busy
      /\ worker[w].cfg \in Contents /\ worker[w].attempt \in 1 .. Len(methods)
  BY DEF CreateJob, Typed, TypeOK, WorkerShape, LocalsSet, Busy
<1>2. m \in Methods /\ last \in BOOLEAN
  BY <1>1, MethodTyped
<1>3. /\ req \in RequestRecord /\ req.phase = "live" /\ ~req.complete
      /\ UpToDate(req, worker[w].key)
  BY <1>1, BusyCopy
<1>4. CASE Write(w, failure)
  <2>1. /\ Successor(failure, worker[w].key) /\ failure.phase = "live"
        /\ failure.result = "GivingUp" \/ failure.result = req.result
    BY <1>2, <1>3, ErrorSucceeds
  <2>2. Goto(w, "write", failure)
    BY <1>4 DEF Write
  <2> HIDE DEF failure
  <2> QED BY <2>1, <2>2
<1>5. ASSUME NEW j \in Jobs, Write(w, AddResult(held(j), m, "MethodInProgress"))
      PROVE  \E out : /\ Goto(w, "write", out) /\ out.phase = "live"
                      /\ Successor(out, worker[w].key)
                      /\ out.result = "GivingUp" \/ out.result = worker[w].req.result
  <2> DEFINE h == held(j)
             out == AddResult(h, m, "MethodInProgress")
  <2>1. h \in RequestRecord /\ SameCopy(h, req)
    BY <1>3 DEF RequestRecord, SameCopy
  <2> HIDE DEF h
  <2>2. h.phase = "live" /\ ~h.complete /\ h.result = req.result
    BY <1>3, <2>1, Zenon DEF SameCopy
  <2>3. UpToDate(h, worker[w].key)
    BY <1>3, <2>1, Zenon DEF SameCopy, UpToDate, SameStatus, Settled
  <2>4. m \in Methods \cup {None} /\ "MethodInProgress" \in Messages
    BY <1>2 DEF Messages
  <2> HIDE DEF m
  <2>5. Successor(out, worker[w].key)
    BY <2>1, <2>2, <2>3, <2>4, AddedSucceeds
  <2>6. out.phase = h.phase /\ out.result = h.result
    BY <2>1, <2>4, AddResultFields
  <2>7. Goto(w, "write", out)
    BY <1>5 DEF Write, h, m
  <2> HIDE DEF out
  <2> QED BY <2>2, <2>5, <2>6, <2>7
<1> QED BY <1>4, <1>5 DEF CreateJob

LEMMA CreateJobOrdered ==
  ASSUME Typed, CopiesAreOrdered, NEW w \in Handlers, CreateJob(w)
  PROVE  CopiesAreOrdered'
<1>1. UNCHANGED <<request, seenRequest>>
  BY DEF CreateJob, informer
<1> QED BY <1>1, CreateJobWrites, GotoOrdered

(* The API server takes a write only from a copy of its own version, and    *)
(* raises the version: every other copy is older from then on.              *)
LEMMA StoredFields ==
  ASSUME NEW req \in RequestRecord
  PROVE  /\ Stored(req).phase = req.phase /\ Stored(req).version = req.version + 1
         /\ Stored(req).complete = req.complete /\ Stored(req).result = req.result
         /\ Stored(req).updates = req.updates
<1> DEFINE enc == [req EXCEPT !.activeMethod = None, !.activeJob = None]
<1>1. enc \in RequestRecord /\ SameCopy(enc, req)
  BY DEF RequestRecord, SameCopy
<1> HIDE DEF enc
<1>2. Stored(req) = [enc EXCEPT !.version = @ + 1]
  BY DEF Stored, Encoded, enc
<1> QED BY <1>1, <1>2 DEF RequestRecord, SameCopy

LEMMA NewerOrdered ==
  ASSUME Typed, CopiesAreOrdered, NEW r \in Requests, NEW s \in RequestRecord,
         s.version = request[r].version + 1, Settled(s),
         request' = [request EXCEPT ![r] = s],
         UNCHANGED seenRequest, NEW w \in Handlers, Finish(w)
  PROVE  CopiesAreOrdered'
<1>1. request[r].version \in Nat /\ request'[r] = s
  BY DEF Typed, TypeOK, RequestRecord
<1>2. \A q \in Requests : q # r => request'[q] = request[q]
  BY DEF Typed, TypeOK
<1>3. ASSUME NEW x, NEW q \in Requests, x.version \in Nat, UpToDate(x, q)
      PROVE  UpToDate(x, q)'
  <2>1. CASE q = r
    BY <1>1, <1>3, <2>1 DEF UpToDate
  <2>2. CASE q # r
    BY <1>2, <1>3, <2>2 DEF UpToDate, SameStatus
  <2> QED BY <2>1, <2>2
<1>4. ASSUME NEW x, NEW q \in Requests, x.version \in Nat, Successor(x, q)
      PROVE  Successor(x, q)'
  <2>1. CASE q = r
    BY <1>1, <1>4, <2>1 DEF Successor
  <2>2. CASE q # r
    BY <1>2, <1>4, <2>2 DEF Successor
  <2> QED BY <2>1, <2>2
<1>5. ASSUME NEW q \in Requests
      PROVE  /\ (request[q].version = 0 => SameStatus(UnbornRequest, q))'
             /\ UpToDate(seenRequest[q], q)'
  <2>1. seenRequest[q].version \in Nat
    BY DEF Typed, TypeOK, RequestRecord
  <2>2. UpToDate(seenRequest[q], q)'
    BY <1>3, <2>1 DEF CopiesAreOrdered
  <2>3. CASE q = r
    BY <1>1, <2>2, <2>3
  <2>4. CASE q # r
    BY <1>2, <2>2, <2>4 DEF CopiesAreOrdered, SameStatus
  <2> QED BY <2>3, <2>4
<1>6. ASSUME NEW v \in Handlers PROVE CopyOrdered(worker[v])'
  <2>1. CASE v = w
    BY <2>1, IdleOrdered DEF Finish, Typed, TypeOK, CopyOrdered, IdleWorker
  <2>2. CASE v # w
    <3>1. worker'[v] = worker[v]
      BY <2>2 DEF Finish, Typed, TypeOK
    <3>2. worker[v].req.version \in Nat
      BY DEF Typed, TypeOK, WorkerRecord, RequestRecord
    <3>3. worker[v].pc # "idle" => worker[v].key \in Requests
      BY DEF Typed, WorkerShape, LocalsSet
    <3>4. CopyOrdered(worker[v])
      BY DEF CopiesAreOrdered
    <3> QED BY <1>3, <1>4, <3>1, <3>2, <3>3, <3>4 DEF CopyOrdered
  <2> QED BY <2>1, <2>2
<1>7. ASSUME NEW q \in Requests PROVE Settled(request[q])'
  <2>1. CASE q = r
    BY <1>1, <2>1 DEF Settled
  <2>2. CASE q # r
    BY <1>2, <2>2 DEF Settled, CopiesAreOrdered
  <2> QED BY <2>1, <2>2
<1> QED BY <1>5, <1>6, <1>7 DEF CopiesAreOrdered

LEMMA WriteStatusOrdered ==
  ASSUME Typed, CopiesAreOrdered, NEW w \in Handlers, WriteStatus(w)
  PROVE  CopiesAreOrdered'
<1> DEFINE r == worker[w].key
           req == worker[w].req
<1>1. r \in Requests /\ req \in RequestRecord /\ UNCHANGED seenRequest /\ Finish(w)
  BY DEF WriteStatus, Typed, TypeOK, WorkerRecord, WorkerShape, LocalsSet, informer
<1>2. CASE UNCHANGED request
  BY <1>1, <1>2, FinishOrdered
<1>3. CASE Accepted(req, r) /\ request' = [request EXCEPT ![r] = Stored(req)]
  <2>1. Stored(req) \in RequestRecord /\ Stored(req).version = req.version + 1
    BY <1>1, StoredTyped, StoredFields
  <2>2. Stored(req).version = request[r].version + 1
    BY <1>3, <2>1 DEF Accepted
  <2>3. Settled(Stored(req))
    <3>1. Settled(req)
      BY DEF WriteStatus, CopiesAreOrdered, CopyOrdered, Successor
    <3> QED BY <1>1, <3>1, StoredFields, Zenon DEF Settled
  <2> QED BY <1>1, <1>3, <2>1, <2>2, <2>3, NewerOrdered
<1> QED BY <1>2, <1>3 DEF WriteStatus

(* Steps that change a request without touching what its status says. *)
LEMMA SubmitOrdered ==
  ASSUME Typed, CopiesAreOrdered, UNCHANGED <<seenRequest, worker>>,
         \A r \in Requests : /\ request'[r].version = request[r].version
                             /\ request'[r].complete = request[r].complete
                             /\ request'[r].result = request[r].result
                             /\ request'[r].updates = request[r].updates
  PROVE  CopiesAreOrdered'
<1>1. ASSUME NEW r \in Requests
      PROVE  /\ (request[r].version = 0 => SameStatus(UnbornRequest, r))'
             /\ UpToDate(seenRequest[r], r)'
  BY DEF CopiesAreOrdered, UpToDate, SameStatus
<1>2. ASSUME NEW w \in Handlers PROVE CopyOrdered(worker[w])'
  <2>1. worker[w].pc # "idle" => worker[w].key \in Requests
    BY DEF Typed, WorkerShape, LocalsSet
  <2>2. CopyOrdered(worker[w])
    BY DEF CopiesAreOrdered
  <2> QED BY <2>1, <2>2 DEF CopyOrdered, UpToDate, SameStatus, Successor, Settled
<1>3. ASSUME NEW r \in Requests PROVE Settled(request[r])'
  BY Zenon DEF CopiesAreOrdered, Settled
<1> QED BY <1>1, <1>2, <1>3 DEF CopiesAreOrdered

LEMMA InformOrdered == Typed /\ CopiesAreOrdered /\ Inform => CopiesAreOrdered'
<1> SUFFICES ASSUME Typed, CopiesAreOrdered, Inform PROVE CopiesAreOrdered'
  OBVIOUS
<1>1. UNCHANGED <<request, worker>>
  BY DEF Inform, SyncRequests, SyncJobs, SyncMaps, ObserveRequest, ObserveJob,
         ObserveMap, server
<1>2. \A r \in Requests : seenRequest'[r] \in {seenRequest[r], request[r]}
  BY DEF Inform, SyncRequests, SyncJobs, SyncMaps, ObserveRequest, ObserveJob,
         ObserveMap, Typed, TypeOK
<1>3. \A r \in Requests : UpToDate(request[r], r)
  BY ServerUpToDate
<1>4. \A r \in Requests : UpToDate(seenRequest'[r], r)
  BY <1>2, <1>3 DEF CopiesAreOrdered
<1> QED BY <1>1, <1>4 DEF CopiesAreOrdered, CopyOrdered, UpToDate, SameStatus, Successor, Settled

LEMMA ClusterOrdered == Typed /\ CopiesAreOrdered /\ Cluster => CopiesAreOrdered'
<1> SUFFICES ASSUME Typed, CopiesAreOrdered, Cluster PROVE CopiesAreOrdered'
  OBVIOUS
<1>1. UNCHANGED <<seenRequest, worker>>
  BY DEF Cluster, Submit, Withdraw, EditConfigMap, StartPod, PodSucceeds, PodFails,
         RemoveJob, Outside, informer
<1>2. ASSUME NEW r \in Requests, NEW n \in Nodes, Submit(r, n) PROVE CopiesAreOrdered'
  <2>1. request[r] \in RequestRecord
    BY DEF Typed, TypeOK
  <2>2. request' = [request EXCEPT ![r] = [request[r] EXCEPT !.phase = "live", !.target = n]]
    BY <1>2 DEF Submit, Typed, TypeOK
  <2> QED BY <1>1, <2>1, <2>2, SubmitOrdered DEF Typed, TypeOK, RequestRecord
<1>3. ASSUME NEW r \in Requests, Withdraw(r) PROVE CopiesAreOrdered'
  <2>1. request[r] \in RequestRecord
    BY DEF Typed, TypeOK
  <2>2. request' = [request EXCEPT ![r] = [request[r] EXCEPT !.phase = "gone"]]
    BY <1>3 DEF Withdraw, Typed, TypeOK
  <2> QED BY <1>1, <2>1, <2>2, SubmitOrdered DEF Typed, TypeOK, RequestRecord
<1>4. CASE UNCHANGED request
  BY <1>1, <1>4, FrameOrdered
<1> QED BY <1>2, <1>3, <1>4 DEF Cluster, EditConfigMap, StartPod, PodSucceeds,
           PodFails, RemoveJob

LEMMA StepOrdered ==
  ASSUME Typed, CopiesAreOrdered, NEW w \in Handlers, Step(w)
  PROVE  CopiesAreOrdered'
BY LookupOrdered, ChooseConfigOrdered, VisitOrdered, EndVisitOrdered,
   ChooseMethodOrdered, CreateJobOrdered, WriteStatusOrdered DEF Step

LEMMA NextOrdered == Typed /\ CopiesAreOrdered /\ [Next]_vars => CopiesAreOrdered'
<1> SUFFICES ASSUME Typed, CopiesAreOrdered, [Next]_vars PROVE CopiesAreOrdered'
  OBVIOUS
<1>1. CASE Handle
  BY <1>1, TakeRequestOrdered, TakeJobOrdered, StepOrdered DEF Handle
<1>2. CASE Crash \/ ConcurrentMapAccess
  BY <1>2, ForgetOrdered DEF Crash, ConcurrentMapAccess, Panic, server
<1>3. CASE Load \/ Restart \/ UNCHANGED vars
  <2>1. UNCHANGED <<request, seenRequest, worker>>
    BY <1>3 DEF Load, ParseConfigMap, TakeConfigMap, Restart, vars, server, informer
  <2> QED BY <2>1, FrameOrdered
<1> QED BY <1>1, <1>2, <1>3, InformOrdered, ClusterOrdered DEF Next, Operator

(* A copy of a request that is as recent as the server's says what the      *)
(* server says, and what a handler is about to write is that and one thing  *)
(* more, in every execution (the optimistic concurrency of Update).         *)
THEOREM CopiesOrdered == Spec => []CopiesAreOrdered
<1> DEFINE I == Typed /\ CopiesAreOrdered
<1>1. Init => I
  BY InitTyped, InitOrdered
<1>2. I /\ [Next]_vars => I'
  BY NextTyped, NextOrdered
<1>3. I => CopiesAreOrdered
  OBVIOUS
<1> QED BY <1>1, <1>2, <1>3, PTL DEF Spec

-----------------------------------------------------------------------------
(* A Job that ended well stays as it is, and no Job changes its owner: what *)
(* was once true of a Job's success is true for good.                       *)
JobsAdvance ==
  \A j \in Jobs :
    /\ job[j].phase # "unborn" =>
         job'[j].phase # "unborn" /\ job'[j].owner = job[j].owner
    /\ job[j].succeeded = 1 /\ job[j].failed = 0 =>
         job'[j].succeeded = 1 /\ job'[j].failed = 0
    /\ EndedWell(job[j]) => EndedWell(job'[j])

(* The Job controller's steps as changes of one record. *)
LEMMA ControllerAdvances ==
  ASSUME Typed, NEW j \in Jobs,
         StartPod(j) \/ PodSucceeds(j) \/ PodFails(j) \/ RemoveJob(j)
  PROVE  JobsAdvance
<1>1. \A i \in Jobs : i # j => job'[i] = job[i]
  BY DEF Typed, TypeOK, StartPod, PodSucceeds, PodFails, RemoveJob
<1>2. job[j] \in JobRecord /\ (job[j].active = 1 => job[j].succeeded = 0)
  BY DEF Typed, TypeOK, WorkerShape
<1>3. job'[j].owner = job[j].owner /\ job'[j].phase # "unborn"
  BY <1>2 DEF Typed, TypeOK, JobRecord, StartPod, PodSucceeds, PodFails, RemoveJob
<1>4. ASSUME job[j].succeeded = 1
      PROVE  job'[j].succeeded = 1 /\ job'[j].failed = job[j].failed
                                   /\ job'[j].active = job[j].active
  <2>1. RemoveJob(j)
    BY <1>2, <1>4 DEF StartPod, PodSucceeds, PodFails
  <2>2. job' = [job EXCEPT ![j].phase = "gone"]
    BY <2>1 DEF RemoveJob
  <2> QED BY <1>2, <1>4, <2>2 DEF Typed, TypeOK, JobRecord
<1>5. EndedWell(job[j]) => EndedWell(job'[j])
  BY <1>4 DEF EndedWell
<1> QED BY <1>1, <1>3, <1>4, <1>5 DEF JobsAdvance, EndedWell

LEMMA CreateJobAdvances ==
  ASSUME Typed, NEW w \in Handlers, CreateJob(w)
  PROVE  JobsAdvance
<1>1. CASE UNCHANGED job
  BY <1>1 DEF JobsAdvance
<1>2. ASSUME NEW j \in Jobs, job[j].phase = "unborn",
             \A i \in Jobs : i # j => job'[i] = job[i]
      PROVE  JobsAdvance
  <2>1. job[j] = UnbornJob
    BY <1>2 DEF Typed, WorkerShape
  <2> QED BY <1>2, <2>1 DEF JobsAdvance, EndedWell, UnbornJob
<1>3. \/ UNCHANGED job
      \/ \E j \in Jobs : job[j].phase = "unborn" /\ \A i \in Jobs : i # j => job'[i] = job[i]
  BY DEF CreateJob, Typed, TypeOK
<1> QED BY <1>1, <1>2, <1>3

LEMMA NextAdvances == Typed /\ [Next]_vars => JobsAdvance
<1> SUFFICES ASSUME Typed, [Next]_vars PROVE JobsAdvance
  OBVIOUS
<1>1. CASE UNCHANGED job
  BY <1>1 DEF JobsAdvance
<1>2. CASE \E w \in Handlers : CreateJob(w)
  BY <1>2, CreateJobAdvances
<1>3. CASE \E j \in Jobs : StartPod(j) \/ PodSucceeds(j) \/ PodFails(j) \/ RemoveJob(j)
  BY <1>3, ControllerAdvances
<1>4. CASE Inform \/ Load \/ Crash \/ Restart \/ ConcurrentMapAccess \/ UNCHANGED vars
  BY <1>1, <1>4 DEF Inform, SyncRequests, SyncJobs, SyncMaps, ObserveRequest, ObserveJob,
     ObserveMap, Load, ParseConfigMap, TakeConfigMap, Crash, Restart,
     ConcurrentMapAccess, Panic, server, vars
<1>5. CASE Handle
  <2>1. ASSUME NEW w \in Handlers, Step(w), ~CreateJob(w) PROVE UNCHANGED job
    BY <2>1 DEF Step, LookupRequest, HandleFencingJob, ChooseConfig, VisitConfig,
       EndVisit, ChooseMethod, WriteStatus, Panic, server
  <2> QED BY <1>1, <1>2, <1>5, <2>1 DEF Handle, TakeRequest, TakeJob, server
<1>6. CASE Cluster
  BY <1>1, <1>3, <1>6 DEF Cluster, Submit, Withdraw, EditConfigMap
<1> QED BY <1>4, <1>5, <1>6 DEF Next, Operator

LEMMA FencedStays ==
  ASSUME JobsAdvance, NEW r, Fenced(r)
  PROVE  Fenced(r)'
BY DEF JobsAdvance, Fenced, JobsOf

LEMMA TrueCopyStays ==
  ASSUME JobsAdvance, NEW s, NEW j \in Jobs, TrueCopy(s, j)
  PROVE  TrueCopy(s, j)'
BY Zenon DEF JobsAdvance, TrueCopy, EndedWell

LEMMA ServerTrueCopy ==
  ASSUME Typed, NEW j \in Jobs
  PROVE  TrueCopy(job[j], j)
<1>1. job[j].phase = "unborn" => job[j] = UnbornJob
  BY DEF Typed, WorkerShape
<1> QED BY <1>1 DEF TrueCopy, UnbornJob

(* What a worker has in hand stays backed; its event is a Job there is.     *)
LEMMA BackedStays ==
  ASSUME JobsAdvance, NEW k, Backed(k), k.pc = "lookup" => k.event \in Jobs
  PROVE  Backed(k)'
<1>1. ASSUME k.pc = "lookup" PROVE TrueCopy(k.status, k.event)'
  BY <1>1, TrueCopyStays DEF Backed
<1>2. ASSUME Fenced(k.key) PROVE Fenced(k.key)'
  BY <1>2, FencedStays
<1>3. /\ k.pc = "lookup" => k.status.phase # "unborn" /\ k.status.owner = k.key
      /\ k.pc = "write" /\ k.req.result = "Complete" => Fenced(k.key)
  BY Zenon DEF Backed
<1> QED BY <1>1, <1>2, <1>3, Zenon DEF Backed

LEMMA IdleBacked == Backed(IdleWorker)
BY DEF Backed, IdleWorker

(* What a step must leave for the invariant to hold after it. *)
LEMMA StepBacked ==
  ASSUME Typed, CompletionIsBacked, JobsAdvance,
         \A j \in Jobs : seenJob'[j] \in {seenJob[j], job[j], UnbornJob},
         \A r \in Requests : request'[r].result = "Complete" =>
            request[r].result = "Complete" \/ Fenced(r),
         NEW k, Backed(k), k.pc = "lookup" => k.event \in Jobs,
         \A w \in Handlers : worker'[w] = worker[w] \/ worker'[w] = k
  PROVE  CompletionIsBacked'
<1>1. ASSUME NEW j \in Jobs PROVE TrueCopy(seenJob[j], j)'
  <2>1. TrueCopy(seenJob[j], j) /\ TrueCopy(job[j], j)
    BY ServerTrueCopy DEF CompletionIsBacked
  <2>2. TrueCopy(UnbornJob, j)
    BY DEF TrueCopy, UnbornJob, EndedWell
  <2>3. TrueCopy(seenJob'[j], j)
    BY <2>1, <2>2
  <2> QED BY <2>3, TrueCopyStays DEF TrueCopy, EndedWell
<1>2. ASSUME NEW w \in Handlers PROVE Backed(worker[w])'
  <2>1. Backed(worker[w]) /\ (worker[w].pc = "lookup" => worker[w].event \in Jobs)
    BY DEF CompletionIsBacked, Typed, WorkerShape, LocalsSet
  <2>2. CASE worker'[w] = worker[w]
    <3>1. Backed(worker[w])'
      BY <2>1, <2>2, BackedStays DEF Backed, TrueCopy
    <3> QED BY <3>1
  <2>3. CASE worker'[w] = k
    <3>1. Backed(k)'
      BY BackedStays
    <3> QED BY <2>3, <3>1 DEF Backed
  <2> QED BY <2>2, <2>3
<1>3. ASSUME NEW r \in Requests, request'[r].result = "Complete" PROVE Fenced(r)'
  <2>1. Fenced(r)
    BY <1>3 DEF CompletionIsBacked, CompleteMeansFenced
  <2> QED BY <2>1, FencedStays
<1> QED BY <1>1, <1>2, <1>3 DEF CompletionIsBacked, CompleteMeansFenced

LEMMA QuietBacked ==
  ASSUME NEW k, k.pc \notin {"lookup", "write"}
  PROVE  Backed(k)
BY DEF Backed

(* A step of one worker that reads and writes nothing of the API server's   *)
(* requests, and does not start with a Job event.                           *)
LEMMA LocalsBacked ==
  ASSUME Typed, CompletionIsBacked, JobsAdvance, UNCHANGED <<request, seenJob>>,
         NEW w \in Handlers, NEW k, Backed(k), k.pc # "lookup",
         worker' = [worker EXCEPT ![w] = k]
  PROVE  CompletionIsBacked'
<1>1. \A v \in Handlers : worker'[v] = worker[v] \/ worker'[v] = k
  BY DEF Typed, TypeOK
<1>2. /\ \A j \in Jobs : seenJob'[j] \in {seenJob[j], job[j], UnbornJob}
      /\ \A r \in Requests : request'[r].result = "Complete" =>
            request[r].result = "Complete" \/ Fenced(r)
  OBVIOUS
<1> QED BY <1>1, <1>2, StepBacked

LEMMA GotoBacked ==
  ASSUME Typed, CompletionIsBacked, JobsAdvance, UNCHANGED <<request, seenJob>>,
         NEW w \in Handlers, NEW pc \in {"choose", "write"}, NEW req, Goto(w, pc, req),
         pc = "write" /\ req.result = "Complete" => Fenced(worker[w].key)
  PROVE  CompletionIsBacked'
<1> DEFINE k == At(w, pc, req)
<1>1. worker' = [worker EXCEPT ![w] = k]
  BY DEF Goto, At
<1>2. k.pc = pc /\ k.key = worker[w].key /\ k.req = req
  BY AtFields
<1> HIDE DEF k
<1>3. k.pc # "lookup"
  BY <1>2
<1>4. Backed(k)
  BY <1>2, <1>3, Zenon DEF Backed
<1> QED BY <1>1, <1>3, <1>4, LocalsBacked

LEMMA FinishBacked ==
  ASSUME Typed, CompletionIsBacked, JobsAdvance, UNCHANGED <<request, seenJob>>,
         NEW w \in Handlers, Finish(w)
  PROVE  CompletionIsBacked'
<1>1. IdleWorker.pc # "lookup"
  BY DEF IdleWorker
<1> QED BY <1>1, IdleBacked, LocalsBacked DEF Finish

LEMMA ForgetBacked ==
  ASSUME Typed, CompletionIsBacked, JobsAdvance, Forget, UNCHANGED request
  PROVE  CompletionIsBacked'
<1>1. \A j \in Jobs : seenJob'[j] = UnbornJob
  BY DEF Forget, NoJobs
<1>2. \A w \in Handlers : worker'[w] = IdleWorker
  BY DEF Forget, AllIdle
<1>3. IdleWorker.pc # "lookup"
  BY DEF IdleWorker
<1> QED BY <1>1, <1>2, <1>3, IdleBacked, StepBacked

(* A handler that holds an open request holds one without a result. *)
LEMMA BusyResult ==
  ASSUME Typed, CopiesAreOrdered, NEW w \in Handlers, worker[w].pc \in Busy
  PROVE  worker[w].req.result = None /\ None # "Complete"
<1>1. ~worker[w].req.complete /\ Settled(worker[w].req)
  BY BusyCopy DEF UpToDate
<1>2. None # "Complete"
  BY NoneAssumption DEF Results
<1> QED BY <1>1, <1>2, Zenon DEF Settled

LEMMA TakeJobBacked ==
  ASSUME Typed, CompletionIsBacked, JobsAdvance, NEW j \in Jobs, TakeJob(j)
  PROVE  CompletionIsBacked'
<1> DEFINE k == [IdleWorker EXCEPT !.pc = "lookup", !.key = seenJob[j].owner,
                                   !.event = j, !.status = seenJob[j]]
<1>1. UNCHANGED <<request, seenJob>>
  BY DEF TakeJob, server
<1>2. /\ k.pc = "lookup" /\ k.key = seenJob[j].owner
      /\ k.event = j /\ k.status = seenJob[j]
  BY DEF IdleWorker
<1>3. \A v \in Handlers : worker'[v] = worker[v] \/ worker'[v] = k
  BY DEF TakeJob, Typed, TypeOK
<1> HIDE DEF k
<1>4. seenJob[j].phase # "unborn"
  BY DEF TakeJob, Typed, WorkerShape
<1>5. TrueCopy(seenJob[j], j)
  BY DEF CompletionIsBacked
<1>6. Backed(k) /\ k.event \in Jobs
  <2>1. k.pc # "write"
    BY <1>2
  <2> QED BY <1>2, <1>4, <1>5, <2>1, Zenon DEF Backed
<1>7. /\ \A i \in Jobs : seenJob'[i] \in {seenJob[i], job[i], UnbornJob}
      /\ \A r \in Requests : request'[r].result = "Complete" =>
            request[r].result = "Complete" \/ Fenced(r)
  BY <1>1
<1> QED BY <1>3, <1>6, <1>7, StepBacked

LEMMA LookupBacked ==
  ASSUME Typed, CompletionIsBacked, JobsAdvance, NEW w \in Handlers, LookupRequest(w)
  PROVE  CompletionIsBacked'
<1> DEFINE r == worker[w].key
           req == request[r]
           s == worker[w].status
<1>1. /\ UNCHANGED request /\ r \in Requests /\ req \in RequestRecord
      /\ s \in JobRecord /\ worker[w].event \in Jobs
  BY DEF LookupRequest, HandleFencingJob, Panic, server, Typed, TypeOK, WorkerShape,
         LocalsSet, WorkerRecord
<1>2. CASE Finish(w) /\ UNCHANGED <<server, informer, config, process>>
  BY <1>1, <1>2, FinishBacked DEF informer
<1>3. CASE HandleFencingJob(w, req)
  <2>1. CASE Panic
    BY <1>1, <2>1, ForgetBacked DEF Panic
  <2>2. CASE /\ Write(w, SetFinalResult(req, "Complete")) /\ JobSucceeded(s)
             /\ s.active + s.failed + s.succeeded > 0
             /\ UNCHANGED <<server, informer, config, process>>
    <3>1. EndedWell(s)
      BY <1>1, <2>2 DEF JobSucceeded, EndedWell, JobRecord, Retries
    <3>2. TrueCopy(s, worker[w].event) /\ s.phase # "unborn" /\ s.owner = r
      BY DEF CompletionIsBacked, Backed, LookupRequest
    <3>3. Fenced(r)
      BY <1>1, <3>1, <3>2 DEF TrueCopy, EndedWell, Fenced, JobsOf
    <3> QED BY <1>1, <2>2, <3>3, GotoBacked DEF Write, informer
  <2>3. CASE /\ Goto(w, "choose", req)
             /\ UNCHANGED <<server, informer, config, process>>
    BY <1>1, <2>3, GotoBacked DEF informer
  <2> QED BY <1>2, <1>3, <2>1, <2>2, <2>3 DEF HandleFencingJob
<1> QED BY <1>2, <1>3 DEF LookupRequest

(* The steps between the two calls that read and write the request.         *)
LEMMA TurnBacked ==
  ASSUME Typed, CompletionIsBacked, JobsAdvance, UNCHANGED <<request, seenJob>>,
         NEW w \in Handlers, NEW k, k.pc \in Busy, worker' = [worker EXCEPT ![w] = k]
  PROVE  CompletionIsBacked'
BY QuietBacked, LocalsBacked DEF Busy

LEMMA ChooseConfigBacked ==
  ASSUME Typed, CompletionIsBacked, JobsAdvance, NEW w \in Handlers, ChooseConfig(w)
  PROVE  CompletionIsBacked'
<1> DEFINE c == worker[w].req.config
           p == [worker[w] EXCEPT !.pc = "method", !.cfg = fencingConfigs[c]]
           q == [worker[w] EXCEPT !.pc = "visit", !.req.config = None,
                                  !.due = DOMAIN fencingConfigs]
<1>1. UNCHANGED <<request, seenJob>> /\ worker[w] \in WorkerRecord
  BY DEF ChooseConfig, server, informer, Typed, TypeOK
<1>2. CASE Pinned(c)
  <2>1. worker' = [worker EXCEPT ![w] = p]
    BY <1>2 DEF ChooseConfig, Typed, TypeOK
  <2>2. p.pc \in Busy
    BY <1>1 DEF Busy, WorkerRecord
  <2> HIDE DEF p
  <2> QED BY <1>1, <2>1, <2>2, TurnBacked
<1>3. CASE ~Pinned(c)
  <2>1. worker' = [worker EXCEPT ![w] = q]
    BY <1>3 DEF ChooseConfig, Typed, TypeOK
  <2>2. q.pc \in Busy
    BY <1>1 DEF Busy, WorkerRecord
  <2> HIDE DEF q
  <2> QED BY <1>1, <2>1, <2>2, TurnBacked
<1> QED BY <1>2, <1>3

LEMMA VisitBacked ==
  ASSUME Typed, CompletionIsBacked, JobsAdvance, NEW w \in Handlers,
         NEW c \in ConfigMaps, VisitConfig(w, c)
  PROVE  CompletionIsBacked'
<1> DEFINE p == [worker[w] EXCEPT !.visited = @ \cup {c}]
           q == [p EXCEPT !.chosen = c, !.cfg = fencingConfigs[c]]
<1>1. UNCHANGED request /\ worker[w].pc = "visit" /\ worker[w] \in WorkerRecord
  BY DEF VisitConfig, Panic, server, Typed, TypeOK
<1>2. CASE Panic
  BY <1>1, <1>2, ForgetBacked DEF Panic
<1>3. CASE worker' = [worker EXCEPT ![w] = p] /\ UNCHANGED informer
  <2>1. p.pc \in Busy
    BY <1>1 DEF Busy, WorkerRecord
  <2> HIDE DEF p
  <2> QED BY <1>1, <1>3, <2>1, TurnBacked DEF informer
<1>4. CASE worker' = [worker EXCEPT ![w] = q] /\ UNCHANGED informer
  <2>1. q.pc \in Busy
    BY <1>1 DEF Busy, WorkerRecord
  <2> HIDE DEF q
  <2> QED BY <1>1, <1>4, <2>1, TurnBacked DEF informer
<1> QED BY <1>2, <1>3, <1>4 DEF VisitConfig

LEMMA EndVisitBacked ==
  ASSUME Typed, CompletionIsBacked, JobsAdvance, NEW w \in Handlers, EndVisit(w)
  PROVE  CompletionIsBacked'
<1> DEFINE req == worker[w].req
           p == [worker[w] EXCEPT !.pc = "method", !.req.config = worker[w].chosen,
                                  !.chosen = None, !.due = {}, !.visited = {}]
<1>1. UNCHANGED <<request, seenJob>>
  BY DEF EndVisit, server, informer
<1>2. worker[w] \in WorkerRecord /\ req \in RequestRecord
  BY DEF Typed, TypeOK, WorkerRecord
<1>3. CASE NoConfigFound(w)
  <2>1. "NoConfig" \in Results
    BY DEF Results, Failures
  <2>2. SetFinalResult(req, "NoConfig").result = "NoConfig"
    BY <1>2, <2>1, SetFinalResultFields
  <2> QED BY <1>1, <1>3, <2>2, GotoBacked DEF NoConfigFound, Write
<1>4. CASE worker[w].chosen # None
  <2>1. worker' = [worker EXCEPT ![w] = p]
    BY <1>4 DEF EndVisit, Typed, TypeOK
  <2>2. p.pc \in Busy
    BY <1>2 DEF WorkerRecord, Busy
  <2> HIDE DEF p
  <2> QED BY <1>1, <2>1, <2>2, TurnBacked
<1> QED BY <1>3, <1>4 DEF EndVisit

LEMMA ChooseMethodBacked ==
  ASSUME Typed, CopiesAreOrdered, CompletionIsBacked, JobsAdvance,
         NEW w \in Handlers, ChooseMethod(w)
  PROVE  CompletionIsBacked'
<1> DEFINE methods == worker[w].cfg.methods
           req == worker[w].req
           k(i) == [worker[w] EXCEPT !.pc = "create", !.attempt = i]
<1>1. UNCHANGED request /\ worker[w].pc \in Busy
  BY DEF ChooseMethod, Panic, server, Busy
<1>2. worker[w] \in WorkerRecord /\ worker[w].cfg \in Contents
  BY DEF ChooseMethod, Typed, TypeOK, WorkerShape, LocalsSet
<1>3. CASE Panic
  BY <1>1, <1>3, ForgetBacked DEF Panic
<1>4. ASSUME NEW i \in 1 .. Len(methods), UNCHANGED <<server, informer, config, process>>,
             \/ Finish(w)
             \/ worker' = [worker EXCEPT ![w].pc = "create", ![w].attempt = i]
             \/ Write(w, MethodError(req, methods[i], i = Len(methods)))
      PROVE  CompletionIsBacked'
  <2>0. UNCHANGED <<request, seenJob>>
    BY <1>4 DEF server, informer
  <2>1. CASE Finish(w)
    BY <2>0, <2>1, FinishBacked
  <2>2. CASE worker' = [worker EXCEPT ![w].pc = "create", ![w].attempt = i]
    <3>1. k(i).pc \in Busy
      BY <1>2 DEF Busy, WorkerRecord
    <3>2. worker' = [worker EXCEPT ![w] = k(i)]
      BY <2>2 DEF Typed, TypeOK
    <3> HIDE DEF k
    <3> QED BY <2>0, <3>1, <3>2, TurnBacked
  <2>3. CASE Write(w, MethodError(req, methods[i], i = Len(methods)))
    <3> DEFINE failure == MethodError(req, methods[i], i = Len(methods))
    <3>1. methods[i] \in Methods /\ (i = Len(methods)) \in BOOLEAN
      BY <1>2, MethodTyped
    <3>2. failure.result = "GivingUp" \/ failure.result = req.result
      BY <1>1, <3>1, BusyCopy, ErrorSucceeds
    <3> HIDE DEF failure
    <3>3. Goto(w, "write", failure)
      BY <2>3 DEF Write, failure
    <3>4. failure.result # "Complete"
      BY <1>1, <3>2, BusyResult
    <3> QED BY <2>0, <3>3, <3>4, GotoBacked
  <2> QED BY <1>4, <2>1, <2>2, <2>3
<1> QED BY <1>3, <1>4 DEF ChooseMethod, ChosenMethod

LEMMA CreateJobBacked ==
  ASSUME Typed, CopiesAreOrdered, CompletionIsBacked, JobsAdvance,
         NEW w \in Handlers, CreateJob(w)
  PROVE  CompletionIsBacked'
<1>1. UNCHANGED <<request, seenJob>> /\ worker[w].pc \in Busy
  BY DEF CreateJob, informer, Busy
<1>2. PICK out : /\ Goto(w, "write", out)
                 /\ out.result = "GivingUp" \/ out.result = worker[w].req.result
  BY CreateJobWrites
<1>3. out.result # "Complete"
  BY <1>1, <1>2, BusyResult
<1> QED BY <1>1, <1>2, <1>3, GotoBacked

LEMMA WriteStatusBacked ==
  ASSUME Typed, CompletionIsBacked, JobsAdvance, NEW w \in Handlers, WriteStatus(w)
  PROVE  CompletionIsBacked'
<1> DEFINE r == worker[w].key
           req == worker[w].req
<1>1. r \in Requests /\ req \in RequestRecord /\ UNCHANGED seenJob /\ Finish(w)
  BY DEF WriteStatus, Typed, TypeOK, WorkerRecord, WorkerShape, LocalsSet, informer
<1>2. CASE UNCHANGED request
  BY <1>1, <1>2, FinishBacked
<1>3. CASE request' = [request EXCEPT ![r] = Stored(req)]
  <2>1. req.result = "Complete" => Fenced(r)
    BY DEF WriteStatus, CompletionIsBacked, Backed
  <2>2. Stored(req).result = req.result
    BY <1>1, StoredFields
  <2>3. \A q \in Requests : request'[q].result = "Complete" =>
           request[q].result = "Complete" \/ Fenced(q)
    BY <1>3, <2>1, <2>2 DEF Typed, TypeOK
  <2>4. \A v \in Handlers : worker'[v] = worker[v] \/ worker'[v] = IdleWorker
    BY <1>1 DEF Finish, Typed, TypeOK
  <2>5. IdleWorker.pc # "lookup"
    BY DEF IdleWorker
  <2> QED BY <1>1, <2>3, <2>4, <2>5, IdleBacked, StepBacked
<1> QED BY <1>2, <1>3 DEF WriteStatus

LEMMA StepIsBacked ==
  ASSUME Typed, CopiesAreOrdered, CompletionIsBacked, JobsAdvance,
         NEW w \in Handlers, Step(w)
  PROVE  CompletionIsBacked'
BY LookupBacked, ChooseConfigBacked, VisitBacked, EndVisitBacked,
   ChooseMethodBacked, CreateJobBacked, WriteStatusBacked DEF Step

LEMMA TakeRequestBacked ==
  ASSUME Typed, CompletionIsBacked, JobsAdvance, NEW r \in Requests, TakeRequest(r)
  PROVE  CompletionIsBacked'
<1> DEFINE k == [IdleWorker EXCEPT !.pc = "choose", !.key = r, !.req = seenRequest[r]]
<1>1. UNCHANGED <<request, seenJob>> /\ "FencingRequest" \in Handlers
  BY DEF TakeRequest, server, Handlers
<1>2. CASE worker' = [worker EXCEPT !["FencingRequest"] = k]
  <2>1. k.pc \in Busy
    BY DEF Busy, IdleWorker
  <2> HIDE DEF k
  <2> QED BY <1>1, <1>2, <2>1, TurnBacked
<1>3. CASE UNCHANGED worker
  BY <1>1, <1>3, IdleBacked, StepBacked DEF IdleWorker
<1> QED BY <1>2, <1>3 DEF TakeRequest

(* Everything that leaves the workers alone. *)
LEMMA RestBacked ==
  ASSUME Typed, CompletionIsBacked, JobsAdvance, UNCHANGED worker,
         Inform \/ Load \/ Restart \/ Cluster \/ UNCHANGED vars
  PROVE  CompletionIsBacked'
<1>1. \A j \in Jobs : seenJob'[j] \in {seenJob[j], job[j], UnbornJob}
  BY DEF Inform, SyncRequests, SyncJobs, SyncMaps, ObserveRequest, ObserveJob,
     ObserveMap, Load, ParseConfigMap, TakeConfigMap, Restart, Cluster, Submit,
     Withdraw, EditConfigMap, StartPod, PodSucceeds, PodFails, RemoveJob, Outside,
     informer, vars, Typed, TypeOK
<1>2. \A r \in Requests : request'[r].result = request[r].result
  <2>1. CASE UNCHANGED request
    BY <2>1
  <2>2. ASSUME NEW q \in Requests, NEW n \in Nodes, Submit(q, n)
        PROVE  \A r \in Requests : request'[r].result = request[r].result
    BY <2>2 DEF Submit, Typed, TypeOK, RequestRecord
  <2>3. ASSUME NEW q \in Requests, Withdraw(q)
        PROVE  \A r \in Requests : request'[r].result = request[r].result
    BY <2>3 DEF Withdraw, Typed, TypeOK, RequestRecord
  <2> QED BY <2>1, <2>2, <2>3 DEF Inform, SyncRequests, SyncJobs, SyncMaps,
       ObserveRequest, ObserveJob, ObserveMap, Load, ParseConfigMap, TakeConfigMap,
       Restart, Cluster, EditConfigMap, StartPod, PodSucceeds, PodFails, RemoveJob,
       server, vars
<1> QED BY <1>1, <1>2, IdleBacked, StepBacked DEF IdleWorker

LEMMA NextBacked ==
  Typed /\ CopiesAreOrdered /\ CompletionIsBacked /\ [Next]_vars => CompletionIsBacked'
<1> SUFFICES ASSUME Typed, CopiesAreOrdered, CompletionIsBacked, [Next]_vars
             PROVE  CompletionIsBacked'
  OBVIOUS
<1>1. JobsAdvance
  BY NextAdvances
<1>2. CASE Handle
  BY <1>1, <1>2, TakeRequestBacked, TakeJobBacked, StepIsBacked DEF Handle
<1>3. CASE Crash \/ ConcurrentMapAccess
  BY <1>1, <1>3, ForgetBacked DEF Crash, ConcurrentMapAccess, Panic, server
<1>4. CASE Inform \/ Load \/ Restart \/ Cluster \/ UNCHANGED vars
  <2>1. UNCHANGED worker
    BY <1>4 DEF Inform, SyncRequests, SyncJobs, SyncMaps, ObserveRequest, ObserveJob,
       ObserveMap, Load, ParseConfigMap, TakeConfigMap, Restart, Cluster, Submit,
       Withdraw, EditConfigMap, StartPod, PodSucceeds, PodFails, RemoveJob, Outside, vars
  <2> QED BY <1>1, <1>4, <2>1, RestBacked
<1> QED BY <1>2, <1>3, <1>4 DEF Next, Operator

LEMMA InitBacked == Init => CompletionIsBacked
<1> SUFFICES ASSUME Init PROVE CompletionIsBacked
  OBVIOUS
<1>1. \A j \in Jobs : TrueCopy(seenJob[j], j)
  BY DEF Init, NoJobs, TrueCopy, UnbornJob, EndedWell
<1>2. \A w \in Handlers : Backed(worker[w])
  BY IdleBacked DEF Init, AllIdle
<1>3. \A r \in Requests : request[r].result # "Complete"
  BY NoneAssumption DEF Init, NoRequests, UnbornRequest, Results
<1> QED BY <1>1, <1>2, <1>3 DEF CompletionIsBacked, CompleteMeansFenced

(* A request is reported Complete only if a Job of that very request ran to *)
(* success without a failure: for any number of requests, Jobs, nodes and   *)
(* configurations, any edits of them, and whatever faults occur.            *)
THEOREM CompletionIsSound == Spec => []CompleteMeansFenced
<1> DEFINE I == Typed /\ CopiesAreOrdered /\ CompletionIsBacked
<1>1. Init => I
  BY InitTyped, InitOrdered, InitBacked
<1>2. I /\ [Next]_vars => I'
  BY NextTyped, NextOrdered, NextBacked
<1>3. I => CompleteMeansFenced
  BY DEF CompletionIsBacked
<1> QED BY <1>1, <1>2, <1>3, PTL DEF Spec

(* The whole inductive invariant holds of the FencingRequest and the Job    *)
(* worker (HandleFencingRequest, HandleJob) in every execution.             *)
THEOREM InductiveInvariant == Spec => []IInv
<1>1. Init => IInv
  BY InitTyped, InitOrdered, InitBacked DEF IInv, Typed
<1>2. IInv /\ [Next]_vars => IInv'
  BY NextTyped, NextOrdered, NextBacked DEF IInv, Typed
<1> QED BY <1>1, <1>2, PTL DEF Spec

-----------------------------------------------------------------------------
(* Fencing of requests that are complete.                                   *)

LEMMA CreateJobStale ==
  ASSUME Typed, CopiesAreOrdered, NEW w \in Handlers, CreateJob(w), NEW j \in Jobs,
         job[j].phase = "unborn", job'[j].phase = "live", request[job'[j].owner].complete
  PROVE  /\ worker[w].key = job'[j].owner
         /\ worker[w].req.version < request[job'[j].owner].version
<1> DEFINE r == worker[w].key
           req == worker[w].req
<1>1. job'[j].owner = r
  <2>1. PICK i \in Jobs : job' = [job EXCEPT ![i] = [UnbornJob EXCEPT !.phase = "live",
              !.owner = r, !.config = req.config,
              !.method = worker[w].cfg.methods[worker[w].attempt]]]
    BY DEF CreateJob
  <2>2. i = j
    BY <2>1 DEF Typed, TypeOK
  <2> QED BY <2>1, <2>2 DEF Typed, TypeOK, UnbornJob
<1>2. /\ ~req.complete /\ UpToDate(req, r)
      /\ req \in RequestRecord /\ r \in Requests
  BY BusyCopy DEF CreateJob, Busy
<1>3. req.version # request[r].version
  BY <1>1, <1>2, Zenon DEF UpToDate, SameStatus
<1>4. req.version <= request[r].version
  BY <1>2 DEF UpToDate
<1>5. req.version \in Nat /\ request[r].version \in Nat
  BY <1>2 DEF Typed, TypeOK, RequestRecord
<1> QED BY <1>1, <1>3, <1>4, <1>5

LEMMA NextStale ==
  ASSUME Typed, CopiesAreOrdered, Next
  PROVE  CompletedFencedOnlyByStale
<1> SUFFICES ASSUME NEW j \in Jobs, job[j].phase = "unborn", job'[j].phase = "live",
                    request[job'[j].owner].complete
             PROVE  \E w \in Handlers :
                       /\ worker[w].key = job'[j].owner
                       /\ worker[w].req.version < request[job'[j].owner].version
  BY DEF CompletedFencedOnlyByStale
<1>1. PICK w \in Handlers : CreateJob(w)
  <2>1. job' # job
    OBVIOUS
  <2>2. ASSUME NEW i \in Jobs, StartPod(i) \/ PodSucceeds(i) \/ PodFails(i) \/ RemoveJob(i)
        PROVE  FALSE
    BY <2>2 DEF StartPod, PodSucceeds, PodFails, RemoveJob, Typed, TypeOK
  <2>3. ~Cluster
    BY <2>1, <2>2 DEF Cluster, Submit, Withdraw, EditConfigMap
  <2>4. Handle
    BY <2>1, <2>3 DEF Next, Operator, Inform, SyncRequests, SyncJobs, SyncMaps,
       ObserveRequest, ObserveJob, ObserveMap, Load, ParseConfigMap, TakeConfigMap,
       Crash, Restart, ConcurrentMapAccess, Panic, server
  <2>5. ASSUME NEW w \in Handlers, Step(w) PROVE CreateJob(w)
    BY <2>1, <2>5 DEF Step, LookupRequest, HandleFencingJob, ChooseConfig, VisitConfig,
       EndVisit, ChooseMethod, WriteStatus, Panic, server
  <2> QED BY <2>1, <2>4, <2>5 DEF Handle, TakeRequest, TakeJob, server
<1> QED BY <1>1, CreateJobStale

(* A request that is complete gets a new Job only from a handler whose copy *)
(* of it is older: redelivery, restarts and late events never cause one.    *)
THEOREM CompletedIsLeftAlone == Spec => OnlyStaleHandlersFenceCompleted
<1> DEFINE I == Typed /\ CopiesAreOrdered
<1>1. Init => I
  BY InitTyped, InitOrdered
<1>2. I /\ [Next]_vars => I'
  BY NextTyped, NextOrdered
<1>3. I /\ [Next]_vars => [CompletedFencedOnlyByStale]_vars
  BY NextStale
<1> QED BY <1>1, <1>2, <1>3, PTL DEF Spec, OnlyStaleHandlersFenceCompleted
=============================================================================
