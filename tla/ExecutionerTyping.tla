-------------------------- MODULE ExecutionerTyping --------------------------
(***************************************************************************)
(* Type correctness of Executioner, for every value of its constants, and  *)
(* with it the shape of the handlers' locals (WorkerShape).                *)
(***************************************************************************)
EXTENDS Executioner, TLAPS

Typed == TypeOK /\ WorkerShape

-----------------------------------------------------------------------------
(* The operators that build records are well typed.                        *)

LEMMA UnbornTyped ==
  /\ UnbornRequest \in RequestRecord
  /\ UnbornJob \in JobRecord
  /\ NoMap \in MapRecord
BY DEF UnbornRequest, UnbornJob, NoMap, RequestRecord, JobRecord, MapRecord,
       Phases, Retries, Data

LEMMA IdleTyped == IdleWorker \in WorkerRecord
BY UnbornTyped DEF IdleWorker, WorkerRecord, Pcs

LEMMA AddResultTyped ==
  ASSUME NEW req \in RequestRecord, NEW m \in Methods \cup {None},
         NEW res \in Messages
  PROVE  AddResult(req, m, res) \in RequestRecord
<1>1. [method |-> m, message |-> res] \in Update
  BY DEF Update
<1>2. Append(req.updates, [method |-> m, message |-> res]) \in Seq(Update)
  BY <1>1 DEF RequestRecord
<1> QED BY <1>2 DEF AddResult, RequestRecord

LEMMA SetFinalResultTyped ==
  ASSUME NEW req \in RequestRecord, NEW res \in Results
  PROVE  SetFinalResult(req, res) \in RequestRecord
<1> DEFINE done == [req EXCEPT !.complete = TRUE, !.result = res]
<1>1. done \in RequestRecord
  BY DEF RequestRecord
<1>2. None \in Methods \cup {None} /\ res \in Messages
  BY DEF Messages
<1> HIDE DEF done
<1>3. AddResult(done, None, res) \in RequestRecord
  BY <1>1, <1>2, AddResultTyped
<1> QED BY <1>3 DEF SetFinalResult, done

LEMMA MethodErrorTyped ==
  ASSUME NEW req \in RequestRecord, NEW m \in Methods, NEW last \in BOOLEAN
  PROVE  MethodError(req, m, last) \in RequestRecord
<1>1. "GivingUp" \in Results /\ "GivingUp" \in Messages
  BY DEF Messages, Results, Failures
<1> QED BY <1>1, AddResultTyped, SetFinalResultTyped DEF MethodError

LEMMA StoredTyped ==
  ASSUME NEW req \in RequestRecord
  PROVE  Stored(req) \in RequestRecord
<1> DEFINE enc == [req EXCEPT !.activeMethod = None, !.activeJob = None]
<1>1. enc \in RequestRecord
  BY DEF RequestRecord
<1> HIDE DEF enc
<1>2. enc.version + 1 \in Nat
  BY <1>1 DEF RequestRecord
<1>3. [enc EXCEPT !.version = enc.version + 1] \in RequestRecord
  BY <1>1, <1>2 DEF RequestRecord
<1> QED BY <1>3 DEF Stored, Encoded, enc

(* Forgetting everything leaves well-typed memory. *)
LEMMA ForgetTyped ==
  ASSUME Typed, Forget, UNCHANGED server, process' \in {"running", "panicked", "killed"},
         faults' \in 0 .. MaxFaults
  PROVE  Typed'
<1>1. NoConfigs \in UNION {[D -> Contents \cup {None}] : D \in SUBSET ConfigMaps}
  <2>1. NoConfigs \in [{} -> Contents \cup {None}]
    BY DEF NoConfigs
  <2> QED BY <2>1
<1>2. IdleLoader \in [pc : {"idle", "parse"}, name : ConfigMaps \cup {None}, data : Data]
  BY DEF IdleLoader, Data
<1>3. TypeOK'
  BY <1>1, <1>2, UnbornTyped, IdleTyped
  DEF Typed, TypeOK, Forget, server, NoRequests, NoJobs, NoMaps, AllIdle, EmptyQueue, Kinds
<1>4. WorkerShape'
  BY DEF Typed, WorkerShape, LocalsSet, Forget, server, NoJobs, AllIdle, EmptyQueue,
         IdleWorker, IdleLoader, UnbornJob
<1> QED BY <1>3, <1>4 DEF Typed

LEMMA InitTyped == Init => Typed
<1> SUFFICES ASSUME Init PROVE Typed
  OBVIOUS
<1>1. NoConfigs \in UNION {[D -> Contents \cup {None}] : D \in SUBSET ConfigMaps}
  <2>1. NoConfigs \in [{} -> Contents \cup {None}]
    BY DEF NoConfigs
  <2> QED BY <2>1
<1>2. IdleLoader \in [pc : {"idle", "parse"}, name : ConfigMaps \cup {None}, data : Data]
  BY DEF IdleLoader, Data
<1>3. configmap \in [ConfigMaps -> MapRecord]
  BY ContentsAssumption DEF Init, MapRecord
<1>4. TypeOK
  BY <1>1, <1>2, <1>3, UnbornTyped, IdleTyped, BoundAssumption
  DEF TypeOK, Init, NoRequests, NoJobs, NoMaps, AllIdle, EmptyQueue
<1>5. WorkerShape
  BY DEF WorkerShape, LocalsSet, Init, NoJobs, AllIdle, EmptyQueue, IdleWorker,
         IdleLoader, UnbornJob
<1> QED BY <1>4, <1>5 DEF Typed

-----------------------------------------------------------------------------
(* Typing is preserved: informers and loader.                              *)

LEMMA FaultsTyped ==
  ASSUME Typed, NoFault \/ \E f \in AllFaults : Fault(f)
  PROVE  faults' \in 0 .. MaxFaults
BY BoundAssumption DEF Typed, TypeOK, NoFault, Fault

LEMMA InformTyped == Typed /\ Inform => Typed'
<1> SUFFICES ASSUME Typed, Inform PROVE Typed'
  OBVIOUS
<1> USE DEF Typed, TypeOK, WorkerShape
<1>1. CASE SyncRequests
  BY <1>1 DEF SyncRequests, Enqueue, server, config, Kinds, Handlers
<1>2. CASE SyncJobs
  <2>1. TypeOK'
    BY <1>2 DEF SyncJobs, Enqueue, server, config, Kinds, Handlers
  <2>2. queue'.Job = queue.Job \cup {j \in Jobs : job[j].phase = "live"}
    BY <1>2 DEF SyncJobs, Enqueue
  <2>3. \A j \in queue.Job : seenJob'[j].phase # "unborn"
    BY <1>2 DEF SyncJobs
  <2> QED BY <1>2, <2>1, <2>2, <2>3 DEF SyncJobs, server, config
<1>3. CASE SyncMaps
  BY <1>3 DEF SyncMaps, Enqueue, server, config, Kinds, Handlers
<1>4. ASSUME NEW r \in Requests, ObserveRequest(r) PROVE Typed'
  BY <1>4 DEF ObserveRequest, Enqueue, server, config
<1>5. ASSUME NEW j \in Jobs, ObserveJob(j) PROVE Typed'
  <2>1. TypeOK'
    BY <1>5 DEF ObserveJob, Enqueue, server, config
  <2>2. queue'.Job = queue.Job \cup {j}
    BY <1>5 DEF ObserveJob, Enqueue
  <2>3. seenJob'[j].phase # "unborn" /\ seenJob'[j].owner \in Requests
    BY <1>5 DEF ObserveJob
  <2> QED BY <1>5, <2>1, <2>2, <2>3 DEF ObserveJob, server, config
<1>6. ASSUME NEW c \in ConfigMaps, ObserveMap(c) PROVE Typed'
  BY <1>6 DEF ObserveMap, Enqueue, server, config
<1> QED BY <1>1, <1>2, <1>3, <1>4, <1>5, <1>6 DEF Inform

LEMMA StoreTyped ==
  ASSUME Typed, NEW c \in ConfigMaps, NEW entry \in Contents \cup {None},
         Store(c, entry)
  PROVE  fencingConfigs' \in UNION {[D -> Contents \cup {None}] : D \in SUBSET ConfigMaps}
<1>1. PICK D \in SUBSET ConfigMaps : fencingConfigs \in [D -> Contents \cup {None}]
  BY DEF Typed, TypeOK
<1>2. fencingConfigs' \in [D \cup {c} -> Contents \cup {None}]
  BY <1>1 DEF Store
<1>3. D \cup {c} \in SUBSET ConfigMaps
  BY <1>1
<1> QED BY <1>2, <1>3

LEMMA LoadTyped == Typed /\ Load => Typed'
<1> SUFFICES ASSUME Typed, Load PROVE Typed'
  OBVIOUS
<1>1. CASE ParseConfigMap
  <2>1. fencingConfigs' \in UNION {[D -> Contents \cup {None}] : D \in SUBSET ConfigMaps}
    <3>1. loader.name \in ConfigMaps
      BY <1>1 DEF ParseConfigMap, Typed, WorkerShape
    <3>2. CASE loader.data \in Contents
      BY <1>1, <3>1, <3>2, StoreTyped DEF ParseConfigMap, Publish
    <3>3. CASE loader.data \notin Contents
      BY <1>1, <3>3 DEF ParseConfigMap, Publish, Typed, TypeOK
    <3> QED BY <3>2, <3>3
  <2>2. loader' \in [pc : {"idle", "parse"}, name : ConfigMaps \cup {None}, data : Data]
    BY <1>1 DEF ParseConfigMap, IdleLoader, Data
  <2> QED BY <1>1, <2>1, <2>2 DEF ParseConfigMap, IdleLoader, Typed, TypeOK,
            WorkerShape, server, informer
<1>2. ASSUME NEW c \in ConfigMaps, TakeConfigMap(c) PROVE Typed'
  <2>1. fencingConfigs' \in UNION {[D -> Contents \cup {None}] : D \in SUBSET ConfigMaps}
    BY <1>2, StoreTyped DEF TakeConfigMap, ClearOld, config, Typed, TypeOK
  <2>2. /\ loader' \in [pc : {"idle", "parse"}, name : ConfigMaps \cup {None}, data : Data]
        /\ loader'.pc = "parse" => loader'.name \in ConfigMaps
    BY <1>2 DEF TakeConfigMap, config, Typed, TypeOK, WorkerShape, MapRecord
  <2> QED BY <1>2, <2>1, <2>2 DEF TakeConfigMap, Dequeue, Typed, TypeOK,
            WorkerShape, server
<1> QED BY <1>1, <1>2 DEF Load

-----------------------------------------------------------------------------
(* Typing is preserved: the handlers.                                      *)

LEMMA WorkerStepTyped ==
  ASSUME Typed, NEW w \in Handlers, NEW k \in WorkerRecord, LocalsSet(k),
         worker' = [worker EXCEPT ![w] = k],
         UNCHANGED <<server, informer, config, process>>,
         faults' \in 0 .. MaxFaults
  PROVE  Typed'
<1>1. worker' \in [Handlers -> WorkerRecord]
  BY DEF Typed, TypeOK
<1>2. \A v \in Handlers : LocalsSet(worker'[v])
  BY DEF Typed, TypeOK, WorkerShape
<1>3. TypeOK'
  BY <1>1 DEF Typed, TypeOK, server, informer, config
<1>4. WorkerShape'
  BY <1>2 DEF Typed, WorkerShape, LocalsSet, server, informer, config
<1> QED BY <1>3, <1>4 DEF Typed

LEMMA IdleLocals == LocalsSet(IdleWorker)
BY DEF LocalsSet, IdleWorker

LEMMA FinishTyped ==
  ASSUME Typed, NEW w \in Handlers, Finish(w),
         UNCHANGED <<server, informer, config, process>>,
         faults' \in 0 .. MaxFaults
  PROVE  Typed'
BY IdleTyped, IdleLocals, WorkerStepTyped DEF Finish

(* What Goto leaves in the worker. *)
At(w, pc, req) ==
  [IdleWorker EXCEPT !.pc = pc, !.key = worker[w].key, !.req = req]

LEMMA AtTyped ==
  ASSUME Typed, NEW w \in Handlers, worker[w].pc # "idle",
         NEW pc \in {"choose", "write"}, NEW req \in RequestRecord
  PROVE  At(w, pc, req) \in WorkerRecord /\ LocalsSet(At(w, pc, req))
<1>1. worker[w].key \in Requests
  BY DEF Typed, WorkerShape, LocalsSet
<1> QED BY <1>1, UnbornTyped DEF At, IdleWorker, WorkerRecord, LocalsSet, Pcs

LEMMA GotoTyped ==
  ASSUME Typed, NEW w \in Handlers, worker[w].pc # "idle",
         NEW pc \in {"choose", "write"}, NEW req \in RequestRecord,
         Goto(w, pc, req), UNCHANGED <<server, informer, config, process>>,
         faults' \in 0 .. MaxFaults
  PROVE  Typed'
<1>1. worker' = [worker EXCEPT ![w] = At(w, pc, req)]
  BY DEF Goto, At
<1> QED BY <1>1, AtTyped, WorkerStepTyped

LEMMA PanicTyped ==
  ASSUME Typed, Panic, faults' \in 0 .. MaxFaults
  PROVE  Typed'
BY ForgetTyped DEF Panic

LEMMA TakeRequestTyped ==
  ASSUME Typed, NEW r \in Requests, TakeRequest(r)
  PROVE  Typed'
<1> DEFINE w == "FencingRequest"
           k == [IdleWorker EXCEPT !.pc = "choose", !.key = r, !.req = seenRequest[r]]
<1>1. k \in WorkerRecord /\ LocalsSet(k)
  BY UnbornTyped DEF Typed, TypeOK, IdleWorker, WorkerRecord, LocalsSet, Pcs
<1>2. w \in Handlers
  BY DEF Handlers
<1>3. worker' = worker \/ worker' = [worker EXCEPT ![w] = k]
  BY DEF TakeRequest
<1> HIDE DEF k
<1>4. /\ worker' \in [Handlers -> WorkerRecord]
      /\ \A v \in Handlers : LocalsSet(worker'[v])
  BY <1>1, <1>2, <1>3 DEF Typed, TypeOK, WorkerShape
<1>5. TypeOK'
  BY <1>4 DEF TakeRequest, Dequeue, Typed, TypeOK, server, config
<1>6. WorkerShape'
  BY <1>4 DEF TakeRequest, Dequeue, Typed, TypeOK, WorkerShape, server, config
<1> QED BY <1>5, <1>6 DEF Typed

LEMMA TakeJobTyped ==
  ASSUME Typed, NEW j \in Jobs, TakeJob(j)
  PROVE  Typed'
<1> DEFINE w == "Job"
           k == [IdleWorker EXCEPT !.pc = "lookup", !.key = seenJob[j].owner,
                                   !.event = j, !.status = seenJob[j]]
<1>1. seenJob[j].owner \in Requests /\ seenJob[j] \in JobRecord
  BY DEF Typed, TypeOK, WorkerShape, TakeJob
<1>2. k \in WorkerRecord /\ LocalsSet(k)
  BY <1>1, UnbornTyped DEF IdleWorker, WorkerRecord, LocalsSet, Pcs
<1>3. w \in Handlers
  BY DEF Handlers
<1>4. worker' = worker \/ worker' = [worker EXCEPT ![w] = k]
  BY DEF TakeJob
<1> HIDE DEF k
<1>5. /\ worker' \in [Handlers -> WorkerRecord]
      /\ \A v \in Handlers : LocalsSet(worker'[v])
  BY <1>2, <1>3, <1>4 DEF Typed, TypeOK, WorkerShape
<1>6. faults' \in 0 .. MaxFaults
  BY FaultsTyped DEF TakeJob, AllFaults
<1>7. TypeOK'
  BY <1>5, <1>6 DEF TakeJob, Dequeue, Typed, TypeOK, server, config
<1>8. WorkerShape'
  BY <1>5 DEF TakeJob, Dequeue, Typed, TypeOK, WorkerShape, server, config
<1> QED BY <1>7, <1>8 DEF Typed

LEMMA LookupTyped ==
  ASSUME Typed, NEW w \in Handlers, LookupRequest(w)
  PROVE  Typed'
<1> DEFINE r == worker[w].key
<1>1. faults' \in 0 .. MaxFaults
  BY FaultsTyped DEF LookupRequest, AllFaults
<1>2. worker[w].pc # "idle" /\ r \in Requests /\ request[r] \in RequestRecord
  BY DEF LookupRequest, Typed, TypeOK, WorkerShape, LocalsSet
<1>3. CASE Finish(w) /\ UNCHANGED <<server, informer, config, process>>
  BY <1>1, <1>3, FinishTyped
<1>4. CASE HandleFencingJob(w, request[r])
  <2>1. CASE Panic
    BY <1>1, <2>1, PanicTyped
  <2>2. CASE /\ Write(w, SetFinalResult(request[r], "Complete"))
             /\ UNCHANGED <<server, informer, config, process>>
    <3>1. SetFinalResult(request[r], "Complete") \in RequestRecord
      BY <1>2, SetFinalResultTyped DEF Results
    <3> QED BY <1>1, <1>2, <2>2, <3>1, GotoTyped DEF Write
  <2>3. CASE Goto(w, "choose", request[r]) /\ UNCHANGED <<server, informer, config, process>>
    BY <1>1, <1>2, <2>3, GotoTyped
  <2> QED BY <1>3, <1>4, <2>1, <2>2, <2>3 DEF HandleFencingJob
<1> QED BY <1>3, <1>4 DEF LookupRequest

LEMMA ChooseConfigTyped ==
  ASSUME Typed, NEW w \in Handlers, ChooseConfig(w)
  PROVE  Typed'
<1> DEFINE c == worker[w].req.config
           p == [worker[w] EXCEPT !.pc = "method", !.cfg = fencingConfigs[c]]
           q == [worker[w] EXCEPT !.pc = "visit", !.req.config = None,
                                  !.due = DOMAIN fencingConfigs]
<1>1. PICK D \in SUBSET ConfigMaps : fencingConfigs \in [D -> Contents \cup {None}]
  BY DEF Typed, TypeOK
<1>2. /\ worker[w] \in WorkerRecord /\ LocalsSet(worker[w]) /\ worker[w].pc = "choose"
      /\ faults' \in 0 .. MaxFaults
  BY DEF ChooseConfig, Typed, TypeOK, WorkerShape
<1>3. CASE Pinned(c)
  <2>1. fencingConfigs[c] \in Contents
    BY <1>1, <1>3 DEF Pinned
  <2>2. p \in WorkerRecord /\ LocalsSet(p)
    BY <1>2, <2>1 DEF WorkerRecord, LocalsSet, Pcs
  <2>3. worker' = [worker EXCEPT ![w] = p]
    BY <1>3 DEF ChooseConfig, Typed, TypeOK
  <2> HIDE DEF p
  <2> QED BY <1>2, <2>2, <2>3, WorkerStepTyped DEF ChooseConfig
<1>4. CASE ~Pinned(c)
  <2>1. worker[w].chosen = None /\ worker[w].cfg = None
    BY <1>2 DEF LocalsSet
  <2>2. q \in WorkerRecord /\ LocalsSet(q)
    <3> DEFINE req == [worker[w].req EXCEPT !.config = None]
    <3>1. req \in RequestRecord /\ DOMAIN fencingConfigs \in SUBSET ConfigMaps
      BY <1>1, <1>2 DEF WorkerRecord, RequestRecord
    <3>2. q = [worker[w] EXCEPT !.pc = "visit", !.req = req, !.due = DOMAIN fencingConfigs]
      BY <1>2 DEF WorkerRecord
    <3> HIDE DEF q, req
    <3>3. q \in WorkerRecord
      BY <1>2, <3>1, <3>2 DEF WorkerRecord, Pcs
    <3>4. /\ q.pc = "visit" /\ q.key = worker[w].key
          /\ q.chosen = worker[w].chosen /\ q.cfg = worker[w].cfg
      BY <1>2, <3>2 DEF WorkerRecord
    <3> QED BY <1>2, <2>1, <3>3, <3>4 DEF LocalsSet
  <2>3. worker' = [worker EXCEPT ![w] = q]
    BY <1>4 DEF ChooseConfig, Typed, TypeOK
  <2> HIDE DEF q
  <2> QED BY <1>2, <2>2, <2>3, WorkerStepTyped DEF ChooseConfig
<1> QED BY <1>3, <1>4

LEMMA VisitTyped ==
  ASSUME Typed, NEW w \in Handlers, NEW c \in ConfigMaps, VisitConfig(w, c)
  PROVE  Typed'
<1> DEFINE entry == fencingConfigs[c]
           turn == [worker[w] EXCEPT !.visited = @ \cup {c}]
           better == [turn EXCEPT !.chosen = c, !.cfg = entry]
<1>1. PICK D \in SUBSET ConfigMaps : fencingConfigs \in [D -> Contents \cup {None}]
  BY DEF Typed, TypeOK
<1>2. entry \in Contents \cup {None}
  BY <1>1 DEF VisitConfig
<1>3. faults' \in 0 .. MaxFaults
  BY FaultsTyped DEF VisitConfig, AllFaults
<1>4. worker[w] \in WorkerRecord /\ LocalsSet(worker[w]) /\ worker[w].pc = "visit"
  BY DEF VisitConfig, Typed, TypeOK, WorkerShape
<1>5. c # None
  BY NoneAssumption
<1>6. turn \in WorkerRecord /\ LocalsSet(turn)
  BY <1>4 DEF WorkerRecord, LocalsSet
<1>7. CASE Panic
  BY <1>3, <1>7, PanicTyped
<1>8. CASE /\ entry # None /\ worker' = [worker EXCEPT ![w] = better]
           /\ UNCHANGED <<server, informer, config, process>>
  <2>1. better \in WorkerRecord /\ LocalsSet(better)
    BY <1>2, <1>4, <1>5, <1>8 DEF WorkerRecord, LocalsSet
  <2> HIDE DEF better
  <2> QED BY <1>3, <1>8, <2>1, WorkerStepTyped
<1>9. CASE /\ worker' = [worker EXCEPT ![w] = turn]
           /\ UNCHANGED <<server, informer, config, process>>
  <2> HIDE DEF turn
  <2> QED BY <1>3, <1>6, <1>9, WorkerStepTyped
<1> QED BY <1>7, <1>8, <1>9 DEF VisitConfig

LEMMA EndVisitTyped ==
  ASSUME Typed, NEW w \in Handlers, EndVisit(w)
  PROVE  Typed'
<1> DEFINE k == [worker[w] EXCEPT !.pc = "method", !.req.config = worker[w].chosen,
                                  !.chosen = None, !.due = {}, !.visited = {}]
<1>1. /\ worker[w] \in WorkerRecord /\ LocalsSet(worker[w]) /\ worker[w].pc = "visit"
      /\ faults' \in 0 .. MaxFaults
  BY DEF EndVisit, Typed, TypeOK, WorkerShape
<1>2. CASE worker[w].chosen = None
  <2>1. SetFinalResult(worker[w].req, "NoConfig") \in RequestRecord
    BY <1>1, SetFinalResultTyped DEF WorkerRecord, Results, Failures
  <2> QED BY <1>1, <1>2, <2>1, GotoTyped DEF EndVisit, NoConfigFound, Write
<1>3. CASE worker[w].chosen # None
  <2>1. worker[w].cfg \in Contents /\ worker[w].chosen \in ConfigMaps
    BY <1>1, <1>3 DEF WorkerRecord, LocalsSet
  <2>2. k \in WorkerRecord /\ LocalsSet(k)
    BY <1>1, <2>1 DEF WorkerRecord, RequestRecord, LocalsSet, Pcs
  <2>3. worker' = [worker EXCEPT ![w] = k]
    BY <1>3 DEF EndVisit, Typed, TypeOK
  <2> HIDE DEF k
  <2> QED BY <1>1, <2>2, <2>3, WorkerStepTyped DEF EndVisit
<1> QED BY <1>2, <1>3

LEMMA MethodTyped ==
  ASSUME NEW cfg \in Contents, NEW i \in 1 .. Len(cfg.methods)
  PROVE  /\ cfg.methods[i] \in Methods
         /\ Len(cfg.methods) \in Nat
         /\ i \in Nat /\ (i = Len(cfg.methods)) \in BOOLEAN
BY ContentsAssumption DEF ContentRecord

LEMMA ChooseMethodTyped ==
  ASSUME Typed, NEW w \in Handlers, ChooseMethod(w)
  PROVE  Typed'
<1> DEFINE methods == worker[w].cfg.methods
           req == worker[w].req
           k(i) == [worker[w] EXCEPT !.pc = "create", !.attempt = i]
<1>1. faults' \in 0 .. MaxFaults
  BY FaultsTyped DEF ChooseMethod, AllFaults
<1>2. /\ worker[w] \in WorkerRecord /\ LocalsSet(worker[w]) /\ worker[w].pc = "method"
      /\ worker[w].cfg \in Contents
  BY DEF ChooseMethod, Typed, TypeOK, WorkerShape, LocalsSet
<1>3. CASE Panic
  BY <1>1, <1>3, PanicTyped
<1>4. ASSUME NEW i \in 1 .. Len(methods), UNCHANGED <<server, informer, config, process>>,
             \/ Finish(w)
             \/ worker' = [worker EXCEPT ![w].pc = "create", ![w].attempt = i]
             \/ Write(w, MethodError(req, methods[i], i = Len(methods)))
      PROVE  Typed'
  <2>1. CASE Finish(w)
    BY <1>1, <1>4, <2>1, FinishTyped
  <2>2. CASE worker' = [worker EXCEPT ![w].pc = "create", ![w].attempt = i]
    <3>1. k(i) \in WorkerRecord /\ LocalsSet(k(i))
      BY <1>2, MethodTyped DEF WorkerRecord, LocalsSet, Pcs
    <3>2. worker' = [worker EXCEPT ![w] = k(i)]
      BY <2>2 DEF Typed, TypeOK
    <3> HIDE DEF k
    <3> QED BY <1>1, <1>4, <3>1, <3>2, WorkerStepTyped
  <2>3. CASE Write(w, MethodError(req, methods[i], i = Len(methods)))
    <3>1. MethodError(req, methods[i], i = Len(methods)) \in RequestRecord
      BY <1>2, MethodTyped, MethodErrorTyped DEF WorkerRecord
    <3> QED BY <1>1, <1>2, <1>4, <2>3, <3>1, GotoTyped DEF Write
  <2> QED BY <1>4, <2>1, <2>2, <2>3
<1> QED BY <1>3, <1>4 DEF ChooseMethod, ChosenMethod

LEMMA CreateJobTyped ==
  ASSUME Typed, NEW w \in Handlers, CreateJob(w)
  PROVE  Typed'
<1> DEFINE r == worker[w].key
           req == worker[w].req
           methods == worker[w].cfg.methods
           m == methods[worker[w].attempt]
           new == [UnbornJob EXCEPT !.phase = "live", !.owner = r,
                                    !.config = req.config, !.method = m]
           progress(j) == AddResult([req EXCEPT !.activeJob = j], m, "MethodInProgress")
           failure == MethodError(req, m, worker[w].attempt = Len(methods))
<1>1. faults' \in 0 .. MaxFaults
  BY FaultsTyped DEF CreateJob, AllFaults
<1>2. /\ worker[w] \in WorkerRecord /\ worker[w].pc = "create" /\ r \in Requests
      /\ worker[w].cfg \in Contents /\ worker[w].attempt \in 1 .. Len(methods)
  BY DEF CreateJob, Typed, TypeOK, WorkerShape, LocalsSet
<1>3. m \in Methods /\ req \in RequestRecord
  BY <1>2, MethodTyped DEF WorkerRecord
<1>4. failure \in RequestRecord
  BY <1>2, <1>3, MethodTyped, MethodErrorTyped
<1>5. ASSUME NEW j \in Jobs PROVE progress(j) \in RequestRecord
  <2>1. [req EXCEPT !.activeJob = j] \in RequestRecord
    BY <1>3 DEF RequestRecord
  <2>2. "MethodInProgress" \in Messages
    BY DEF Messages
  <2> QED BY <1>3, <2>1, <2>2, AddResultTyped
<1>6. new \in JobRecord /\ new.phase = "live" /\ new.owner \in Requests /\ new.active = 0
  BY <1>2, <1>3, UnbornTyped DEF JobRecord, RequestRecord, UnbornJob, Phases
<1>7. \/ UNCHANGED job
      \/ \E j \in Jobs : job[j].phase = "unborn" /\ job' = [job EXCEPT ![j] = new]
  BY DEF CreateJob
<1>8. \E out \in RequestRecord : worker' = [worker EXCEPT ![w] = At(w, "write", out)]
  BY <1>4, <1>5 DEF CreateJob, Write, Goto, At
<1> HIDE DEF new
<1>9. worker' \in [Handlers -> WorkerRecord] /\ \A v \in Handlers : LocalsSet(worker'[v])
  BY <1>2, <1>8, AtTyped DEF Typed, TypeOK, WorkerShape
<1>10. TypeOK'
  BY <1>1, <1>6, <1>7, <1>9 DEF CreateJob, Typed, TypeOK, informer, config
<1>11. /\ \A j \in Jobs : job'[j].phase # "unborn" => job'[j].owner \in Requests
       /\ \A j \in Jobs : job'[j].phase = "unborn" =>
            job'[j] = UnbornJob /\ seenJob[j] = UnbornJob
       /\ \A j \in Jobs : job'[j].active = 1 =>
            job'[j].failed <= Retries /\ job'[j].succeeded = 0
  BY <1>6, <1>7 DEF Typed, TypeOK, WorkerShape
<1>12. WorkerShape'
  BY <1>9, <1>11 DEF CreateJob, Typed, WorkerShape, informer, config
<1> QED BY <1>10, <1>12 DEF Typed

LEMMA WriteStatusTyped ==
  ASSUME Typed, NEW w \in Handlers, WriteStatus(w)
  PROVE  Typed'
<1>1. faults' \in 0 .. MaxFaults
  BY FaultsTyped DEF WriteStatus, AllFaults
<1>2. request' \in [Requests -> RequestRecord]
  BY StoredTyped DEF WriteStatus, Typed, TypeOK, WorkerRecord
<1>3. worker' \in [Handlers -> WorkerRecord] /\ \A v \in Handlers : LocalsSet(worker'[v])
  BY IdleTyped, IdleLocals DEF WriteStatus, Finish, Typed, TypeOK, WorkerShape
<1>4. TypeOK'
  BY <1>1, <1>2, <1>3 DEF WriteStatus, Typed, TypeOK, informer, config
<1>5. WorkerShape'
  BY <1>3 DEF WriteStatus, Typed, WorkerShape, informer, config
<1> QED BY <1>4, <1>5 DEF Typed

LEMMA HandleTyped == Typed /\ Handle => Typed'
BY TakeRequestTyped, TakeJobTyped, LookupTyped, ChooseConfigTyped, VisitTyped,
   EndVisitTyped, ChooseMethodTyped, CreateJobTyped, WriteStatusTyped
DEF Handle, Step

-----------------------------------------------------------------------------
(* Typing is preserved: the process and the cluster.                       *)

LEMMA ProcessTyped == Typed /\ (Crash \/ Restart \/ ConcurrentMapAccess) => Typed'
<1> SUFFICES ASSUME Typed, Crash \/ Restart \/ ConcurrentMapAccess PROVE Typed'
  OBVIOUS
<1>1. CASE Crash
  <2>1. faults' \in 0 .. MaxFaults
    BY <1>1, FaultsTyped DEF Crash, AllFaults
  <2> QED BY <1>1, <2>1, ForgetTyped DEF Crash
<1>2. CASE Restart
  BY <1>2 DEF Restart, Typed, TypeOK, WorkerShape, LocalsSet, server, informer, config
<1>3. CASE ConcurrentMapAccess
  <2>1. faults' \in 0 .. MaxFaults
    BY <1>3, FaultsTyped DEF ConcurrentMapAccess, AllFaults
  <2> QED BY <1>3, <2>1, PanicTyped DEF ConcurrentMapAccess
<1> QED BY <1>1, <1>2, <1>3

(* A Job whose counters are set to something in range. *)
LEMMA ActiveSet ==
  ASSUME NEW x \in JobRecord, NEW a \in 0 .. 1,
         NEW s, s = [x EXCEPT !.active = a]
  PROVE  /\ s \in JobRecord /\ s.phase = x.phase /\ s.owner = x.owner
         /\ s.active = a /\ s.failed = x.failed /\ s.succeeded = x.succeeded
<1>1. s \in JobRecord
  BY DEF JobRecord
<1>2. s.phase = x.phase /\ s.owner = x.owner
  BY Zenon DEF JobRecord
<1>3. s.active = a
  BY Zenon DEF JobRecord
<1>4. s.failed = x.failed
  BY Zenon DEF JobRecord
<1>5. s.succeeded = x.succeeded
  BY Zenon DEF JobRecord
<1> QED BY <1>1, <1>2, <1>3, <1>4, <1>5

LEMMA SucceededSet ==
  ASSUME NEW x \in JobRecord, NEW m \in 0 .. 1,
         NEW s, s = [x EXCEPT !.succeeded = m]
  PROVE  /\ s \in JobRecord /\ s.phase = x.phase /\ s.owner = x.owner
         /\ s.active = x.active /\ s.failed = x.failed /\ s.succeeded = m
<1>1. s \in JobRecord
  BY DEF JobRecord
<1>2. s.phase = x.phase /\ s.owner = x.owner
  BY Zenon DEF JobRecord
<1>3. s.active = x.active
  BY Zenon DEF JobRecord
<1>4. s.failed = x.failed
  BY Zenon DEF JobRecord
<1>5. s.succeeded = m
  BY Zenon DEF JobRecord
<1> QED BY <1>1, <1>2, <1>3, <1>4, <1>5

LEMMA FailedSet ==
  ASSUME NEW x \in JobRecord, NEW n \in 0 .. Retries + 1,
         NEW s, s = [x EXCEPT !.failed = n]
  PROVE  /\ s \in JobRecord /\ s.phase = x.phase /\ s.owner = x.owner
         /\ s.active = x.active /\ s.failed = n /\ s.succeeded = x.succeeded
<1>1. s \in JobRecord
  BY DEF JobRecord
<1>2. s.phase = x.phase /\ s.owner = x.owner
  BY Zenon DEF JobRecord
<1>3. s.active = x.active
  BY Zenon DEF JobRecord
<1>4. s.failed = n
  BY Zenon DEF JobRecord
<1>5. s.succeeded = x.succeeded
  BY Zenon DEF JobRecord
<1> QED BY <1>1, <1>2, <1>3, <1>4, <1>5

(* A step of the Job controller on a Job that is there. *)
LEMMA JobStepTyped ==
  ASSUME Typed, NEW j \in Jobs, NEW s \in JobRecord, job[j].phase = "live",
         s.phase # "unborn", s.owner = job[j].owner,
         s.active = 1 => s.failed <= Retries /\ s.succeeded = 0, job' = [job EXCEPT ![j] = s],
         UNCHANGED <<request, configmap, Outside>>, faults' \in 0 .. MaxFaults
  PROVE  Typed'
<1>1. TypeOK'
  BY DEF Outside, informer, config, Typed, TypeOK
<1>2. WorkerShape'
  BY DEF Outside, informer, config, Typed, TypeOK, WorkerShape, LocalsSet
<1> QED BY <1>1, <1>2 DEF Typed

LEMMA ClusterTyped == Typed /\ Cluster => Typed'
<1> SUFFICES ASSUME Typed, Cluster PROVE Typed'
  OBVIOUS
<1>1. ASSUME UNCHANGED <<job, Outside>>, faults' = faults,
             request' \in [Requests -> RequestRecord],
             configmap' \in [ConfigMaps -> MapRecord]
      PROVE  Typed'
  BY <1>1 DEF Outside, informer, config, Typed, TypeOK, WorkerShape, LocalsSet
<1>2. ASSUME NEW r \in Requests, NEW n \in Nodes, Submit(r, n) PROVE Typed'
  <2>1. request' \in [Requests -> RequestRecord]
    <3> DEFINE q == [request[r] EXCEPT !.phase = "live", !.target = n]
    <3>0. request[r] \in RequestRecord
      BY DEF Typed, TypeOK
    <3>1. q \in RequestRecord
      BY <3>0 DEF RequestRecord, Phases
    <3>2. request' = [request EXCEPT ![r] = q]
      BY <1>2 DEF Submit, Typed, TypeOK
    <3> HIDE DEF q
    <3> QED BY <3>1, <3>2 DEF Typed, TypeOK
  <2>2. configmap' \in [ConfigMaps -> MapRecord]
    BY <1>2 DEF Submit, Typed, TypeOK
  <2> QED BY <1>1, <1>2, <2>1, <2>2 DEF Submit
<1>3. ASSUME NEW r \in Requests, Withdraw(r) PROVE Typed'
  <2>1. request' \in [Requests -> RequestRecord]
    <3> DEFINE q == [request[r] EXCEPT !.phase = "gone"]
    <3>0. request[r] \in RequestRecord
      BY DEF Typed, TypeOK
    <3>1. q \in RequestRecord
      BY <3>0 DEF RequestRecord, Phases
    <3>2. request' = [request EXCEPT ![r] = q]
      BY <1>3 DEF Withdraw, Typed, TypeOK
    <3> HIDE DEF q
    <3> QED BY <3>1, <3>2 DEF Typed, TypeOK
  <2>2. configmap' \in [ConfigMaps -> MapRecord]
    BY <1>3 DEF Withdraw, Typed, TypeOK
  <2> QED BY <1>1, <1>3, <2>1, <2>2 DEF Withdraw
<1>4. ASSUME NEW c \in ConfigMaps, NEW data \in Edits, EditConfigMap(c, data) PROVE Typed'
  <2>1. configmap' \in [ConfigMaps -> MapRecord]
    <3>1. data \in Data
      BY ContentsAssumption
    <3>2. CASE configmap' = [configmap EXCEPT ![c] = [live |-> TRUE, data |-> data]]
      <4>1. [live |-> TRUE, data |-> data] \in MapRecord
        BY <3>1 DEF MapRecord
      <4> QED BY <3>2, <4>1 DEF Typed, TypeOK
    <3>3. CASE configmap' = [configmap EXCEPT ![c].live = FALSE]
      <4> DEFINE k == [configmap[c] EXCEPT !.live = FALSE]
      <4>1. configmap \in [ConfigMaps -> MapRecord]
        BY DEF Typed, TypeOK
      <4>2. k \in MapRecord
        BY <4>1 DEF MapRecord
      <4>3. configmap' = [configmap EXCEPT ![c] = k]
        BY <3>3, <4>1
      <4> HIDE DEF k
      <4> QED BY <4>1, <4>2, <4>3
    <3> QED BY <1>4, <3>2, <3>3 DEF EditConfigMap
  <2>2. request' \in [Requests -> RequestRecord]
    BY <1>4 DEF EditConfigMap, Typed, TypeOK
  <2> QED BY <1>1, <1>4, <2>1, <2>2 DEF EditConfigMap
<1>5. ASSUME NEW j \in Jobs, StartPod(j) \/ PodSucceeds(j) \/ PodFails(j) \/ RemoveJob(j)
      PROVE  Typed'
  <2>0. job[j].active = 1 => job[j].failed <= Retries /\ job[j].succeeded = 0
    BY DEF Typed, WorkerShape
  <2>1. job[j] \in JobRecord /\ job[j].phase = "live" /\ faults' \in 0 .. MaxFaults
    BY <1>5, FaultsTyped DEF StartPod, PodSucceeds, PodFails, RemoveJob, AllFaults,
       NoFault, Typed, TypeOK
  <2>2. CASE StartPod(j)
    <3> DEFINE s == [job[j] EXCEPT !.active = 1]
    <3>s. s = [job[j] EXCEPT !.active = 1]
      OBVIOUS
    <3> HIDE DEF s
    <3>1. 0 \in 0 .. 1 /\ 1 \in 0 .. 1
      OBVIOUS
    <3>3. /\ s \in JobRecord /\ s.phase = "live" /\ s.owner = job[j].owner
          /\ s.active = 1 /\ s.failed = job[j].failed
          /\ s.succeeded = job[j].succeeded
      BY <2>1, <3>1, <3>s, ActiveSet
    <3>4. job' = [job EXCEPT ![j] = s]
      BY <3>s, <2>2 DEF StartPod, Typed, TypeOK
    <3>5. s.active = 1 => s.failed <= Retries /\ s.succeeded = 0
      BY <2>2, <3>3 DEF StartPod
    <3> QED BY <2>1, <2>2, <3>3, <3>4, <3>5, JobStepTyped DEF StartPod
  <2>3. CASE PodSucceeds(j)
    <3> DEFINE x == [job[j] EXCEPT !.active = 0]
               s == [x EXCEPT !.succeeded = 1]
    <3>x. x = [job[j] EXCEPT !.active = 0]
      OBVIOUS
    <3>s. s = [x EXCEPT !.succeeded = 1]
      OBVIOUS
    <3>1. 0 \in 0 .. 1 /\ 1 \in 0 .. 1
      OBVIOUS
    <3>2. job' = [job EXCEPT ![j] = s]
      BY <2>3 DEF PodSucceeds, Typed, TypeOK
    <3> HIDE DEF x, s
    <3>3. x \in JobRecord /\ x.phase = "live" /\ x.owner = job[j].owner /\ x.active = 0
      BY <2>1, <3>1, <3>x, ActiveSet
    <3>4. s \in JobRecord /\ s.phase = "live" /\ s.owner = job[j].owner /\ s.active = 0
      BY <3>1, <3>3, <3>s, SucceededSet
    <3>5. s.active = 1 => s.failed <= Retries /\ s.succeeded = 0
      BY <3>4
    <3> QED BY <2>1, <2>3, <3>2, <3>4, <3>5, JobStepTyped DEF PodSucceeds
  <2>4. CASE PodFails(j)
    <3> DEFINE n == job[j].failed + 1
               x == [job[j] EXCEPT !.active = 0]
               s == [x EXCEPT !.failed = n]
    <3>n. n \in 0 .. Retries + 1
      BY <2>0, <2>1, <2>4 DEF JobRecord, PodFails, Retries
    <3>x. x = [job[j] EXCEPT !.active = 0]
      OBVIOUS
    <3>s. s = [x EXCEPT !.failed = n]
      OBVIOUS
    <3>1. 0 \in 0 .. 1
      OBVIOUS
    <3>2. job' = [job EXCEPT ![j] = s]
      BY <2>4 DEF PodFails, Typed, TypeOK
    <3> HIDE DEF n, x, s
    <3>3. x \in JobRecord /\ x.phase = "live" /\ x.owner = job[j].owner /\ x.active = 0
      BY <2>1, <3>1, <3>x, ActiveSet
    <3>4. s \in JobRecord /\ s.phase = "live" /\ s.owner = job[j].owner /\ s.active = 0
      BY <3>n, <3>3, <3>s, FailedSet
    <3>5. s.active = 1 => s.failed <= Retries /\ s.succeeded = 0
      BY <3>4
    <3> QED BY <2>1, <2>4, <3>2, <3>4, <3>5, JobStepTyped DEF PodFails
  <2>5. CASE RemoveJob(j)
    <3> DEFINE s == [job[j] EXCEPT !.phase = "gone"]
    <3>1. /\ s \in JobRecord /\ s.phase # "unborn" /\ s.owner = job[j].owner
          /\ s.active = 1 => s.failed <= Retries /\ s.succeeded = 0
      BY <2>0, <2>1 DEF JobRecord, Phases
    <3>2. job' = [job EXCEPT ![j] = s]
      BY <2>5 DEF RemoveJob, Typed, TypeOK
    <3> HIDE DEF s
    <3> QED BY <2>1, <2>5, <3>1, <3>2, JobStepTyped DEF RemoveJob
  <2> QED BY <1>5, <2>2, <2>3, <2>4, <2>5
<1> QED BY <1>2, <1>3, <1>4, <1>5 DEF Cluster

LEMMA StutterTyped == Typed /\ UNCHANGED vars => Typed'
BY DEF vars, Typed, TypeOK, WorkerShape, LocalsSet

LEMMA NextTyped == Typed /\ [Next]_vars => Typed'
BY InformTyped, LoadTyped, HandleTyped, ProcessTyped, ClusterTyped, StutterTyped
DEF Next, Operator

(* The variables hold what the Go types and the API objects allow, always.  *)
THEOREM TypeCorrect == Spec => []TypeOK
<1>1. Init => Typed
  BY InitTyped
<1>2. Typed /\ [Next]_vars => Typed'
  BY NextTyped
<1>3. Typed => TypeOK
  BY DEF Typed
<1> QED BY <1>1, <1>2, <1>3, PTL DEF Spec
=============================================================================
