----------------------- MODULE RequestLifecycleProofs -----------------------
(***************************************************************************)
(* What RequestLifecycle implies, for any requests, results and updates.   *)
(***************************************************************************)
EXTENDS RequestLifecycle, TLAPS

LEMMA InitTyped == Init => TypeOK
BY DEF Init, TypeOK, StatusRecord, Phases

(* One request changes: what the next status holds, entry by entry. *)
LEMMA Changed ==
  ASSUME TypeOK, NEW r \in Requests, NEW s, status' = [status EXCEPT ![r] = s]
  PROVE  /\ status'[r] = s
         /\ \A q \in Requests : q # r => status'[q] = status[q]
         /\ s \in StatusRecord => TypeOK'
BY DEF TypeOK

LEMMA MoveStep ==
  ASSUME TypeOK, NEW r \in Requests, Submit(r) \/ Withdraw(r)
  PROVE  /\ TypeOK'
         /\ \A q \in Requests : /\ status'[q].complete = status[q].complete
                                /\ status'[q].result = status[q].result
                                /\ status'[q].updates = status[q].updates
<1>1. PICK p \in Phases : status' = [status EXCEPT ![r] = [status[r] EXCEPT !.phase = p]]
  BY DEF Submit, Withdraw, Phases
<1> DEFINE s == [status[r] EXCEPT !.phase = p]
<1>2. /\ s \in StatusRecord /\ s.complete = status[r].complete
      /\ s.result = status[r].result /\ s.updates = status[r].updates
  BY DEF TypeOK, StatusRecord
<1> HIDE DEF s
<1>3. status' = [status EXCEPT ![r] = s]
  BY <1>1 DEF s
<1> QED BY <1>2, <1>3, Changed

LEMMA RecordStep ==
  ASSUME TypeOK, NEW r \in Requests, NEW u \in Updates, Record(r, u)
  PROVE  /\ TypeOK' /\ ~status[r].complete
         /\ status'[r].updates = Append(status[r].updates, u)
         /\ \A q \in Requests : q # r => status'[q] = status[q]
<1> DEFINE h == Append(status[r].updates, u)
           s == [status[r] EXCEPT !.updates = h]
<1>1. h \in Seq(Updates)
  BY DEF TypeOK, StatusRecord
<1>2. status' = [status EXCEPT ![r] = s]
  BY DEF Record
<1> HIDE DEF h
<1>3. s \in StatusRecord /\ s.updates = h
  BY <1>1 DEF TypeOK, StatusRecord
<1> HIDE DEF s
<1> QED BY <1>2, <1>3, Changed DEF Record, h

LEMMA FinishStep ==
  ASSUME TypeOK, NEW r \in Requests, NEW u \in Updates, NEW res \in Results,
         Finish(r, res, u)
  PROVE  /\ TypeOK' /\ ~status[r].complete
         /\ status'[r].updates = Append(status[r].updates, u)
         /\ \A q \in Requests : q # r => status'[q] = status[q]
<1> DEFINE h == Append(status[r].updates, u)
           a == [status[r] EXCEPT !.complete = TRUE]
           b == [a EXCEPT !.result = res]
           s == [b EXCEPT !.updates = h]
<1>1. h \in Seq(Updates)
  BY DEF TypeOK, StatusRecord
<1>2. status' = [status EXCEPT ![r] = s]
  BY DEF Finish, TypeOK, StatusRecord
<1> HIDE DEF h
<1>3. a \in StatusRecord
  BY DEF TypeOK, StatusRecord
<1> HIDE DEF a
<1>4. b \in StatusRecord
  BY <1>3 DEF StatusRecord
<1> HIDE DEF b
<1>5. s \in StatusRecord /\ s.updates = h
  BY <1>1, <1>4 DEF StatusRecord
<1> HIDE DEF s
<1> QED BY <1>2, <1>5, Changed DEF Finish, h

LEMMA NextTyped == TypeOK /\ [Next]_status => TypeOK'
<1>1. TypeOK /\ UNCHANGED status => TypeOK'
  BY DEF TypeOK
<1> QED BY <1>1, MoveStep, RecordStep, FinishStep DEF Next

LEMMA NextFinalOrGrowing == TypeOK /\ Next => FinalOrGrowing
<1> SUFFICES ASSUME TypeOK, Next, NEW r \in Requests
             PROVE  IF status[r].complete
                    THEN /\ status'[r].complete /\ status'[r].result = status[r].result
                         /\ History(r)' = History(r)
                    ELSE \/ History(r)' = History(r) /\ ~status'[r].complete
                         \/ \E u \in Updates : History(r)' = Append(History(r), u)
  BY DEF FinalOrGrowing
<1>1. CASE \E q \in Requests : Submit(q) \/ Withdraw(q)
  <2>1. /\ status'[r].complete = status[r].complete
        /\ status'[r].result = status[r].result
        /\ status'[r].updates = status[r].updates
    BY <1>1, MoveStep
  <2> QED BY <2>1, Zenon DEF History
<1>2. ASSUME NEW q \in Requests, NEW u \in Updates,
             Record(q, u) \/ \E res \in Results : Finish(q, res, u)
      PROVE  \/ status'[r] = status[r]
             \/ ~status[r].complete /\ status'[r].updates = Append(status[r].updates, u)
  BY <1>2, RecordStep, FinishStep
<1>3. CASE \E q \in Requests, u \in Updates :
              Record(q, u) \/ \E res \in Results : Finish(q, res, u)
  BY <1>2, <1>3, Zenon DEF History
<1> QED BY <1>1, <1>3 DEF Next

(* Whatever becomes of a request, its final result and its history are      *)
(* settled once it is complete, and before that nothing is taken back.      *)
THEOREM OutcomeFinal == Spec => OutcomeIsFinal
<1>1. TypeOK /\ [Next]_status => [FinalOrGrowing]_status
  BY NextFinalOrGrowing
<1> QED BY <1>1, InitTyped, NextTyped, PTL DEF Spec, OutcomeIsFinal
=============================================================================
