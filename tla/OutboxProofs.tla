---------------------------- MODULE OutboxProofs ----------------------------
(***************************************************************************)
(* Proofs about Outbox, for any number of events and workers, any batch    *)
(* size and any limits.  A worker's verdict is only as good as what it     *)
(* knows when it writes: HandsKnow says that a worker about to mark a row  *)
(* has seen the call that justifies it, CountsAreEarned that no retry      *)
(* count, stored or remembered, exceeds the errors that were caught, and   *)
(* CanRetry that a row that is due has an attempt left.                    *)
(***************************************************************************)
EXTENDS Outbox, FiniteSetTheorems, TLAPS

\* A worker that is busy with a row has one, and its last call justifies the
\* verdict it is about to write.
HandsKnow ==
    \A w \in Workers :
        /\ pc[w] \in {"dispatch", "processed", "failure"} => row[w] \in exists
        /\ pc[w] = "processed" => row[w] \in resolved
        /\ pc[w] = "failure" => /\ seen[w][row[w]] + 1 <= failures[row[w]]
                                /\ retryable[w] \/ row[w] \in fatal

\* A retry count in the table, or in a worker's copy of a row, is at most the
\* number of errors that were caught.
CountsAreEarned ==
    \A e \in Events :
        /\ retryCount[e] <= failures[e]
        /\ \A w \in Workers : seen[w][e] <= failures[e]

\* A row that is neither processed nor dead has an attempt left.
CanRetry == \A e \in Events \ (processed \cup dead) : retryCount[e] < MaxRetries

IndInv == TypeOK /\ HandsKnow /\ CountsAreEarned /\ CanRetry /\ VerdictsAreEarned

\* The invariant holds of the empty outbox.
LEMMA InitInd == Init => IndInv
BY OutboxAssumption DEF Init, IndInv, TypeOK, HandsKnow, CanRetry, CountsAreEarned, VerdictsAreEarned

\* What a step may do to the processed events.
Final ==
    /\ processed \subseteq processed'
    /\ \A w \in Workers : todo'[w] \cap processed \subseteq todo[w]

\* A worker that catches an error of its row, whatever its update did to the row
\* before, keeps the invariant.
LEMMA CaughtInd ==
    ASSUME IndInv, NEW w \in Workers, NEW canRetry \in BOOLEAN,
           row[w] \in exists, row[w] \in Events,
           pc' = [pc EXCEPT ![w] = "failure"],
           UNCHANGED <<crashes, requeues, todo, row, seen>>,
           CatchError(w, canRetry),
           \/ UNCHANGED rowVars
           \/ row[w] \in resolved /\ SetProcessed(row[w])
    PROVE  IndInv' /\ Final
<1> USE OutboxAssumption DEF IndInv
<1>1. failures' = [failures EXCEPT ![row[w]] = IF @ < MaxRetries THEN @ + 1 ELSE @]
  BY DEF CatchError
<1>2. /\ failures' \in [Events -> 0 .. MaxRetries]
      /\ \A e \in Events : failures[e] <= failures'[e]
  BY <1>1 DEF TypeOK
<1>3. seen[w][row[w]] + 1 <= failures'[row[w]]
  BY <1>1 DEF TypeOK, CountsAreEarned
<1>4. retryable' \in [Workers -> BOOLEAN]
  BY Zenon DEF TypeOK, CatchError
<1>5. /\ fatal \subseteq fatal' /\ fatal' \subseteq exists
      /\ retryable'[w] \/ row[w] \in fatal'
      /\ \A v \in Workers \ {w} : retryable'[v] = retryable[v]
  BY DEF TypeOK, CatchError
<1>6. /\ processed \subseteq processed' /\ processed' \subseteq resolved
      /\ dead' \subseteq dead
      /\ dead \subseteq dead' \cup processed'
      /\ exists' = exists /\ retryCount' = retryCount /\ created' = created
      /\ postponed' \subseteq postponed
      /\ resolved' = resolved
      /\ processed' \subseteq exists
  BY DEF rowVars, SetProcessed, CatchError, VerdictsAreEarned, TypeOK
<1>7. TypeOK'
  BY <1>2, <1>4, <1>5, <1>6 DEF TypeOK
<1>8. HandsKnow'
  <2> SUFFICES ASSUME NEW v \in Workers
               PROVE  /\ pc'[v] \in {"dispatch", "processed", "failure"} => row'[v] \in exists'
                      /\ pc'[v] = "processed" => row'[v] \in resolved'
                      /\ pc'[v] = "failure" => /\ seen'[v][row'[v]] + 1 <= failures'[row'[v]]
                                               /\ retryable'[v] \/ row'[v] \in fatal'
    BY DEF HandsKnow
  <2>1. CASE v = w
    BY <2>1, <1>3, <1>5, <1>6 DEF TypeOK
  <2>2. CASE v # w
    <3>1. pc'[v] = pc[v] /\ row' = row /\ seen' = seen /\ retryable'[v] = retryable[v]
      BY <2>2, <1>5 DEF TypeOK
    <3>2. pc[v] = "failure" => failures[row[v]] <= failures'[row[v]]
                               /\ failures[row[v]] \in Nat /\ failures'[row[v]] \in Nat
                               /\ seen[v][row[v]] \in Nat
      BY <1>2 DEF HandsKnow, TypeOK
    <3>3. QED
      BY <3>1, <3>2, <1>5, <1>6 DEF HandsKnow
  <2>3. QED
    BY <2>1, <2>2
<1>9. CountsAreEarned'
  BY <1>2, <1>6 DEF CountsAreEarned, TypeOK
<1>10. CanRetry' /\ VerdictsAreEarned'
  BY <1>2, <1>5, <1>6 DEF CanRetry, VerdictsAreEarned, TypeOK
<1>11. Final
  BY <1>6 DEF Final
<1>12. QED
  BY <1>7, <1>8, <1>9, <1>10, <1>11

\* Every step keeps the invariant and the processed events: one case per action.
LEMMA StepInd == IndInv /\ [Next]_vars => IndInv' /\ Final
<1> SUFFICES ASSUME IndInv, [Next]_vars PROVE IndInv' /\ Final
  OBVIOUS
<1> USE OutboxAssumption DEF IndInv
<1>1. ASSUME NEW e \in Events, append(e) PROVE IndInv' /\ Final
  <2> USE <1>1 DEF append, workerVars, history
  <2>0. Cardinality(exists) \in Nat
    BY FS_Subset, FS_CardinalityType DEF TypeOK
  <2>1. TypeOK'
    BY <2>0 DEF TypeOK
  <2>2. QED
    BY <2>1 DEF TypeOK, HandsKnow, CanRetry, CountsAreEarned, VerdictsAreEarned, Final
<1>2. ASSUME NEW e \in Events, Elapse(e) \/ Requeue(e) PROVE IndInv' /\ Final
  <2> USE <1>2 DEF Elapse, Requeue, workerVars, history
  <2>1. TypeOK'
    BY DEF TypeOK
  <2>2. HandsKnow' /\ CountsAreEarned'
    BY DEF TypeOK, HandsKnow, CountsAreEarned
  <2>3. CanRetry'
    BY DEF TypeOK, CanRetry
  <2>4. VerdictsAreEarned' /\ Final
    BY DEF TypeOK, VerdictsAreEarned, Final
  <2>5. QED
    BY <2>1, <2>2, <2>3, <2>4
<1>3. ASSUME NEW w \in Workers, claimBatch(w) PROVE IndInv' /\ Final
  <2>1. PICK batch \in SUBSET Due :
           /\ todo' = [todo EXCEPT ![w] = batch]
           /\ seen' = [seen EXCEPT ![w] = [e \in Events |-> IF e \in batch THEN retryCount[e] ELSE 0]]
           /\ postponed' = postponed \cup batch
    BY <1>3 DEF claimBatch
  <2>2. /\ pc' = [pc EXCEPT ![w] = "batch"]
        /\ UNCHANGED <<exists, processed, dead, retryCount, created, row, retryable,
                       crashes, requeues, history>>
    BY <1>3 DEF claimBatch
  <2>3. batch \subseteq exists /\ batch \cap processed = {}
    BY DEF Due
  <2>4. \A e \in batch : retryCount[e] \in 0 .. MaxRetries - 1
    BY DEF Due, CanRetry, TypeOK
  <2>5. [e \in Events |-> IF e \in batch THEN retryCount[e] ELSE 0]
           \in [Events -> 0 .. MaxRetries - 1]
    BY <2>4
  <2>6. TypeOK'
    BY <2>1, <2>2, <2>3, <2>5 DEF TypeOK, history
  <2>7. Final
    BY <2>1, <2>2, <2>3 DEF Final, TypeOK
  <2>8. CountsAreEarned'
    <3>1. \A v \in Workers, e \in Events :
             seen'[v][e] \in {seen[v][e], retryCount[e], 0}
      BY <2>1 DEF TypeOK
    <3>2. \A e \in Events : failures[e] >= 0
      BY DEF TypeOK
    <3>3. QED
      BY <2>2, <3>1, <3>2 DEF CountsAreEarned, history
  <2>9. HandsKnow'
    <3>1. \A v \in Workers \ {w} : pc'[v] = pc[v] /\ seen'[v] = seen[v]
      BY <2>1, <2>2 DEF TypeOK
    <3>2. pc'[w] = "batch"
      BY <2>2 DEF TypeOK
    <3>3. QED
      BY <2>2, <3>1, <3>2 DEF HandsKnow, history
  <2>10. CanRetry' /\ VerdictsAreEarned'
    BY <2>2 DEF CanRetry, VerdictsAreEarned, history
  <2>11. QED
    BY <2>6, <2>7, <2>8, <2>9, <2>10
<1>4. ASSUME NEW w \in Workers, NEW e \in Events, NextRow(w, e) PROVE IndInv' /\ Final
  <2> USE <1>4 DEF NextRow, MoveWorker, rowVars, history
  <2>1. TypeOK'
    BY DEF TypeOK
  <2>2. QED
    BY <2>1 DEF TypeOK, HandsKnow, CanRetry, CountsAreEarned, VerdictsAreEarned, Final
<1>5. ASSUME NEW w \in Workers, EndBatch(w) \/ Crash(w) PROVE IndInv' /\ Final
  <2> USE <1>5 DEF EndBatch, Crash, MoveWorker, rowVars, history
  <2>1. [e \in Events |-> 0] \in [Events -> 0 .. MaxRetries - 1]
    OBVIOUS
  <2>2. seen' \in [Workers -> [Events -> 0 .. MaxRetries - 1]]
    BY <2>1 DEF TypeOK
  <2>3. todo' \in [Workers -> SUBSET exists] /\ row' \in [Workers -> exists \cup {None}]
    BY DEF TypeOK
  <2>4. TypeOK'
    BY <2>2, <2>3 DEF TypeOK
  <2>5. Final
    BY DEF Final, TypeOK
  <2>6. HandsKnow'
    BY DEF HandsKnow, TypeOK
  <2>7. CountsAreEarned'
    BY DEF CountsAreEarned, TypeOK
  <2>8. QED
    BY <2>4, <2>5, <2>6, <2>7 DEF CanRetry, VerdictsAreEarned
<1>6. ASSUME NEW w \in Workers, dispatch(w) PROVE IndInv' /\ Final
  <2>0. row[w] \in exists /\ row[w] \in Events
    BY <1>6 DEF dispatch, MoveWorker, HandsKnow, TypeOK
  <2>1. CASE /\ MoveWorker(w, "dispatch", "processed")
             /\ resolved' = resolved \cup {row[w]}
             /\ UNCHANGED <<retryable, fatal, failures>>
    <3> USE <1>6, <2>0, <2>1 DEF dispatch, MoveWorker, rowVars
    <3>1. TypeOK'
      BY DEF TypeOK
    <3>2. QED
      BY <3>1 DEF TypeOK, HandsKnow, CanRetry, CountsAreEarned, VerdictsAreEarned, Final
  <2>2. ASSUME NEW canRetry \in BOOLEAN, MoveWorker(w, "dispatch", "failure"),
               CatchError(w, canRetry)
        PROVE  IndInv' /\ Final
    <3>1. UNCHANGED <<rowVars, todo, row, seen>>
      BY <1>6 DEF dispatch
    <3>2. QED
      BY <2>0, <2>2, <3>1, CaughtInd DEF MoveWorker
  <2>3. QED
    BY <1>6, <2>1, <2>2 DEF dispatch
<1>7. ASSUME NEW w \in Workers, markProcessed(w) PROVE IndInv' /\ Final
  <2>0. row[w] \in exists /\ row[w] \in Events /\ row[w] \in resolved
    BY <1>7 DEF markProcessed, MoveWorker, HandsKnow, TypeOK
  <2>1. CASE /\ MoveWorker(w, "processed", "batch")
             /\ SetProcessed(row[w])
             /\ UNCHANGED <<retryable, history>>
    <3> USE <1>7, <2>0, <2>1 DEF markProcessed, SetProcessed, MoveWorker, history
    <3>1. TypeOK'
      BY DEF TypeOK
    <3>2. QED
      BY <3>1 DEF TypeOK, HandsKnow, CanRetry, CountsAreEarned, VerdictsAreEarned, Final
  <2>2. CASE /\ MoveWorker(w, "processed", "failure")
             /\ SetProcessed(row[w]) \/ UNCHANGED rowVars
             /\ CatchError(w, TRUE)
    <3>1. UNCHANGED <<todo, row, seen>>
      BY <1>7 DEF markProcessed
    <3>2. QED
      BY <2>0, <2>2, <3>1, CaughtInd DEF MoveWorker
  <2>3. QED
    BY <1>7, <2>1, <2>2 DEF markProcessed
<1>8. ASSUME NEW w \in Workers, markFailure(w) PROVE IndInv' /\ Final
  <2> USE <1>8 DEF markFailure, MoveWorker, history
  <2>1. row[w] \in exists /\ row[w] \in Events
    BY DEF HandsKnow, TypeOK
  <2>2. NextRetryCount(w) \in 0 .. MaxRetries
    BY <2>1 DEF NextRetryCount, TypeOK
  <2>3. row[w] \in dead' \/ NextRetryCount(w) < MaxRetries
    BY <2>2
  <2>4. TypeOK'
    BY <2>1, <2>2 DEF TypeOK
  <2>5. CanRetry'
    BY <2>1, <2>2, <2>3 DEF TypeOK, CanRetry
  <2>6. /\ NextRetryCount(w) <= failures[row[w]]
        /\ retryable[w] \/ row[w] \in fatal
    BY DEF NextRetryCount, HandsKnow
  <2>7. CountsAreEarned'
    BY <2>1, <2>6 DEF TypeOK, CountsAreEarned
  <2>8. VerdictsAreEarned'
    BY <2>1, <2>2, <2>6 DEF TypeOK, VerdictsAreEarned
  <2>9. HandsKnow'
    BY DEF TypeOK, HandsKnow
  <2>10. QED
    BY <2>4, <2>5, <2>7, <2>8, <2>9 DEF TypeOK, Final
<1>9. CASE UNCHANGED vars
  BY <1>9 DEF vars, rowVars, workerVars, history, TypeOK, HandsKnow, CanRetry, CountsAreEarned, VerdictsAreEarned, Final
<1>10. QED
  BY <1>1, <1>2, <1>3, <1>4, <1>5, <1>6, <1>7, <1>8, <1>9 DEF Next, BatchStep

\* The inductive invariant holds in every reachable state.
THEOREM Invariance == Spec => []IndInv
<1>1. QED
  BY InitInd, StepInd, PTL DEF Spec

\* Every reachable state is well typed: workers hold only rows that exist,
\* and no late failure pushes a retry count beyond its limit.
THEOREM TypesHold == Spec => []TypeOK
<1>1. IndInv => TypeOK
  BY DEF IndInv
<1>2. QED
  BY <1>1, Invariance, PTL

\* markProcessed and markFailure file an event only with a verdict that calls of the
\* dispatcher earned, however many workers hold it and however often they crash.
THEOREM VerdictsHold == Spec => []VerdictsAreEarned
<1>1. IndInv => VerdictsAreEarned
  BY DEF IndInv
<1>2. QED
  BY <1>1, Invariance, PTL

\* No step of any worker reopens or claims a processed event.
THEOREM ProcessedStaysProcessed == Spec => ProcessedIsFinal
<1>1. IndInv /\ [Next]_vars => [Final]_vars
  BY StepInd
<1>2. QED
  BY <1>1, Invariance, PTL DEF Spec, ProcessedIsFinal, Final
=============================================================================
