------------------------------- MODULE Outbox -------------------------------
(***************************************************************************)
(* The transactional outbox (OutboxProcessor, OutboxClaimRepository).      *)
(*                                                                         *)
(* Each worker runs processBatch over and over: it claims a batch in one   *)
(* transaction, which postpones the rows by 30 seconds, and then handles   *)
(* the rows one after the other, every call and every update being a step  *)
(* of its own.  Nothing renews the claim, so a worker that is slow loses   *)
(* its rows to another one without noticing.                               *)
(*                                                                         *)
(* next_attempt_at matters only by whether it is in the future: the claim  *)
(* and the backoff (2 to 256 seconds) are finite, so it always passes.     *)
(*                                                                         *)
(* What a dispatch does is up to the dispatcher that is wired in; the one  *)
(* of OutboxModule resolves and does nothing.  So the module says only     *)
(* how calls end, and its history variables record just that.              *)
(***************************************************************************)
EXTENDS Naturals, FiniteSets

CONSTANTS
    Events, Workers,
    BatchSize,      \* BATCH_SIZE, 100 in the code
    MaxRetries,     \* MAX_RETRIES, 10 in the code
    MaxCrashes,     \* bound of the number of crashes
    MaxRequeues,    \* bound of the number of manual requeues
    None

ASSUME OutboxAssumption ==
    /\ IsFiniteSet(Events)
    /\ BatchSize \in Nat \ {0} /\ MaxRetries \in Nat \ {0}
    /\ MaxCrashes \in Nat /\ MaxRequeues \in Nat
    /\ None \notin Events

VARIABLES
    exists, processed, dead,    \* rows of outbox_events, and their flags
    retryCount,
    postponed,                  \* rows whose next_attempt_at is in the future
    created,                    \* created_at, as a rank
    pc, todo, row,              \* a worker's progress, claimed rows, current row
    seen,                       \* the retry counts it read when it claimed
    retryable,                  \* what it makes of the error it caught
    crashes, requeues,
    resolved,                   \* history: events with a dispatch that resolved
    fatal,                      \* history: events with an error not to be retried
    failures                    \* history: errors caught, counted up to MaxRetries

rowVars == <<exists, processed, dead, retryCount, postponed, created>>
workerVars == <<pc, todo, row, seen, retryable>>
history == <<resolved, fatal, failures>>
vars == <<rowVars, workerVars, crashes, requeues, history>>

TypeOK ==
    /\ exists \subseteq Events
    /\ processed \subseteq exists
    /\ dead \subseteq exists
    /\ retryCount \in [Events -> 0 .. MaxRetries]
    /\ postponed \subseteq exists
    /\ created \in [Events -> Nat]
    /\ pc \in [Workers -> {"idle", "batch", "dispatch", "processed", "failure"}]
    /\ todo \in [Workers -> SUBSET exists]
    /\ row \in [Workers -> exists \cup {None}]
    /\ seen \in [Workers -> [Events -> 0 .. MaxRetries - 1]]
    /\ retryable \in [Workers -> BOOLEAN]
    /\ crashes \in 0 .. MaxCrashes
    /\ requeues \in 0 .. MaxRequeues
    /\ resolved \subseteq exists
    /\ fatal \subseteq exists
    /\ failures \in [Events -> 0 .. MaxRetries]

Init ==
    /\ exists = {} /\ processed = {} /\ dead = {} /\ postponed = {}
    /\ retryCount = [e \in Events |-> 0]
    /\ created = [e \in Events |-> 0]
    /\ pc = [w \in Workers |-> "idle"]
    /\ todo = [w \in Workers |-> {}]
    /\ row = [w \in Workers |-> None]
    /\ seen = [w \in Workers |-> [e \in Events |-> 0]]
    /\ retryable = [w \in Workers |-> TRUE]
    /\ crashes = 0 /\ requeues = 0
    /\ resolved = {} /\ fatal = {}
    /\ failures = [e \in Events |-> 0]

-----------------------------------------------------------------------------
\* A use case, or enqueue, inserts the event with the change it tells of.
append(e) ==
    /\ e \notin exists
    /\ exists' = exists \cup {e}
    /\ created' = [created EXCEPT ![e] = Cardinality(exists)]
    /\ UNCHANGED <<processed, dead, retryCount, postponed, workerVars, crashes, requeues, history>>

\* The clock passes next_attempt_at.
Elapse(e) ==
    /\ e \in postponed
    /\ postponed' = postponed \ {e}
    /\ UNCHANGED <<exists, processed, dead, retryCount, created, workerVars, crashes, requeues, history>>

\* The runbook's update of a dead letter, made by an operator.
Requeue(e) ==
    /\ e \in dead \ processed
    /\ requeues < MaxRequeues
    /\ requeues' = requeues + 1
    /\ dead' = dead \ {e}
    /\ retryCount' = [retryCount EXCEPT ![e] = 0]
    /\ postponed' = postponed \ {e}
    /\ UNCHANGED <<exists, processed, created, workerVars, crashes, history>>

-----------------------------------------------------------------------------
(* claimBatch *)

Due == exists \ (processed \cup dead \cup postponed)

\* ORDER BY created_at LIMIT: the oldest rows, as many as a batch can hold.
\* SKIP LOCKED leaves out a row that a worker is just updating.
IsBatch(batch) ==
    \E skipped \in SUBSET {row[w] : w \in Workers} :
        LET free == Due \ skipped
        IN /\ batch \in SUBSET free
           /\ batch # {}
           /\ Cardinality(batch) <= BatchSize
           /\ \A x \in batch, y \in free \ batch : created[x] < created[y]
           /\ batch = free \/ Cardinality(batch) = BatchSize

MutantClaimBatch(w) ==
    /\ pc[w] = "idle"
    /\ \E batch \in SUBSET Due :
          /\ IsBatch(batch)
          /\ todo' = [todo EXCEPT ![w] = batch]
          /\ seen' = [seen EXCEPT ![w] = [e \in Events |-> IF e \in batch THEN retryCount[e] ELSE 0]]
          /\ postponed' = postponed \cup batch
          /\ retryCount' = [e \in Events |-> IF e \in batch THEN retryCount[e] + 1 ELSE retryCount[e]]
    /\ pc' = [pc EXCEPT ![w] = "batch"]
    /\ UNCHANGED <<exists, processed, dead, created, row, retryable, crashes, requeues, history>>

claimBatch(w) ==
    /\ pc[w] = "idle"
    /\ \E batch \in SUBSET Due :
          /\ IsBatch(batch)
          /\ todo' = [todo EXCEPT ![w] = batch]
          /\ seen' = [seen EXCEPT ![w] = [e \in Events |-> IF e \in batch THEN retryCount[e] ELSE 0]]
          /\ postponed' = postponed \cup batch
    /\ pc' = [pc EXCEPT ![w] = "batch"]
    /\ UNCHANGED <<exists, processed, dead, retryCount, created, row, retryable, crashes, requeues, history>>

-----------------------------------------------------------------------------
(* processBatch *)

MoveWorker(w, from, to) ==
    /\ pc[w] = from
    /\ pc' = [pc EXCEPT ![w] = to]
    /\ UNCHANGED <<crashes, requeues>>

\* The rows of a batch are handled in the order of created_at.
NextRow(w, e) ==
    /\ MoveWorker(w, "batch", "dispatch")
    /\ e \in todo[w]
    /\ \A x \in todo[w] : created[e] <= created[x]
    /\ row' = [row EXCEPT ![w] = e]
    /\ todo' = [todo EXCEPT ![w] = @ \ {e}]
    /\ UNCHANGED <<rowVars, seen, retryable, history>>

EndBatch(w) ==
    /\ MoveWorker(w, "batch", "idle")
    /\ todo[w] = {}
    /\ row' = [row EXCEPT ![w] = None]
    /\ seen' = [seen EXCEPT ![w] = [e \in Events |-> 0]]
    /\ UNCHANGED <<rowVars, todo, retryable, history>>

\* The catch block of a row: what it makes of the error.
CatchError(w, canRetry) ==
    /\ retryable' = [retryable EXCEPT ![w] = canRetry]
    /\ fatal' = IF canRetry THEN fatal ELSE fatal \cup {row[w]}
    /\ failures' = [failures EXCEPT ![row[w]] = IF @ < MaxRetries THEN @ + 1 ELSE @]
    /\ UNCHANGED resolved

\* The dispatcher resolves or throws; whether the error can be retried is
\* decided by isRetryableError.
dispatch(w) ==
    /\ \/ /\ MoveWorker(w, "dispatch", "processed")
          /\ resolved' = resolved \cup {row[w]}
          /\ UNCHANGED <<retryable, fatal, failures>>
       \/ /\ MoveWorker(w, "dispatch", "failure")
          /\ \E canRetry \in BOOLEAN : CatchError(w, canRetry)
    /\ UNCHANGED <<rowVars, todo, row, seen>>

SetProcessed(e) ==
    /\ processed' = processed \cup {e}
    /\ postponed' = postponed \ {e}
    /\ dead' = dead \ {e}
    /\ UNCHANGED <<exists, retryCount, created>>

\* A database error, before or after the update took effect, is caught like a
\* failed dispatch, and can be retried.
markProcessed(w) ==
    /\ \/ /\ MoveWorker(w, "processed", "batch")
          /\ SetProcessed(row[w])
          /\ UNCHANGED <<retryable, history>>
       \/ /\ MoveWorker(w, "processed", "failure")
          /\ SetProcessed(row[w]) \/ UNCHANGED rowVars
          /\ CatchError(w, TRUE)
    /\ UNCHANGED <<todo, row, seen>>

MutantNextRetryCount(w) == seen[w][row[w]]

\* Computed from the row as it was when it was claimed.
NextRetryCount(w) == seen[w][row[w]] + 1

MutantMarkFailure(w) ==
    LET e == row[w]
        deadLetter == ~retryable[w] \/ NextRetryCount(w) >= MaxRetries
    IN /\ MoveWorker(w, "failure", "batch")
       /\ retryCount' = [retryCount EXCEPT ![e] = NextRetryCount(w)]
       /\ dead' = IF deadLetter THEN dead \cup {e} ELSE dead \ {e}
       /\ postponed' = IF deadLetter THEN postponed \ {e} ELSE postponed \cup {e}
       /\ processed' = processed \ {e}
       /\ UNCHANGED <<exists, created, todo, row, seen, retryable, history>>

\* UPDATE by id, whatever became of the row since.
markFailure(w) ==
    LET e == row[w]
        deadLetter == ~retryable[w] \/ NextRetryCount(w) >= MaxRetries
    IN /\ MoveWorker(w, "failure", "batch")
       /\ retryCount' = [retryCount EXCEPT ![e] = NextRetryCount(w)]
       /\ dead' = IF deadLetter THEN dead \cup {e} ELSE dead \ {e}
       /\ postponed' = IF deadLetter THEN postponed \ {e} ELSE postponed \cup {e}
       /\ UNCHANGED <<exists, processed, created, todo, row, seen, retryable, history>>

\* The process dies, or markFailure itself throws: the batch is abandoned and
\* its rows come back when their claim has run out, with no failure counted.
Crash(w) ==
    /\ pc[w] # "idle"
    /\ crashes < MaxCrashes
    /\ crashes' = crashes + 1
    /\ pc' = [pc EXCEPT ![w] = "idle"]
    /\ todo' = [todo EXCEPT ![w] = {}]
    /\ row' = [row EXCEPT ![w] = None]
    /\ seen' = [seen EXCEPT ![w] = [e \in Events |-> 0]]
    /\ UNCHANGED <<rowVars, retryable, requeues, history>>

-----------------------------------------------------------------------------
\* The steps of a call of processBatch that has claimed its rows.
BatchStep(w) ==
    \/ \E e \in Events : NextRow(w, e)
    \/ EndBatch(w)
    \/ dispatch(w)
    \/ markProcessed(w)
    \/ markFailure(w)

Next ==
    \/ \E e \in Events : append(e) \/ Elapse(e) \/ Requeue(e)
    \/ \E w \in Workers : claimBatch(w) \/ BatchStep(w) \/ Crash(w)

Spec == Init /\ [][Next]_vars

\* A batch that was claimed is worked off, since the calls and the updates of its
\* rows return or throw, and time passes.  Nothing in the program calls processBatch,
\* so that a batch is ever claimed is not assumed.
Fairness ==
    /\ \A w \in Workers : WF_vars(BatchStep(w))
    /\ \A e \in Events : WF_vars(Elapse(e))

FairSpec == Spec /\ Fairness

-----------------------------------------------------------------------------
(* Properties *)

\* The flags of a row are earned by calls, and never by crashes or lost claims:
\* an event is filed as processed only if a dispatch of it resolved, and as a dead
\* letter only if an error ruled out a retry or MAX_RETRIES errors were caught,
\* whatever order workers that hold the same event write their verdicts in.  The
\* errors are those of the event's whole life: a worker that claimed it before an
\* operator requeued it still writes the count it read.
VerdictsAreEarned ==
    /\ processed \subseteq resolved
    /\ \A e \in dead : e \in fatal \/ failures[e] >= MaxRetries

\* A processed event stays processed, and no worker claims it again: the late
\* failure of a worker that lost its claim does not reopen it.
ProcessedIsFinal ==
    [][/\ processed \subseteq processed'
       /\ \A w \in Workers : todo'[w] \cap processed \subseteq todo[w]]_vars

\* Every event is in the end processed or a dead letter for good, or due and
\* waiting for a call of processBatch that never comes.  It is not retried for
\* ever, although a slow worker may set its retry count back or take a dead
\* letter out again, and no abandoned claim keeps it from being due.
EventuallyAtRest ==
    \A e \in Events :
        e \in exists ~> ([](e \in processed \cup dead) \/ [](e \in Due))
=============================================================================
