------------------------ MODULE VectorPipelineProofs ------------------------
(* What holds of VectorPipeline for any number of threads, any batches and   *)
(* any counter width: its type invariant, that no borrow is refused, and     *)
(* that the counters are exact.                                              *)
EXTENDS VectorPipeline, TLAPS

USE PipelineAssumption

(* A pegged number is one the counter type holds.                            *)
LEMMA SatRange ==
  ASSUME NEW n \in Nat
  PROVE  Sat(n) \in 0..CounterMax
BY DEF Sat

(* Pegging each step of a sum pegs the sum: the order in which batches are   *)
(* added, and where they peg, cannot be seen in a counter.                   *)
LEMMA SatAdds ==
  ASSUME NEW a \in Nat, NEW b \in Nat
  PROVE  Sat(Sat(a) + Sat(b)) = Sat(a + b)
BY DEF Sat

(* The locals a call starts with are well typed.                             *)
LEMMA FreshBatchType ==
  ASSUME BatchType, NEW t \in Threads, NEW lengths \in Seq(Nat),
         FreshBatch(t, lengths)
  PROVE  BatchType'
<1>1. logs' \in [Threads -> Seq(Nat)]
  BY DEF BatchType, FreshBatch
<1>2. outcomes' \in [Threads -> Seq({"ok", "error"})]
  <2>1. <<>> \in Seq({"ok", "error"})
    OBVIOUS
  <2> QED
    BY <2>1 DEF BatchType, FreshBatch
<1>3. results' \in [Threads -> Nat]
  BY DEF BatchType, FreshBatch
<1>4. /\ tally' \in [Threads -> [Fields -> 0..CounterMax]]
      /\ exact' \in [Threads -> [Fields -> Nat]]
  <2>1. Zero \in [Fields -> 0..CounterMax] /\ Zero \in [Fields -> Nat]
    BY DEF Zero
  <2> QED
    BY <2>1 DEF BatchType, FreshBatch
<1> QED
  BY <1>1, <1>2, <1>3, <1>4 DEF BatchType

(* A return leaves the thread in Python, well typed, with the GIL free.      *)
LEMMA ReturnType ==
  ASSUME TypeOK, NEW t \in Threads, NEW how \in Answers, Return(t, how),
         seen' \in [Threads -> [running : BOOLEAN, count : [Fields -> 0..CounterMax]]]
  PROVE  gil' = NoThread /\ CallType' /\ BatchType'
<1>1. BatchType'
  <2>1. <<>> \in Seq(Nat)
    OBVIOUS
  <2> QED
    BY <2>1, FreshBatchType DEF TypeOK, Return
<1>2. CallType'
  BY DEF TypeOK, CallType, Return, CallerStates
<1> QED
  BY <1>1, <1>2 DEF Return

(* A shared borrow, granted or refused, preserves the types.                 *)
LEMMA BorrowSharedType ==
  ASSUME TypeOK, NEW t \in Threads,
         NEW from, NEW to \in GilStates, BorrowShared(t, from, to)
  PROVE  TypeOK'
<1>1. PipelineType' /\ HistoryType'
  BY DEF TypeOK, BorrowShared, pipeline, history, PipelineType, HistoryType
<1>2. CASE writer = NoThread
  <2>1. pc' = [pc EXCEPT ![t] = to]
        /\ readers' \in {readers, readers \union {t}} /\ writer' \in {writer, t}
        /\ UNCHANGED <<gil, batch, answer, seen>>
    BY <1>2 DEF BorrowShared
  <2>2. LockType'
    BY <2>1 DEF TypeOK, LockType
  <2>3. CallType'
    BY <2>1 DEF TypeOK, CallType
  <2>4. BatchType'
    BY <2>1 DEF TypeOK, BatchType, batch
  <2> QED
    BY <1>1, <2>2, <2>3, <2>4 DEF TypeOK
<1>3. CASE writer # NoThread
  <2>1. Return(t, "borrow_error") /\ seen' = seen /\ readers' = readers
        /\ writer' = writer
    BY <1>3 DEF BorrowShared
  <2>2. gil' = NoThread /\ CallType' /\ BatchType'
    BY <2>1, ReturnType DEF TypeOK, CallType, Answers
  <2> QED
    BY <1>1, <2>1, <2>2 DEF TypeOK, LockType
<1> QED
  BY <1>2, <1>3

(* An exclusive borrow, granted or refused, preserves the types.             *)
LEMMA BorrowExclusiveType ==
  ASSUME TypeOK, NEW t \in Threads,
         NEW from, NEW to \in GilStates, BorrowExclusive(t, from, to)
  PROVE  TypeOK'
<1>1. PipelineType' /\ HistoryType'
  BY DEF TypeOK, BorrowExclusive, pipeline, history, PipelineType, HistoryType
<1>2. CASE writer = NoThread /\ readers = {}
  <2>1. pc' = [pc EXCEPT ![t] = to]
        /\ readers' \in {readers, readers \union {t}} /\ writer' \in {writer, t}
        /\ UNCHANGED <<gil, batch, answer, seen>>
    BY <1>2 DEF BorrowExclusive
  <2>2. LockType'
    BY <2>1 DEF TypeOK, LockType
  <2>3. CallType'
    BY <2>1 DEF TypeOK, CallType
  <2>4. BatchType'
    BY <2>1 DEF TypeOK, BatchType, batch
  <2> QED
    BY <1>1, <2>2, <2>3, <2>4 DEF TypeOK
<1>3. CASE ~(writer = NoThread /\ readers = {})
  <2>1. Return(t, "borrow_error") /\ seen' = seen /\ readers' = readers
        /\ writer' = writer
    BY <1>3 DEF BorrowExclusive
  <2>2. gil' = NoThread /\ CallType' /\ BatchType'
    BY <2>1, ReturnType DEF TypeOK, CallType, Answers
  <2> QED
    BY <1>1, <2>1, <2>2 DEF TypeOK, LockType
<1> QED
  BY <1>2, <1>3

(* Entering a method preserves the types.                                    *)
LEMMA EnterType ==
  ASSUME TypeOK, NEW t \in Threads, NEW first \in GilStates,
         NEW lengths \in Seq(Nat), Enter(t, first, lengths)
  PROVE  TypeOK'
<1>1. BatchType'
  BY FreshBatchType DEF TypeOK, Enter
<1>2. LockType' /\ PipelineType' /\ HistoryType'
  BY DEF TypeOK, Enter, borrows, pipeline, LockType, PipelineType, HistoryType
<1>3. CallType'
  BY DEF TypeOK, Enter, Moves, CallType, NoStats, Zero, Fields
<1> QED
  BY <1>1, <1>2, <1>3 DEF TypeOK

(* Adding one field of a batch preserves the types.                          *)
LEMMA AddToType ==
  ASSUME TypeOK, NEW t \in Threads, NEW field \in Fields, AddTo(t, field)
  PROVE  /\ PipelineType'
         /\ own' \in [Fields -> Nat] /\ carried' \in [Fields -> Nat]
         /\ stale' = stale /\ seen' = seen /\ readers' = readers
<1>1. tally[t][field] \in 0..CounterMax /\ exact[t][field] \in Nat
  BY DEF TypeOK, BatchType
<1>2. Sat(counter[field] + tally[t][field]) \in 0..CounterMax
  <2>1. counter[field] + tally[t][field] \in Nat
    BY <1>1 DEF TypeOK, PipelineType
  <2> QED
    BY <2>1, SatRange
<1>3. PipelineType'
  BY <1>2 DEF TypeOK, PipelineType, AddTo
<1>4. own' \in [Fields -> Nat] /\ carried' \in [Fields -> Nat]
  BY <1>1 DEF TypeOK, HistoryType, AddTo
<1> QED
  BY <1>3, <1>4 DEF AddTo

(* Tallying one more outcome gives a record of naturals.                     *)
LEMMA TalliedType ==
  ASSUME TypeOK, NEW t \in Threads, results[t] < Len(outcomes[t]),
         Len(outcomes[t]) <= Len(logs[t]),
         NEW sums \in [Fields -> Nat]
  PROVE  Tallied(sums, t, results[t] + 1) \in [Fields -> Nat]
<1>1. logs[t][results[t] + 1] \in Nat
  BY DEF TypeOK, BatchType
<1> DEFINE field == IF outcomes[t][results[t] + 1] = "ok"
                    THEN "events_processed" ELSE "errors"
           value(f) == CASE f = field -> sums[f] + 1
                         [] f = "bytes_processed" ->
                              sums[f] + logs[t][results[t] + 1]
                         [] OTHER -> sums[f]
<1>2. ASSUME NEW f \in Fields PROVE value(f) \in Nat
  <2>1. sums[f] \in Nat
    OBVIOUS
  <2> HIDE DEF field
  <2> QED
    BY <1>1, <2>1
<1>3. Tallied(sums, t, results[t] + 1) = [f \in Fields |-> value(f)]
  BY Zenon DEF Tallied, BytesRead
<1> HIDE DEF value
<1> QED
  BY <1>2, <1>3

-----------------------------------------------------------------------------
(* The outcomes collected never outnumber the logs.                          *)
OutcomesBounded == \A t \in Threads : Len(outcomes[t]) <= Len(logs[t])

(* A new pipeline is well typed.                                             *)
LEMMA TypeInit == Init => TypeOK /\ OutcomesBounded
<1> SUFFICES ASSUME Init PROVE TypeOK /\ OutcomesBounded
  OBVIOUS
<1>1. LockType /\ PipelineType /\ HistoryType
  <2>1. LockType
    BY DEF Init, LockType
  <2>2. PipelineType
    <3>1. counter \in [Fields -> 0..CounterMax]
      BY DEF Init, Zero
    <3> QED
      BY <3>1, Zenon DEF Init, PipelineType
  <2>3. HistoryType
    BY DEF Init, HistoryType, Zero
  <2> QED
    BY <2>1, <2>2, <2>3
<1>2. CallType
  BY DEF Init, CallType, Zero, NoStats, CallerStates, Answers
<1>3. BatchType
  <2>1. <<>> \in Seq(Nat) /\ <<>> \in Seq({"ok", "error"})
    OBVIOUS
  <2> DEFINE nothing == <<>>
  <2>2. /\ logs = [t \in Threads |-> nothing]
        /\ outcomes = [t \in Threads |-> nothing]
    BY DEF Init
  <2>3. nothing \in Seq(Nat) /\ nothing \in Seq({"ok", "error"})
    BY <2>1
  <2> HIDE DEF nothing
  <2> QED
    BY <2>2, <2>3 DEF Init, BatchType, Zero
<1>4. OutcomesBounded
  <2> SUFFICES ASSUME NEW t \in Threads
               PROVE  Len(outcomes[t]) <= Len(logs[t])
    BY DEF OutcomesBounded
  <2>1. outcomes[t] = <<>> /\ logs[t] = <<>>
    BY DEF Init
  <2>2. Len(outcomes[t]) = Len(logs[t]) /\ Len(logs[t]) = 0
    BY <2>1
  <2> QED
    BY <2>2
<1> QED
  BY <1>1, <1>2, <1>3, <1>4 DEF TypeOK

(* Every call preserves the types.                                           *)
LEMMA TypeCall ==
  ASSUME TypeOK, NEW t \in Threads, Call(t)
  PROVE  TypeOK'
<1>0. <<>> \in Seq(Nat)
  OBVIOUS
<1>1. CASE CallInitialize(t)
  BY <1>0, <1>1, EnterType DEF CallInitialize, GilStates
<1>2. CASE CallGetStats(t)
  BY <1>0, <1>2, EnterType DEF CallGetStats, GilStates
<1>3. CASE \E lengths \in Batches : CallProcessLogs(t, lengths)
  BY <1>3, EnterType DEF CallProcessLogs, GilStates
<1> QED
  BY <1>1, <1>2, <1>3 DEF Call

(* Taking the GIL again preserves the types.                                 *)
LEMMA TypeAcquire ==
  ASSUME TypeOK, NEW t \in Threads, Acquire(t)
  PROVE  TypeOK'
<1>1. CASE Attach(t)
  BY <1>1 DEF Attach, Moves, TypeOK, LockType, PipelineType, CallType, BatchType,
              HistoryType, borrows, pipeline, batch, history, GilStates
<1>2. CASE RaiseFailure(t)
  <2>1. Return(t, pc[t]) /\ pc[t] \in Answers
        /\ UNCHANGED <<borrows, pipeline, seen, history>>
    BY <1>2 DEF RaiseFailure, Answers
  <2>2. gil' = NoThread /\ CallType' /\ BatchType'
    BY <2>1, ReturnType DEF TypeOK, CallType
  <2> QED
    BY <2>1, <2>2 DEF TypeOK, LockType, PipelineType, HistoryType, borrows,
                      pipeline, history
<1> QED
  BY <1>1, <1>2 DEF Acquire

(* The steps that leave the pipeline and the histories alone.                *)
QuietStep(t) ==
  \/ CheckInitialized(t) \/ Detach(t) \/ Compile(t)
  \/ RunEvent(t) \/ RunPanics(t) \/ Convert(t) \/ ConversionFails(t)

(* The steps of process_logs that leave the counters alone preserve them.    *)
LEMMA TypeQuiet ==
  ASSUME TypeOK, OutcomesBounded, NEW t \in Threads, QuietStep(t)
  PROVE  TypeOK'
<1>0. PipelineType' /\ HistoryType'
  BY DEF TypeOK, PipelineType, HistoryType, pipeline, history, QuietStep,
         CheckInitialized, Detach, Compile, RunEvent, RunPanics, Convert,
         ConversionFails
<1>1. CASE CheckInitialized(t)
  <2>1. readers' \subseteq Threads /\ writer' = writer /\ seen' = seen
    BY <1>1 DEF CheckInitialized, DropsTemporary, TypeOK, LockType
  <2>2. CASE initialized
    BY <1>0, <1>1, <2>1, <2>2 DEF CheckInitialized, TypeOK, LockType, CallType,
                                  BatchType, batch, GilStates
  <2>3. CASE ~initialized
    <3>1. Return(t, "not_initialized")
      BY <1>1, <2>3 DEF CheckInitialized
    <3>2. gil' = NoThread /\ CallType' /\ BatchType'
      BY <2>1, <3>1, ReturnType DEF TypeOK, CallType, Answers
    <3> QED
      BY <1>0, <2>1, <3>2 DEF TypeOK, LockType
  <2> QED
    BY <2>2, <2>3
<1>2. CASE Detach(t) \/ Compile(t) \/ RunPanics(t)
  <2>1. pc' \in [Threads -> CallerStates \union GilStates \union DetachedStates]
    BY <1>2 DEF Detach, Compile, RunPanics, Moves, TypeOK, CallType, DetachedStates
  <2>2. gil' \in {gil, NoThread} /\ UNCHANGED <<borrows, batch, seen, answer>>
    BY <1>2 DEF Detach, Compile, RunPanics
  <2> QED
    BY <1>0, <2>1, <2>2 DEF TypeOK, LockType, CallType, BatchType, borrows, batch
<1>3. CASE RunEvent(t)
  <2>1. outcomes' \in [Threads -> Seq({"ok", "error"})]
    BY <1>3 DEF RunEvent, TypeOK, BatchType
  <2> QED
    BY <1>0, <1>3, <2>1 DEF RunEvent, TypeOK, LockType, CallType, BatchType, borrows
<1>4. CASE Convert(t)
  <2>1. results[t] < Len(outcomes[t]) /\ Len(outcomes[t]) <= Len(logs[t])
    BY <1>4 DEF Convert, OutcomesBounded
  <2>2. tally[t] \in [Fields -> Nat] /\ exact[t] \in [Fields -> Nat]
    BY DEF TypeOK, BatchType
  <2> DEFINE sums == Tallied(tally[t], t, results[t] + 1)
  <2>3. sums \in [Fields -> Nat]
    BY <2>1, <2>2, TalliedType
  <2>4. exact' \in [Threads -> [Fields -> Nat]]
    BY <1>4, <2>1, <2>2, TalliedType DEF Convert, TypeOK, BatchType
  <2> HIDE DEF sums
  <2>5. [f \in Fields |-> Sat(sums[f])] \in [Fields -> 0..CounterMax]
    BY <2>3, SatRange
  <2>6. tally' = [tally EXCEPT ![t] = [f \in Fields |-> Sat(sums[f])]]
    BY <1>4 DEF Convert, sums
  <2>7. tally' \in [Threads -> [Fields -> 0..CounterMax]]
    BY <2>5, <2>6 DEF TypeOK, BatchType
  <2>8. results' \in [Threads -> Nat]
    BY <1>4 DEF Convert, TypeOK, BatchType
  <2> QED
    BY <1>0, <1>4, <2>4, <2>7, <2>8
       DEF Convert, TypeOK, LockType, CallType, BatchType, borrows
<1>5. CASE ConversionFails(t)
  <2>1. Return(t, "conversion_error") /\ seen' = seen /\ UNCHANGED borrows
    BY <1>5 DEF ConversionFails
  <2>2. gil' = NoThread /\ CallType' /\ BatchType'
    BY <2>1, ReturnType DEF TypeOK, CallType, Answers
  <2> QED
    BY <1>0, <2>1, <2>2 DEF TypeOK, LockType, borrows
<1> QED
  BY <1>1, <1>2, <1>3, <1>4, <1>5 DEF QuietStep

BorrowStep(t) ==
  \/ BorrowForInitialize(t) \/ BorrowToCheck(t)
  \/ BorrowToAdd(t) \/ BorrowForStats(t)

AddStep(t)  == AddProcessed(t) \/ AddErrors(t) \/ AddBytes(t)
ReadStep(t) == ReadUptime(t) \/ ReadProcessed(t) \/ ReadBytes(t) \/ ReadErrors(t)

(* The steps of a thread inside a method, by what they disturb.              *)
LEMMA ProceedCases ==
  ASSUME NEW t \in Threads, Proceed(t)
  PROVE  QuietStep(t) \/ BorrowStep(t) \/ Reset(t) \/ AddStep(t) \/ ReadStep(t)
BY DEF Proceed, QuietStep, BorrowStep, AddStep, ReadStep

(* The four borrows preserve the types.                                      *)
LEMMA TypeBorrow ==
  ASSUME TypeOK, NEW t \in Threads, BorrowStep(t)
  PROVE  TypeOK'
<1>1. CASE BorrowForInitialize(t)
  BY <1>1, BorrowExclusiveType DEF BorrowForInitialize, GilStates
<1>2. CASE BorrowToCheck(t)
  BY <1>2, BorrowSharedType DEF BorrowToCheck, GilStates
<1>3. CASE BorrowToAdd(t)
  BY <1>3, BorrowExclusiveType DEF BorrowToAdd, GilStates
<1>4. CASE BorrowForStats(t)
  BY <1>4, BorrowSharedType DEF BorrowForStats, GilStates
<1> QED
  BY <1>1, <1>2, <1>3, <1>4 DEF BorrowStep

(* initialize() preserves the types.                                         *)
LEMMA TypeReset ==
  ASSUME TypeOK, NEW t \in Threads, Reset(t)
  PROVE  TypeOK'
<1>1. gil' = NoThread /\ CallType' /\ BatchType'
  BY ReturnType DEF Reset, TypeOK, CallType, Answers
<1>2. LockType'
  BY <1>1 DEF Reset, TypeOK, LockType
<1>3. PipelineType'
  <2>1. counter' \in [Fields -> 0..CounterMax]
    BY DEF Reset, FreshCounters, Zero
  <2> QED
    BY <2>1, Zenon DEF Reset, PipelineType
<1>4. HistoryType'
  BY DEF Reset, HistoryType, Zero
<1> QED
  BY <1>1, <1>2, <1>3, <1>4 DEF TypeOK

(* The additions of a batch preserve the types.                              *)
LEMMA TypeAdd ==
  ASSUME TypeOK, NEW t \in Threads, AddStep(t)
  PROVE  TypeOK'
<1>1. CASE AddProcessed(t) \/ AddErrors(t)
  <2>1. PICK field \in Fields : AddTo(t, field)
    BY <1>1 DEF AddProcessed, AddErrors, Fields
  <2>2. /\ PipelineType'
        /\ own' \in [Fields -> Nat] /\ carried' \in [Fields -> Nat]
        /\ stale' = stale /\ seen' = seen /\ readers' = readers
    BY <2>1, AddToType
  <2>3. pc' \in [Threads -> CallerStates \union GilStates \union DetachedStates]
        /\ UNCHANGED <<gil, writer, batch, answer, delivered>>
    BY <1>1 DEF AddProcessed, AddErrors, Moves, TypeOK, CallType, GilStates
  <2> QED
    BY <2>2, <2>3 DEF TypeOK, LockType, CallType, BatchType, batch, HistoryType
<1>2. CASE AddBytes(t)
  <2>1. /\ PipelineType'
        /\ own' \in [Fields -> Nat] /\ carried' \in [Fields -> Nat]
        /\ stale' = stale /\ seen' = seen /\ readers' = readers
    BY <1>2, AddToType DEF AddBytes, Fields
  <2>2. gil' = NoThread /\ CallType' /\ BatchType'
    BY <1>2, <2>1, ReturnType DEF AddBytes, TypeOK, CallType, Answers
  <2>3. writer' = NoThread /\ delivered' \in Nat
    BY <1>2 DEF AddBytes, TypeOK, HistoryType, BatchType
  <2> QED
    BY <2>1, <2>2, <2>3 DEF TypeOK, LockType, HistoryType
<1> QED
  BY <1>1, <1>2 DEF AddStep

(* The reads of get_stats preserve the types.                                *)
LEMMA TypeRead ==
  ASSUME TypeOK, NEW t \in Threads, ReadStep(t)
  PROVE  TypeOK'
<1>1. PipelineType' /\ HistoryType' /\ writer' = writer
  BY DEF ReadStep, ReadUptime, ReadProcessed, ReadBytes, ReadErrors, Read,
         borrows, pipeline, history, TypeOK, PipelineType, HistoryType
<1>2. seen' \in [Threads -> [running : BOOLEAN, count : [Fields -> 0..CounterMax]]]
  <2>1. CASE ReadUptime(t)
    <3>1. started \in BOOLEAN
      BY DEF TypeOK, PipelineType
    <3> QED
      BY <2>1, <3>1 DEF ReadUptime, TypeOK, CallType
  <2>2. CASE \E field \in Fields : Read(t, field)
    <3>1. counter \in [Fields -> 0..CounterMax]
      BY DEF TypeOK, PipelineType
    <3>2. PICK field \in Fields :
            seen' = [seen EXCEPT ![t].count[field] = counter[field]]
      BY <2>2 DEF Read
    <3> DEFINE read == [seen[t].count EXCEPT ![field] = counter[field]]
    <3>3. seen[t] \in [running : BOOLEAN, count : [Fields -> 0..CounterMax]]
      BY DEF TypeOK, CallType
    <3>4. read \in [Fields -> 0..CounterMax]
      BY <3>1, <3>3
    <3>5. seen' = [seen EXCEPT ![t] = [seen[t] EXCEPT !.count = read]]
      BY <3>2
    <3> HIDE DEF read
    <3>6. [seen[t] EXCEPT !.count = read]
            \in [running : BOOLEAN, count : [Fields -> 0..CounterMax]]
      BY <3>3, <3>4
    <3> QED
      BY <3>5, <3>6 DEF TypeOK, CallType
  <2> QED
    BY <2>1, <2>2 DEF ReadStep, ReadProcessed, ReadBytes, ReadErrors, Fields
<1>3. CASE ReadUptime(t) \/ ReadProcessed(t) \/ ReadBytes(t)
  <2>1. pc' \in [Threads -> CallerStates \union GilStates \union DetachedStates]
        /\ UNCHANGED <<gil, readers, batch, answer>>
    BY <1>3 DEF ReadUptime, ReadProcessed, ReadBytes, Moves, borrows, TypeOK,
                CallType, GilStates
  <2> QED
    BY <1>1, <1>2, <2>1 DEF TypeOK, LockType, CallType, BatchType, batch
<1>4. CASE ReadErrors(t)
  <2>1. gil' = NoThread /\ CallType' /\ BatchType'
    BY <1>2, <1>4, ReturnType DEF ReadErrors, TypeOK, Answers
  <2> QED
    BY <1>1, <1>4, <2>1 DEF ReadErrors, TypeOK, LockType
<1> QED
  BY <1>3, <1>4 DEF ReadStep

-----------------------------------------------------------------------------
(* No step leaves a batch with more outcomes than logs.                      *)
LEMMA BoundedNext ==
  ASSUME TypeOK, OutcomesBounded, NEW t \in Threads,
         Call(t) \/ Acquire(t) \/ Proceed(t)
  PROVE  OutcomesBounded'
<1>1. CASE UNCHANGED batch
  BY <1>1 DEF batch, OutcomesBounded
<1>2. CASE \E lengths \in Seq(Nat) : FreshBatch(t, lengths)
  <2>1. PICK lengths \in Seq(Nat) :
          outcomes' = [outcomes EXCEPT ![t] = <<>>]
          /\ logs' = [logs EXCEPT ![t] = lengths]
    BY <1>2 DEF FreshBatch
  <2>2. Len(<<>>) = 0 /\ Len(lengths) \in Nat
    OBVIOUS
  <2> SUFFICES ASSUME NEW u \in Threads
               PROVE  Len(outcomes'[u]) <= Len(logs'[u])
    BY DEF OutcomesBounded
  <2>3. CASE u = t
    <3>1. outcomes'[u] = <<>> /\ logs'[u] = lengths
      BY <2>1, <2>3 DEF TypeOK, BatchType
    <3> QED
      BY <2>2, <3>1
  <2>4. CASE u # t
    BY <2>1, <2>4 DEF OutcomesBounded, TypeOK, BatchType
  <2> QED
    BY <2>3, <2>4
<1>3. CASE RunEvent(t)
  BY <1>3 DEF RunEvent, RunOver, OutcomesBounded, TypeOK, BatchType
<1>4. CASE Convert(t)
  BY <1>4 DEF Convert, OutcomesBounded
<1>5. <<>> \in Seq(Nat)
  OBVIOUS
<1>6. CASE Call(t)
  BY <1>2, <1>5, <1>6 DEF Call, CallInitialize, CallGetStats, CallProcessLogs, Enter
<1>7. CASE Acquire(t)
  BY <1>1, <1>2, <1>5, <1>7 DEF Acquire, Attach, RaiseFailure, Return
<1>8. CASE QuietStep(t)
  BY <1>1, <1>2, <1>3, <1>4, <1>5, <1>8
     DEF QuietStep, CheckInitialized, Detach, Compile, RunPanics,
         ConversionFails, Return
<1>9. CASE BorrowStep(t)
  BY <1>1, <1>2, <1>5, <1>9
     DEF BorrowStep, BorrowForInitialize, BorrowToCheck, BorrowToAdd,
         BorrowForStats, BorrowShared, BorrowExclusive, Return
<1>10. CASE Reset(t)
  BY <1>2, <1>5, <1>10 DEF Reset, Return
<1>11. CASE AddStep(t)
  BY <1>1, <1>2, <1>5, <1>11
     DEF AddStep, AddProcessed, AddErrors, AddBytes, Return
<1>12. CASE ReadStep(t)
  BY <1>1, <1>2, <1>5, <1>12
     DEF ReadStep, ReadUptime, ReadProcessed, ReadBytes, ReadErrors, Return
<1> QED
  BY <1>6, <1>7, <1>8, <1>9, <1>10, <1>11, <1>12, ProceedCases

(* Every step preserves the types.                                           *)
LEMMA TypeNext ==
  TypeOK /\ OutcomesBounded /\ [Next]_vars => TypeOK' /\ OutcomesBounded'
<1> SUFFICES ASSUME TypeOK, OutcomesBounded, [Next]_vars
             PROVE  TypeOK' /\ OutcomesBounded'
  OBVIOUS
<1>1. CASE UNCHANGED vars
  BY <1>1 DEF vars, borrows, pipeline, batch, history, TypeOK, LockType,
              PipelineType, CallType, BatchType, HistoryType, OutcomesBounded
<1>2. ASSUME NEW t \in Threads, Call(t) \/ Acquire(t) \/ Proceed(t)
      PROVE  TypeOK' /\ OutcomesBounded'
  BY <1>2, BoundedNext, ProceedCases, TypeCall, TypeAcquire, TypeQuiet,
     TypeBorrow, TypeReset, TypeAdd, TypeRead
<1> QED
  BY <1>1, <1>2 DEF Next

(* No step of any thread, in any interleaving, takes a variable out of its   *)
(* domain: the saturating counters and tallies stay in 0..u64::MAX, and a    *)
(* batch never has more outcomes than logs, so the loop that zips the two    *)
(* drops neither.                                                            *)
THEOREM TypeCorrect == Spec => [](TypeOK /\ OutcomesBounded)
<1>1. Init => TypeOK /\ OutcomesBounded
  BY TypeInit
<1>2. (TypeOK /\ OutcomesBounded) /\ [Next]_vars => (TypeOK /\ OutcomesBounded)'
  BY TypeNext
<1> QED
  BY <1>1, <1>2, PTL DEF Spec

-----------------------------------------------------------------------------
(* The inductive invariant behind the two safety properties.                 *)
ReadingStates ==
  {"check", "read_uptime", "read_processed", "read_bytes", "read_errors"}
WritingStates == {"reset", "add_processed", "add_errors", "add_bytes"}

(* A thread inside a method, other than detached, has the GIL.               *)
GilInv == \A t \in Threads : pc[t] \in GilStates => gil = t

(* The borrow flag says who is where: it is free whenever the GIL is.        *)
BorrowInv ==
  /\ \A t \in readers : pc[t] \in ReadingStates
  /\ \A t \in Threads : writer = t <=> pc[t] \in WritingStates

MutexInv == GilInv /\ BorrowInv /\ NoBorrowError

(* A tally counts every result once, and pegs where its exact value would.   *)
TallyInv ==
  \A t \in Threads :
    /\ \A f \in Fields : tally[t][f] = Sat(exact[t][f])
    /\ exact[t]["events_processed"] + exact[t]["errors"] = results[t]

CounterInv == \A f \in Fields : counter[f] = Sat(Total(f))

(* The events in the counters are those delivered, and what the thread that  *)
(* is adding its batch has added so far.                                     *)
Counted == Total("events_processed") + Total("errors")
DeliveredInv ==
  /\ (\A t \in Threads : pc[t] \notin {"add_errors", "add_bytes"}) =>
       Counted = delivered
  /\ \A t \in Threads :
       /\ pc[t] = "add_errors" =>
            Counted = delivered + exact[t]["events_processed"]
       /\ pc[t] = "add_bytes" => Counted = delivered + results[t]

CountInv == TallyInv /\ CounterInv /\ DeliveredInv

IInv == TypeOK /\ OutcomesBounded /\ MutexInv /\ CountInv

-----------------------------------------------------------------------------
(* A step of one thread moves one program counter.  What the borrow flag and *)
(* the GIL must do then depends on the state it leaves and the one it enters.*)
LEMMA MutexStep ==
  ASSUME TypeOK, MutexInv, NEW t \in Threads, NEW to,
         pc' = [pc EXCEPT ![t] = to],
         \A u \in Threads \ {t} : pc[u] \notin GilStates,
         to \in GilStates => gil' = t,
         readers' \subseteq {t}, t \in readers' => to \in ReadingStates,
         writer' \in {t, NoThread}, writer' = t <=> to \in WritingStates,
         answer' = answer \/ \E how \in Answers \ {"borrow_error"} :
                               answer' = [answer EXCEPT ![t] = how]
  PROVE  MutexInv'
<1>1. GilInv'
  BY DEF TypeOK, CallType, GilInv
<1>2. BorrowInv'
  BY DEF TypeOK, CallType, BorrowInv, WritingStates, GilStates
<1>3. NoBorrowError'
  BY DEF TypeOK, CallType, MutexInv, NoBorrowError
<1> QED
  BY <1>1, <1>2, <1>3 DEF MutexInv

(* With the GIL free, or held by t in a method, no other thread is in one;   *)
(* the borrow flag is then free but for t.                                   *)
LEMMA Alone ==
  ASSUME TypeOK, MutexInv, NEW t \in Threads,
         gil = NoThread \/ pc[t] \in GilStates
  PROVE  /\ \A u \in Threads \ {t} : pc[u] \notin GilStates
         /\ readers \subseteq {t} /\ writer \in {t, NoThread}
         /\ t \in readers => pc[t] \in ReadingStates
         /\ writer = t <=> pc[t] \in WritingStates
<1>1. \A u \in Threads \ {t} : pc[u] \notin GilStates
  BY DEF MutexInv, GilInv
<1>2. readers \subseteq {t} /\ (t \in readers => pc[t] \in ReadingStates)
  BY <1>1 DEF MutexInv, BorrowInv, TypeOK, LockType, ReadingStates, GilStates
<1>3. writer \in {t, NoThread} /\ (writer = t <=> pc[t] \in WritingStates)
  BY <1>1 DEF MutexInv, BorrowInv, TypeOK, LockType, WritingStates, GilStates
<1> QED
  BY <1>1, <1>2, <1>3

(* A call starts with the GIL free, so with nobody in a method.              *)
LEMMA MutexCall ==
  ASSUME TypeOK, MutexInv, NEW t \in Threads, Call(t)
  PROVE  MutexInv'
<1>1. PICK first \in {"initialize", "get_stats", "process_logs"} :
        /\ gil = NoThread /\ gil' = t
        /\ pc[t] = "python" /\ pc' = [pc EXCEPT ![t] = first]
        /\ UNCHANGED <<readers, writer, answer>>
  BY DEF Call, CallInitialize, CallGetStats, CallProcessLogs, Enter, Moves, borrows
<1> QED
  BY <1>1, Alone, MutexStep DEF ReadingStates, WritingStates

(* A thread that takes the GIL again finds nobody in a method.               *)
LEMMA MutexAcquire ==
  ASSUME TypeOK, MutexInv, NEW t \in Threads, Acquire(t)
  PROVE  MutexInv'
<1>1. CASE Attach(t)
  BY <1>1, Alone, MutexStep
     DEF Attach, Moves, borrows, ReadingStates, WritingStates
<1>2. CASE RaiseFailure(t)
  BY <1>2, Alone, MutexStep
     DEF RaiseFailure, Return, borrows, ReadingStates, WritingStates, GilStates,
         Answers
<1> QED
  BY <1>1, <1>2 DEF Acquire

(* process_logs gives its shared borrow back before it detaches.             *)
LEMMA MutexQuiet ==
  ASSUME TypeOK, MutexInv, NEW t \in Threads, QuietStep(t)
  PROVE  MutexInv'
<1>1. CASE CheckInitialized(t)
  <2>1. pc[t] \in GilStates /\ pc[t] \notin WritingStates
    BY <1>1 DEF CheckInitialized, GilStates, WritingStates
  <2>2. readers' = {} /\ writer' = NoThread
    BY <1>1, <2>1, Alone DEF CheckInitialized, DropsTemporary
  <2>3. CASE initialized
    <3>1. pc' = [pc EXCEPT ![t] = "detach"] /\ gil' = t /\ answer' = answer
      BY <1>1, <2>1, <2>3 DEF CheckInitialized, MutexInv, GilInv
    <3> QED
      BY <2>1, <2>2, <3>1, Alone, MutexStep DEF WritingStates
  <2>4. CASE ~initialized
    BY <1>1, <2>1, <2>2, <2>4, Alone, MutexStep
       DEF CheckInitialized, Return, GilStates, WritingStates, Answers
  <2> QED
    BY <2>3, <2>4
<1>2. CASE Detach(t)
  BY <1>2, Alone, MutexStep
     DEF Detach, Moves, borrows, GilStates, ReadingStates, WritingStates
<1>3. CASE Compile(t) \/ RunEvent(t) \/ RunPanics(t)
  <2>1. /\ pc[t] \in DetachedStates
        /\ \E to \in DetachedStates : pc' = [pc EXCEPT ![t] = to]
        /\ UNCHANGED <<gil, readers, writer, answer>>
    BY <1>3 DEF Compile, RunEvent, RunPanics, Moves, DetachedStates, borrows,
                TypeOK, CallType
  <2>2. GilInv'
    BY <2>1 DEF TypeOK, CallType, MutexInv, GilInv, GilStates, DetachedStates
  <2>3. BorrowInv'
    BY <2>1 DEF TypeOK, LockType, CallType, MutexInv, BorrowInv, ReadingStates,
                WritingStates, DetachedStates
  <2> QED
    BY <2>1, <2>2, <2>3 DEF MutexInv, NoBorrowError
<1>4. CASE Convert(t)
  BY <1>4 DEF Convert, borrows, MutexInv, GilInv, BorrowInv, NoBorrowError
<1>5. CASE ConversionFails(t)
  BY <1>5, Alone, MutexStep
     DEF ConversionFails, Return, borrows, GilStates, ReadingStates,
         WritingStates, Answers
<1> QED
  BY <1>1, <1>2, <1>3, <1>4, <1>5 DEF QuietStep

(* No borrow is refused: the thread that asks is alone in the pipeline.      *)
LEMMA BorrowFree ==
  ASSUME TypeOK, MutexInv, NEW t \in Threads, pc[t] \in GilStates,
         pc[t] \notin ReadingStates, pc[t] \notin WritingStates
  PROVE  writer = NoThread /\ readers = {}
BY Alone

(* A borrow is granted, and held from the state after it.                    *)
LEMMA MutexBorrow ==
  ASSUME TypeOK, MutexInv, NEW t \in Threads, BorrowStep(t)
  PROVE  MutexInv'
<1>1. /\ pc[t] \in {"initialize", "process_logs", "convert", "get_stats"}
      /\ pc[t] \in GilStates
      /\ pc[t] \notin ReadingStates /\ pc[t] \notin WritingStates
  BY DEF BorrowStep, BorrowForInitialize, BorrowToCheck, BorrowToAdd,
         BorrowForStats, BorrowShared, BorrowExclusive, GilStates,
         ReadingStates, WritingStates
<1>2. writer = NoThread /\ readers = {} /\ gil = t
  BY <1>1, BorrowFree DEF MutexInv, GilInv
<1>3. CASE BorrowForInitialize(t) \/ BorrowToAdd(t)
  <2>1. PICK to \in {"reset", "add_processed"} :
          /\ pc' = [pc EXCEPT ![t] = to] /\ writer' = t
          /\ readers' = readers /\ gil' = gil /\ answer' = answer
    BY <1>2, <1>3 DEF BorrowForInitialize, BorrowToAdd, BorrowExclusive
  <2> QED
    BY <1>1, <1>2, <2>1, Alone, MutexStep DEF WritingStates
<1>4. CASE BorrowToCheck(t) \/ BorrowForStats(t)
  <2>1. PICK to \in {"check", "read_uptime"} :
          /\ pc' = [pc EXCEPT ![t] = to] /\ readers' = readers \union {t}
          /\ writer' = writer /\ gil' = gil /\ answer' = answer
    BY <1>2, <1>4 DEF BorrowToCheck, BorrowForStats, BorrowShared
  <2> QED
    BY <1>1, <1>2, <2>1, Alone, MutexStep DEF ReadingStates, WritingStates
<1> QED
  BY <1>3, <1>4 DEF BorrowStep

(* initialize() gives its exclusive borrow back.                             *)
LEMMA MutexReset ==
  ASSUME TypeOK, MutexInv, NEW t \in Threads, Reset(t)
  PROVE  MutexInv'
BY Alone, MutexStep
   DEF Reset, Return, GilStates, ReadingStates, WritingStates, Answers

(* The exclusive borrow lasts from the first addition to the last.           *)
LEMMA MutexAdd ==
  ASSUME TypeOK, MutexInv, NEW t \in Threads, AddStep(t)
  PROVE  MutexInv'
<1>1. /\ pc[t] \in {"add_processed", "add_errors", "add_bytes"}
      /\ readers' = readers
  BY DEF AddStep, AddProcessed, AddErrors, AddBytes, Moves, AddTo
<1>2. gil = t /\ writer = t /\ readers = {}
  BY <1>1, Alone DEF MutexInv, GilInv, GilStates, ReadingStates, WritingStates
<1>3. CASE AddProcessed(t) \/ AddErrors(t)
  <2>1. PICK to \in {"add_errors", "add_bytes"} :
          pc' = [pc EXCEPT ![t] = to] /\ UNCHANGED <<gil, writer, answer>>
    BY <1>3 DEF AddProcessed, AddErrors, Moves
  <2> QED
    BY <1>1, <1>2, <2>1, Alone, MutexStep DEF GilStates, WritingStates
<1>4. CASE AddBytes(t)
  BY <1>1, <1>2, <1>4, Alone, MutexStep
     DEF AddBytes, Return, GilStates, WritingStates, Answers
<1> QED
  BY <1>3, <1>4 DEF AddStep

(* The shared borrow of get_stats lasts from its first read to its last.     *)
LEMMA MutexRead ==
  ASSUME TypeOK, MutexInv, NEW t \in Threads, ReadStep(t)
  PROVE  MutexInv'
<1>1. /\ pc[t] \in {"read_uptime", "read_processed", "read_bytes", "read_errors"}
      /\ writer' = writer
  BY DEF ReadStep, ReadUptime, ReadProcessed, ReadBytes, ReadErrors, Moves, Read,
         borrows
<1>2. gil = t /\ writer = NoThread /\ readers \subseteq {t}
  BY <1>1, Alone DEF MutexInv, GilInv, GilStates, WritingStates
<1>3. CASE ReadUptime(t) \/ ReadProcessed(t) \/ ReadBytes(t)
  <2>1. PICK to \in {"read_processed", "read_bytes", "read_errors"} :
          pc' = [pc EXCEPT ![t] = to] /\ UNCHANGED <<gil, readers, answer>>
    BY <1>3 DEF ReadUptime, ReadProcessed, ReadBytes, Moves, borrows
  <2> QED
    BY <1>1, <1>2, <2>1, Alone, MutexStep
       DEF GilStates, ReadingStates, WritingStates
<1>4. CASE ReadErrors(t)
  BY <1>1, <1>2, <1>4, Alone, MutexStep
     DEF ReadErrors, Return, GilStates, WritingStates, Answers
<1> QED
  BY <1>3, <1>4 DEF ReadStep

(* Every step keeps the GIL and the borrow flag where MutexInv says.         *)
LEMMA MutexNext ==
  ASSUME TypeOK, MutexInv, NEW t \in Threads,
         Call(t) \/ Acquire(t) \/ Proceed(t)
  PROVE  MutexInv'
BY ProceedCases, MutexCall, MutexAcquire, MutexQuiet, MutexBorrow, MutexReset,
   MutexAdd, MutexRead

(* A new pipeline is not borrowed and nobody is in a method.                 *)
LEMMA MutexInit == Init => MutexInv
BY DEF Init, MutexInv, GilInv, BorrowInv, NoBorrowError, GilStates, WritingStates,
       PipelineAssumption

-----------------------------------------------------------------------------
(* The counts.  Zero is the value of fresh counters, and pegs to itself.    *)
LEMMA ZeroValues ==
  /\ \A f \in Fields : Zero[f] = 0
  /\ "events_processed" \in Fields /\ "errors" \in Fields
  /\ "bytes_processed" \in Fields
  /\ Sat(0) = 0
BY DEF Zero, Fields, Sat

(* A new pipeline has counted nothing.                                       *)
LEMMA CountInit == Init => CountInv
<1> SUFFICES ASSUME Init PROVE CountInv
  OBVIOUS
<1>2. TallyInv
  <2>1. \A t \in Threads : tally[t] = Zero /\ exact[t] = Zero /\ results[t] = 0
    BY DEF Init
  <2> SUFFICES ASSUME NEW t \in Threads
               PROVE  /\ \A f \in Fields : tally[t][f] = Sat(exact[t][f])
                      /\ exact[t]["events_processed"] + exact[t]["errors"] = results[t]
    BY DEF TallyInv
  <2>2. \A f \in Fields : tally[t][f] = 0 /\ exact[t][f] = 0
    BY <2>1, ZeroValues
  <2>3. exact[t]["events_processed"] = 0 /\ exact[t]["errors"] = 0 /\ results[t] = 0
    BY <2>1, <2>2, ZeroValues
  <2> QED
    BY <2>2, <2>3 DEF Sat
<1>3. CounterInv
  BY ZeroValues DEF Init, CounterInv, Total
<1>4. DeliveredInv
  BY ZeroValues DEF Init, DeliveredInv, Counted, Total
<1> QED
  BY <1>2, <1>3, <1>4 DEF CountInv

(* A batch that has not been tallied adds nothing.                           *)
LEMMA FreshTally ==
  ASSUME TypeOK, TallyInv, NEW t \in Threads, NEW lengths, FreshBatch(t, lengths)
  PROVE  TallyInv'
<1>1. /\ tally' = [tally EXCEPT ![t] = Zero] /\ exact' = [exact EXCEPT ![t] = Zero]
      /\ results' = [results EXCEPT ![t] = 0]
  BY DEF FreshBatch
<1>2. /\ tally'[t] = Zero /\ exact'[t] = Zero /\ results'[t] = 0
      /\ \A u \in Threads \ {t} : /\ tally'[u] = tally[u] /\ exact'[u] = exact[u]
                                  /\ results'[u] = results[u]
  BY <1>1 DEF TypeOK, BatchType
<1> QED
  BY <1>2, ZeroValues DEF TallyInv

(* A step outside the additions leaves the counts as they are.               *)
LEMMA CountUntouched ==
  ASSUME TypeOK, CountInv, NEW t \in Threads, NEW to,
         pc' = [pc EXCEPT ![t] = to],
         pc[t] \notin {"add_errors", "add_bytes"},
         to \notin {"add_errors", "add_bytes"},
         UNCHANGED <<counter, own, carried, delivered>>,
         UNCHANGED batch \/ \E lengths : FreshBatch(t, lengths)
  PROVE  CountInv'
<1>1. TallyInv'
  BY FreshTally DEF CountInv, TallyInv, batch
<1>2. CounterInv'
  BY DEF CountInv, CounterInv, Total
<1>3. \A u \in Threads \ {t} : exact'[u] = exact[u] /\ results'[u] = results[u]
                                /\ pc'[u] = pc[u]
  BY DEF FreshBatch, batch, TypeOK, CallType, BatchType
<1>4. pc'[t] = to
  BY DEF TypeOK, CallType
<1>5. Counted' = Counted
  BY DEF Counted, Total
<1>6. DeliveredInv'
  BY <1>3, <1>4, <1>5 DEF CountInv, DeliveredInv
<1> QED
  BY <1>1, <1>2, <1>6 DEF CountInv

(* The same for a return to Python, which drops the batch.                   *)
LEMMA CountReturned ==
  ASSUME TypeOK, CountInv, NEW t \in Threads,
         pc' = [pc EXCEPT ![t] = "python"],
         pc[t] \notin {"add_errors", "add_bytes"},
         UNCHANGED <<counter, own, carried, delivered>>,
         FreshBatch(t, <<>>)
  PROVE  CountInv'
<1>1. \E lengths : FreshBatch(t, lengths)
  OBVIOUS
<1> QED
  BY <1>1, CountUntouched

(* One more outcome converted keeps the tally exact.                         *)
LEMMA CountConvert ==
  ASSUME TypeOK, OutcomesBounded, CountInv, NEW t \in Threads, Convert(t)
  PROVE  CountInv'
<1>1. /\ results[t] < Len(outcomes[t]) /\ Len(outcomes[t]) <= Len(logs[t])
      /\ results[t] \in Nat /\ pc[t] = "convert" /\ pc' = pc
  BY DEF Convert, OutcomesBounded, TypeOK, BatchType
<1> DEFINE i == results[t] + 1
           field == IF outcomes[t][i] = "ok" THEN "events_processed" ELSE "errors"
           gain == [f \in Fields |-> CASE f = field             -> 1
                                       [] f = "bytes_processed" -> BytesRead(t, i)
                                       [] OTHER                 -> 0]
<1>2. BytesRead(t, i) \in Nat
  BY <1>1 DEF TypeOK, BatchType, BytesRead
<1>3. /\ gain \in [Fields -> Nat]
      /\ gain["events_processed"] + gain["errors"] = 1
  BY <1>2 DEF Fields
<1>4. ASSUME NEW sums \in [Fields -> Nat]
      PROVE  Tallied(sums, t, i) = [f \in Fields |-> sums[f] + gain[f]]
  BY <1>2 DEF Tallied, Fields
<1> HIDE DEF i, gain, field
<1>5. exact[t] \in [Fields -> Nat] /\ tally[t] \in [Fields -> Nat]
  BY DEF TypeOK, BatchType
<1>6. exact' = [exact EXCEPT ![t] = [f \in Fields |-> exact[t][f] + gain[f]]]
  <2>1. exact' = [exact EXCEPT ![t] = Tallied(exact[t], t, i)]
    BY DEF Convert, i
  <2> QED
    BY <1>4, <1>5, <2>1
<1>7. tally' = [tally EXCEPT ![t] = [f \in Fields |-> Sat(tally[t][f] + gain[f])]]
  <2>1. tally' = [tally EXCEPT ![t] =
                    [f \in Fields |-> Sat(Tallied(tally[t], t, i)[f])]]
    BY DEF Convert, i
  <2>2. [f \in Fields |-> Sat(Tallied(tally[t], t, i)[f])]
          = [f \in Fields |-> Sat(tally[t][f] + gain[f])]
    BY <1>4, <1>5
  <2> QED
    BY <2>1, <2>2
<1>8. results' = [results EXCEPT ![t] = results[t] + 1]
  BY DEF Convert
<1>9. /\ \A f \in Fields : /\ exact'[t][f] = exact[t][f] + gain[f]
                           /\ tally'[t][f] = Sat(tally[t][f] + gain[f])
      /\ results'[t] = results[t] + 1
      /\ \A u \in Threads \ {t} : /\ tally'[u] = tally[u] /\ exact'[u] = exact[u]
                                  /\ results'[u] = results[u]
  BY <1>6, <1>7, <1>8 DEF TypeOK, BatchType
<1>10. TallyInv'
  <2>1. ASSUME NEW f \in Fields PROVE tally'[t][f] = Sat(exact'[t][f])
    <3>1. tally[t][f] = Sat(exact[t][f]) /\ exact[t][f] \in Nat /\ gain[f] \in Nat
      BY <1>3, <1>5 DEF CountInv, TallyInv
    <3>2. Sat(Sat(exact[t][f]) + gain[f]) = Sat(exact[t][f] + gain[f])
      BY <3>1 DEF Sat
    <3> QED
      BY <1>9, <3>1, <3>2
  <2>2. exact'[t]["events_processed"] + exact'[t]["errors"] = results'[t]
    <3>1. exact[t]["events_processed"] + exact[t]["errors"] = results[t]
      BY DEF CountInv, TallyInv
    <3>2. /\ exact[t]["events_processed"] \in Nat /\ exact[t]["errors"] \in Nat
          /\ gain["events_processed"] \in Nat /\ gain["errors"] \in Nat
      BY <1>3, <1>5, ZeroValues
    <3>3. /\ exact'[t]["events_processed"]
               = exact[t]["events_processed"] + gain["events_processed"]
          /\ exact'[t]["errors"] = exact[t]["errors"] + gain["errors"]
          /\ results'[t] = results[t] + 1
      BY <1>9, ZeroValues
    <3>4. gain["events_processed"] + gain["errors"] = 1
      BY <1>3
    <3> QED
      BY <3>1, <3>2, <3>3, <3>4
  <2>3. \A u \in Threads \ {t} :
          /\ \A f \in Fields : tally'[u][f] = Sat(exact'[u][f])
          /\ exact'[u]["events_processed"] + exact'[u]["errors"] = results'[u]
    BY <1>9 DEF CountInv, TallyInv
  <2> QED
    BY <2>1, <2>2, <2>3 DEF TallyInv
<1>11. CounterInv'
  BY DEF Convert, history, pipeline, CountInv, CounterInv, Total
<1>12. DeliveredInv'
  BY <1>1, <1>9 DEF Convert, history, pipeline, CountInv, DeliveredInv, Counted,
                       Total
<1> QED
  BY <1>10, <1>11, <1>12 DEF CountInv

(* Adding one field of a batch keeps its counter exact.                      *)
LEMMA CountField ==
  ASSUME TypeOK, CountInv, NEW t \in Threads, NEW field \in Fields, AddTo(t, field)
  PROVE  /\ CounterInv'
         /\ Total(field)' = Total(field) + exact[t][field]
         /\ \A f \in Fields \ {field} : Total(f)' = Total(f)
<1>1. /\ own[field] \in Nat /\ carried[field] \in Nat /\ exact[t][field] \in Nat
      /\ tally[t][field] = Sat(exact[t][field])
      /\ counter[field] = Sat(Total(field))
  BY DEF TypeOK, HistoryType, BatchType, CountInv, TallyInv, CounterInv
<1>2. Total(field)' = Total(field) + exact[t][field]
  BY <1>1 DEF AddTo, TypeOK, HistoryType, Total
<1>3. \A f \in Fields \ {field} : Total(f)' = Total(f)
  BY DEF AddTo, TypeOK, HistoryType, Total
<1>4. counter'[field] = Sat(Total(field)')
  <2>1. counter'[field] = Sat(counter[field] + tally[t][field])
    BY DEF AddTo, TypeOK, PipelineType
  <2>2. Total(field) \in Nat
    BY <1>1 DEF Total
  <2>3. Sat(Sat(Total(field)) + Sat(exact[t][field]))
          = Sat(Total(field) + exact[t][field])
    BY <1>1, <2>2, SatAdds
  <2> QED
    BY <1>1, <1>2, <2>1, <2>3
<1>5. \A f \in Fields \ {field} : counter'[f] = counter[f]
  BY DEF AddTo, TypeOK, PipelineType
<1> QED
  BY <1>2, <1>3, <1>4, <1>5 DEF CountInv, CounterInv

(* Each of the three additions keeps the counts where CountInv says.         *)
LEMMA CountAdd ==
  ASSUME TypeOK, MutexInv, CountInv, NEW t \in Threads, AddStep(t)
  PROVE  CountInv'
<1>1. pc[t] \in {"add_processed", "add_errors", "add_bytes"}
  BY DEF AddStep, AddProcessed, AddErrors, AddBytes, Moves
<1>2. /\ \A u \in Threads \ {t} : pc[u] \notin GilStates
      /\ \A u \in Threads \ {t} : pc'[u] = pc[u]
  BY <1>1, Alone DEF AddStep, AddProcessed, AddErrors, AddBytes, Moves, Return,
                     GilStates, TypeOK, CallType
<1>3. /\ Total("events_processed") \in Nat /\ Total("errors") \in Nat
      /\ exact[t]["events_processed"] \in Nat /\ exact[t]["errors"] \in Nat
      /\ delivered \in Nat /\ results[t] \in Nat
      /\ exact[t]["events_processed"] + exact[t]["errors"] = results[t]
  <2>1. "events_processed" \in Fields /\ "errors" \in Fields
    BY ZeroValues
  <2>2. /\ own["events_processed"] \in Nat /\ own["errors"] \in Nat
        /\ carried["events_processed"] \in Nat /\ carried["errors"] \in Nat
        /\ delivered \in Nat
    BY <2>1 DEF TypeOK, HistoryType
  <2>3. /\ exact[t]["events_processed"] \in Nat /\ exact[t]["errors"] \in Nat
        /\ results[t] \in Nat
    BY <2>1 DEF TypeOK, BatchType
  <2>4. exact[t]["events_processed"] + exact[t]["errors"] = results[t]
    BY DEF CountInv, TallyInv
  <2>5. Total("events_processed") \in Nat /\ Total("errors") \in Nat
    BY <2>2 DEF Total
  <2> QED
    BY <2>2, <2>3, <2>4, <2>5
<1>5. CASE AddProcessed(t)
  <2>1. AddTo(t, "events_processed") /\ pc[t] = "add_processed"
        /\ pc' = [pc EXCEPT ![t] = "add_errors"] /\ UNCHANGED <<batch, delivered>>
    BY <1>5 DEF AddProcessed, Moves
  <2>2. CounterInv' /\ TallyInv'
    BY <2>1, CountField, ZeroValues DEF CountInv, TallyInv, batch
  <2>3. Counted' = Counted + exact[t]["events_processed"]
    <3>1. /\ Total("events_processed")'
               = Total("events_processed") + exact[t]["events_processed"]
          /\ Total("errors")' = Total("errors")
      BY <2>1, CountField DEF Fields
    <3> QED
      BY <1>3, <3>1 DEF Counted
  <2>4. Counted = delivered
    BY <1>2, <2>1 DEF CountInv, DeliveredInv, GilStates
  <2>5. pc'[t] = "add_errors"
    BY <2>1 DEF TypeOK, CallType
  <2>6. DeliveredInv'
    BY <1>2, <2>1, <2>3, <2>4, <2>5 DEF DeliveredInv, GilStates, batch
  <2> QED
    BY <2>2, <2>6 DEF CountInv
<1>6. CASE AddErrors(t)
  <2>1. AddTo(t, "errors") /\ pc[t] = "add_errors"
        /\ pc' = [pc EXCEPT ![t] = "add_bytes"] /\ UNCHANGED <<batch, delivered>>
    BY <1>6 DEF AddErrors, Moves
  <2>2. CounterInv' /\ TallyInv'
    BY <2>1, CountField, ZeroValues DEF CountInv, TallyInv, batch
  <2>3. Counted' = Counted + exact[t]["errors"]
    <3>1. /\ Total("events_processed")' = Total("events_processed")
          /\ Total("errors")' = Total("errors") + exact[t]["errors"]
      BY <2>1, CountField DEF Fields
    <3> QED
      BY <1>3, <3>1 DEF Counted
  <2>4. Counted = delivered + exact[t]["events_processed"]
    BY <2>1 DEF CountInv, DeliveredInv
  <2>5. pc'[t] = "add_bytes"
    BY <2>1 DEF TypeOK, CallType
  <2>6. Counted' = delivered + results[t]
    <3> DEFINE p == exact[t]["events_processed"]
               e == exact[t]["errors"]
    <3>1. p \in Nat /\ e \in Nat /\ delivered \in Nat /\ p + e = results[t]
      BY <1>3
    <3>2. Counted' = delivered + p + e
      BY <2>3, <2>4
    <3> HIDE DEF p, e
    <3>3. delivered + p + e = delivered + (p + e)
      BY <3>1
    <3> QED
      BY <3>1, <3>2, <3>3
  <2>7. DeliveredInv'
    BY <1>2, <2>1, <2>5, <2>6 DEF DeliveredInv, GilStates, batch
  <2> QED
    BY <2>2, <2>7 DEF CountInv
<1>7. CASE AddBytes(t)
  <2>1. AddTo(t, "bytes_processed") /\ pc[t] = "add_bytes"
        /\ pc' = [pc EXCEPT ![t] = "python"] /\ FreshBatch(t, <<>>)
        /\ delivered' = delivered + results[t]
    BY <1>7 DEF AddBytes, Return
  <2>2. CounterInv' /\ TallyInv'
    BY <2>1, CountField, FreshTally, ZeroValues DEF CountInv
  <2>3. Counted' = Counted
    <3>1. /\ Total("events_processed")' = Total("events_processed")
          /\ Total("errors")' = Total("errors")
      BY <2>1, CountField DEF Fields
    <3> QED
      BY <3>1 DEF Counted
  <2>4. Counted' = delivered'
    BY <2>1, <2>3 DEF CountInv, DeliveredInv
  <2>5. pc'[t] = "python"
    BY <2>1 DEF TypeOK, CallType
  <2>6. DeliveredInv'
    BY <1>2, <2>4, <2>5 DEF DeliveredInv, GilStates
  <2> QED
    BY <2>2, <2>6 DEF CountInv
<1> QED
  BY <1>5, <1>6, <1>7 DEF AddStep

(* initialize() leaves nothing counted and nothing delivered.                *)
LEMMA CountReset ==
  ASSUME TypeOK, MutexInv, CountInv, NEW t \in Threads, Reset(t)
  PROVE  CountInv'
<1>1. TallyInv'
  BY FreshTally DEF Reset, Return, CountInv
<1>2. CounterInv'
  BY ZeroValues DEF Reset, FreshCounters, CounterInv, Total
<1>3. \A u \in Threads : pc'[u] \notin {"add_errors", "add_bytes"}
  BY Alone DEF Reset, Return, GilStates, TypeOK, CallType
<1>4. Counted' = 0 /\ delivered' = 0
  BY ZeroValues DEF Reset, Counted, Total
<1> QED
  BY <1>1, <1>2, <1>3, <1>4 DEF CountInv, DeliveredInv

(* Every step keeps the counts where CountInv says.                          *)
LEMMA CountNext ==
  ASSUME TypeOK, OutcomesBounded, MutexInv, CountInv, NEW t \in Threads,
         Call(t) \/ Acquire(t) \/ Proceed(t)
  PROVE  CountInv'
<1>1. CASE Call(t)
  <2>1. PICK first, lengths :
          /\ first \in {"initialize", "get_stats", "process_logs"}
          /\ Enter(t, first, lengths)
    BY <1>1 DEF Call, CallInitialize, CallGetStats, CallProcessLogs
  <2> QED
    BY <2>1, CountUntouched DEF Enter, Moves, pipeline
<1>2. CASE Acquire(t)
  <2>1. CASE Attach(t)
    <3>1. /\ pc[t] = "evaluate" /\ pc' = [pc EXCEPT ![t] = "convert"]
          /\ UNCHANGED <<counter, own, carried, delivered>> /\ UNCHANGED batch
      BY <2>1 DEF Attach, Moves, pipeline, history
    <3> QED
      BY <3>1, CountUntouched
  <2>2. CASE RaiseFailure(t)
    <3>1. /\ pc[t] \in {"compile_error", "panic"}
          /\ pc' = [pc EXCEPT ![t] = "python"]
          /\ UNCHANGED <<counter, own, carried, delivered>> /\ FreshBatch(t, <<>>)
      BY <2>2 DEF RaiseFailure, Return, pipeline, history
    <3> QED
      BY <3>1, CountReturned
  <2> QED
    BY <1>2, <2>1, <2>2 DEF Acquire
<1>3. CASE QuietStep(t) /\ ~Convert(t)
  <2>1. /\ pc[t] \in {"check", "detach", "compile", "evaluate", "convert"}
        /\ UNCHANGED <<pipeline, history>>
        /\ UNCHANGED batch \/ FreshBatch(t, <<>>) \/ RunEvent(t)
    BY <1>3 DEF QuietStep, CheckInitialized, Detach, Compile, RunEvent, RunPanics,
                ConversionFails, Moves, Return
  <2>2. PICK to \in {"python", "detach", "compile", "evaluate", "compile_error",
                     "panic"} : pc' = [pc EXCEPT ![t] = to]
    <3>1. CASE RunEvent(t)
      BY <3>1 DEF RunEvent, TypeOK, CallType
    <3> QED
      BY <1>3, <3>1 DEF QuietStep, CheckInitialized, Detach, Compile, RunPanics,
                        ConversionFails, Moves, Return
  <2>3. CASE UNCHANGED batch \/ FreshBatch(t, <<>>)
    BY <2>1, <2>2, <2>3, CountUntouched DEF pipeline, history
  <2>4. CASE RunEvent(t)
    BY <2>4 DEF RunEvent, pipeline, history, CountInv, TallyInv, CounterInv,
                DeliveredInv, Counted, Total
  <2> QED
    BY <2>1, <2>3, <2>4
<1>4. CASE Convert(t)
  BY <1>4, CountConvert
<1>5. CASE BorrowStep(t)
  <2>1. PICK from \in {"initialize", "process_logs", "convert", "get_stats"},
             to \in {"reset", "check", "add_processed", "read_uptime"} :
          BorrowShared(t, from, to) \/ BorrowExclusive(t, from, to)
    BY <1>5 DEF BorrowStep, BorrowForInitialize, BorrowToCheck, BorrowToAdd,
                BorrowForStats
  <2>2. /\ pc[t] = from /\ UNCHANGED <<counter, own, carried, delivered>>
        /\ \/ pc' = [pc EXCEPT ![t] = to] /\ UNCHANGED batch
           \/ pc' = [pc EXCEPT ![t] = "python"] /\ FreshBatch(t, <<>>)
    BY <2>1 DEF BorrowShared, BorrowExclusive, Return, pipeline, history
  <2>3. CASE pc' = [pc EXCEPT ![t] = to] /\ UNCHANGED batch
    BY <2>2, <2>3, CountUntouched
  <2>4. CASE pc' = [pc EXCEPT ![t] = "python"] /\ FreshBatch(t, <<>>)
    BY <2>2, <2>4, CountReturned
  <2> QED
    BY <2>2, <2>3, <2>4
<1>6. CASE ReadStep(t)
  <2>1. CASE ReadErrors(t)
    <3>1. /\ pc[t] = "read_errors" /\ pc' = [pc EXCEPT ![t] = "python"]
          /\ UNCHANGED <<counter, own, carried, delivered>> /\ FreshBatch(t, <<>>)
      BY <2>1 DEF ReadErrors, Read, Return, pipeline, history
    <3> QED
      BY <3>1, CountReturned
  <2>2. CASE ~ReadErrors(t)
    <3>1. PICK from \in {"read_uptime", "read_processed", "read_bytes"},
               to \in {"read_processed", "read_bytes", "read_errors"} :
            pc[t] = from /\ pc' = [pc EXCEPT ![t] = to]
      BY <1>6, <2>2 DEF ReadStep, ReadUptime, ReadProcessed, ReadBytes, Moves
    <3>2. UNCHANGED <<counter, own, carried, delivered>> /\ UNCHANGED batch
      BY <1>6, <2>2 DEF ReadStep, ReadUptime, ReadProcessed, ReadBytes, Read,
                        pipeline, history
    <3> QED
      BY <3>1, <3>2, CountUntouched
  <2> QED
    BY <2>1, <2>2
<1> QED
  BY <1>1, <1>2, <1>3, <1>4, <1>5, <1>6, CountReset, CountAdd, ProceedCases

-----------------------------------------------------------------------------
(* A stuttering step preserves the invariant.                                *)
LEMMA IInvStutter ==
  ASSUME IInv, UNCHANGED vars
  PROVE  IInv'
<1>1. TypeOK' /\ OutcomesBounded'
  BY TypeNext DEF IInv
<1>2. MutexInv'
  BY DEF IInv, MutexInv, GilInv, BorrowInv, NoBorrowError, vars, borrows
<1>3. CountInv'
  BY DEF IInv, CountInv, TallyInv, CounterInv, DeliveredInv, Counted, Total, vars,
         pipeline, batch, history
<1> QED
  BY <1>1, <1>2, <1>3 DEF IInv

(* IInv is inductive.  NoBorrowError and CountersExact are not by            *)
(* themselves: the first needs to know where the GIL and the borrow flag are *)
(* in every state of a method, the second what the batch in progress has     *)
(* tallied and how much of it is already in the counters.                    *)
THEOREM Invariance == Spec => []IInv
<1>1. Init => IInv
  BY TypeInit, MutexInit, CountInit DEF IInv
<1>2. IInv /\ [Next]_vars => IInv'
  <2> SUFFICES ASSUME IInv, [Next]_vars PROVE IInv'
    OBVIOUS
  <2>1. CASE UNCHANGED vars
    BY <2>1, IInvStutter
  <2>2. ASSUME NEW t \in Threads, Call(t) \/ Acquire(t) \/ Proceed(t)
        PROVE  IInv'
    <3>1. TypeOK' /\ OutcomesBounded'
      BY <2>2, TypeNext DEF IInv, Next
    <3> QED
      BY <2>2, <3>1, MutexNext, CountNext DEF IInv
  <2> QED
    BY <2>1, <2>2 DEF Next
<1> QED
  BY <1>1, <1>2, PTL DEF Spec

(* For any number of threads calling one pipeline in any interleaving, no    *)
(* call is ever refused a borrow: process_logs does not hold the pipeline    *)
(* while the GIL is released.                                                *)
THEOREM NeverRefused == Spec => []NoBorrowError
<1>1. IInv => NoBorrowError
  BY DEF IInv, MutexInv
<1> QED
  BY <1>1, Invariance, PTL

(* For any threads, batches and counter width, the counters are the pegged   *)
(* totals, and together count exactly the results handed to callers since    *)
(* the last initialize().                                                    *)
THEOREM CountersAreExact == Spec => []CountersExact
<1>1. ASSUME IInv PROVE CountersExact
  <2>1. ASSUME NEW f \in Fields
        PROVE  counter[f] = IF Total(f) < CounterMax THEN Total(f) ELSE CounterMax
    <3>1. counter[f] = Sat(Total(f))
      BY <1>1 DEF IInv, CountInv, CounterInv
    <3>2. Total(f) \in Nat
      BY <1>1 DEF IInv, TypeOK, HistoryType, Total
    <3> QED
      BY <3>1, <3>2 DEF Sat
  <2>2. ASSUME writer = NoThread
        PROVE  Total("events_processed") + Total("errors") = delivered
    <3>1. \A t \in Threads : pc[t] \notin {"add_errors", "add_bytes"}
      BY <1>1, <2>2 DEF IInv, MutexInv, BorrowInv, WritingStates
    <3> QED
      BY <1>1, <3>1 DEF IInv, CountInv, DeliveredInv, Counted
  <2> QED
    BY <2>1, <2>2 DEF CountersExact
<1> QED
  BY <1>1, Invariance, PTL

(* Only initialize() and the additions touch the counters.                   *)
LEMMA OnlyAddsAndResets ==
  ASSUME NEW t \in Threads, Call(t) \/ Acquire(t) \/ Proceed(t)
  PROVE  \/ counter' = counter
         \/ Reset(t)
         \/ \E field \in Fields : AddTo(t, field)
<1>1. CASE Call(t) \/ Acquire(t)
  BY <1>1 DEF Call, CallInitialize, CallGetStats, CallProcessLogs, Enter,
              Acquire, Attach, RaiseFailure, pipeline
<1>2. CASE QuietStep(t)
  BY <1>2 DEF QuietStep, CheckInitialized, Detach, Compile, RunEvent, RunPanics,
              Convert, ConversionFails, pipeline
<1>3. CASE BorrowStep(t) \/ ReadStep(t)
  BY <1>3 DEF BorrowStep, BorrowForInitialize, BorrowToCheck, BorrowToAdd,
              BorrowForStats, BorrowShared, BorrowExclusive, ReadStep, ReadUptime,
              ReadProcessed, ReadBytes, ReadErrors, Read, pipeline
<1>4. CASE AddStep(t)
  BY <1>4 DEF AddStep, AddProcessed, AddErrors, AddBytes, Fields
<1> QED
  BY <1>1, <1>2, <1>3, <1>4, ProceedCases

(* A step takes a counter down only if it is initialize()'s: saturation, and *)
(* not wrap-around, is what makes this true at the counter's maximum.        *)
THEOREM CountersNeverShrink == Spec => CountersOnlyGrow
<1>1. IInv /\ [Next]_vars =>
        [(\E f \in Fields : counter'[f] < counter[f]) =>
           \E t \in Threads : Reset(t)]_vars
  <2> SUFFICES ASSUME IInv, [Next]_vars,
                      NEW f \in Fields, counter'[f] < counter[f]
               PROVE  \E t \in Threads : Reset(t)
    OBVIOUS
  <2>1. counter \in [Fields -> 0..CounterMax]
    BY DEF IInv, TypeOK, PipelineType
  <2>2. counter' # counter
    BY <2>1
  <2>3. PICK t \in Threads : Call(t) \/ Acquire(t) \/ Proceed(t)
    BY <2>2 DEF Next, vars, pipeline
  <2>4. ASSUME NEW field \in Fields, AddTo(t, field)
        PROVE  FALSE
    <3>1. tally[t][field] \in 0..CounterMax /\ counter[field] \in 0..CounterMax
      BY <2>1 DEF IInv, TypeOK, BatchType
    <3>2. Sat(counter[field] + tally[t][field]) >= counter[field]
      BY <3>1 DEF Sat
    <3>3. counter' = [counter EXCEPT ![field] = Sat(counter[field] + tally[t][field])]
      BY <2>4 DEF AddTo
    <3>4. CASE f = field
      BY <2>1, <3>1, <3>2, <3>3, <3>4 DEF Sat
    <3>5. CASE f # field
      BY <2>1, <3>3, <3>5
    <3> QED
      BY <3>4, <3>5
  <2> QED
    BY <2>2, <2>3, <2>4, OnlyAddsAndResets
<1> QED
  BY <1>1, Invariance, PTL DEF Spec, CountersOnlyGrow
=============================================================================
