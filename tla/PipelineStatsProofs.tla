------------------------ MODULE PipelineStatsProofs ------------------------
(* VectorPipeline implements RunStats for any number of threads, any batches *)
(* and any counter width.                                                    *)
EXTENDS PipelineStats, VectorPipelineProofs

Step(t) == Call(t) \/ Acquire(t) \/ Proceed(t)

(* What the steps a caller cannot see keep true, on top of IInv.             *)
PastCheck ==
  {"detach", "convert", "add_processed", "add_errors", "add_bytes"}
    \union DetachedStates
AddingStates == {"add_processed", "add_errors", "add_bytes"}
PartlyRead   == {"read_processed", "read_bytes", "read_errors"}

(* A call that got past the check is a call on an initialized pipeline.      *)
StartedInv ==
  /\ started = initialized
  /\ \A t \in Threads : pc[t] \in PastCheck => initialized

(* What a thread has read of the pipeline is still what the pipeline holds.  *)
ReadAt(place) ==
  CASE place = "read_bytes"  -> {"events_processed"}
    [] place = "read_errors" -> {"events_processed", "bytes_processed"}
    [] OTHER                 -> {}
Partial(t) ==
  [running |-> started,
   count   |-> [f \in Fields |-> IF f \in ReadAt(pc[t]) THEN counter[f] ELSE 0]]
SeenAt(t) ==
  /\ pc[t] \in PartlyRead => seen[t] = Partial(t)
  /\ pc[t] \notin PartlyRead \union {"python"} => seen[t] = NoStats
SeenInv == \A t \in Threads : SeenAt(t)

(* The bytes tallied are those of the logs whose results are converted.      *)
Prefix(lengths) ==
  CHOOSE sums \in [0..Len(lengths) -> 0..Bytes[lengths]] : IsSums(sums, lengths)
BatchAt(t) ==
  /\ logs[t] \in Submitted
  /\ results[t] <= Len(outcomes[t])
  /\ exact[t]["bytes_processed"] = Prefix(logs[t])[results[t]]
  /\ pc[t] \in AddingStates \union {"convert"} => Len(outcomes[t]) = Len(logs[t])
  /\ pc[t] \in AddingStates => results[t] = Len(outcomes[t])
BatchInv == \A t \in Threads : BatchAt(t)

SettledInv == \A f \in Fields : Settled(f) \in Nat

StatsInv == StartedInv /\ SeenInv /\ BatchInv /\ SettledInv

-----------------------------------------------------------------------------
(* The prefix sums of a batch start at nothing, grow by each log, and end at *)
(* all its bytes.                                                            *)
LEMMA PrefixSums ==
  ASSUME NEW lengths \in Submitted
  PROVE  /\ Prefix(lengths) \in [0..Len(lengths) -> 0..Bytes[lengths]]
         /\ IsSums(Prefix(lengths), lengths)
BY BytesAssumption, Zenon DEF Prefix

(* An empty batch has no bytes.                                              *)
LEMMA EmptyBatch ==
  /\ <<>> \in Submitted /\ Len(<<>>) = 0 /\ Bytes[<<>>] = 0
  /\ Prefix(<<>>)[0] = 0
<1>1. <<>> \in Submitted /\ Len(<<>>) = 0
  BY DEF Submitted
<1> QED
  BY <1>1, PrefixSums DEF IsSums

-----------------------------------------------------------------------------
(* A step moves its thread's program counter only.                           *)
LEMMA StepMoves ==
  ASSUME TypeOK, NEW t \in Threads, Step(t)
  PROVE  \E to : pc' = [pc EXCEPT ![t] = to]
<1>0. pc = [pc EXCEPT ![t] = pc[t]]
  BY DEF TypeOK, CallType
<1>1. CASE Call(t) \/ Acquire(t)
  BY <1>1 DEF Call, CallInitialize, CallGetStats, CallProcessLogs, Enter, Moves,
              Acquire, Attach, RaiseFailure, Return
<1>2. CASE QuietStep(t)
  BY <1>0, <1>2 DEF QuietStep, CheckInitialized, Detach, Compile, RunEvent,
                    RunPanics, Convert, ConversionFails, Moves, Return
<1>3. CASE BorrowStep(t)
  BY <1>3 DEF BorrowStep, BorrowForInitialize, BorrowToCheck, BorrowToAdd,
              BorrowForStats, BorrowShared, BorrowExclusive, Return
<1>4. CASE Reset(t) \/ AddStep(t) \/ ReadStep(t)
  BY <1>4 DEF Reset, AddStep, AddProcessed, AddErrors, AddBytes, ReadStep,
              ReadUptime, ReadProcessed, ReadBytes, ReadErrors, Moves, Return
<1> QED
  BY <1>1, <1>2, <1>3, <1>4, ProceedCases DEF Step

(* A batch stays, starts or is dropped, or is one event or result further.   *)
LEMMA StepBatch ==
  ASSUME NEW t \in Threads, Step(t)
  PROVE  \/ UNCHANGED batch
         \/ \E lengths \in Submitted : FreshBatch(t, lengths)
         \/ RunEvent(t) \/ Convert(t)
<1>0. <<>> \in Submitted
  BY EmptyBatch
<1>1. CASE Call(t)
  BY <1>0, <1>1 DEF Call, CallInitialize, CallGetStats, CallProcessLogs, Enter,
                    Submitted
<1>2. CASE Acquire(t)
  BY <1>0, <1>2 DEF Acquire, Attach, RaiseFailure, Return
<1>3. CASE QuietStep(t)
  BY <1>0, <1>3 DEF QuietStep, CheckInitialized, Detach, Compile, RunPanics,
                    ConversionFails, Return
<1>4. CASE BorrowStep(t)
  BY <1>0, <1>4 DEF BorrowStep, BorrowForInitialize, BorrowToCheck, BorrowToAdd,
                    BorrowForStats, BorrowShared, BorrowExclusive, Return
<1>5. CASE Reset(t) \/ AddStep(t) \/ ReadStep(t)
  BY <1>0, <1>5 DEF Reset, AddStep, AddProcessed, AddErrors, AddBytes, ReadStep,
                    ReadUptime, ReadProcessed, ReadBytes, ReadErrors, Return
<1> QED
  BY <1>1, <1>2, <1>3, <1>4, <1>5, ProceedCases DEF Step

(* A step fills, empties or leaves its own thread's dict.                    *)
LEMMA StepSeen ==
  ASSUME TypeOK, NEW t \in Threads, Step(t)
  PROVE  \E dict : seen' = [seen EXCEPT ![t] = dict]
<1>0. seen = [seen EXCEPT ![t] = seen[t]]
  BY DEF TypeOK, CallType
<1>1. CASE seen' = seen
  BY <1>0, <1>1
<1>2. CASE Call(t)
  BY <1>2 DEF Call, CallInitialize, CallGetStats, CallProcessLogs, Enter
<1>3. CASE ReadUptime(t)
  <2>1. seen' = [seen EXCEPT ![t] = [seen[t] EXCEPT !.running = started]]
    BY <1>3 DEF ReadUptime
  <2> QED
    BY <2>1
<1>4. CASE \E field \in Fields : Read(t, field)
  <2>1. PICK field \in Fields : seen' = [seen EXCEPT ![t].count[field] = counter[field]]
    BY <1>4 DEF Read
  <2>2. seen' = [seen EXCEPT ![t] =
          [seen[t] EXCEPT !.count = [seen[t].count EXCEPT ![field] = counter[field]]]]
    BY <2>1
  <2> QED
    BY <2>2
<1>5. CASE Acquire(t) \/ QuietStep(t) \/ BorrowStep(t)
  BY <1>1, <1>5
     DEF Acquire, Attach, RaiseFailure, QuietStep, CheckInitialized, Detach,
         Compile, RunEvent, RunPanics, Convert, ConversionFails, BorrowStep,
         BorrowForInitialize, BorrowToCheck, BorrowToAdd, BorrowForStats,
         BorrowShared, BorrowExclusive
<1>6. CASE Reset(t) \/ AddStep(t) \/ ReadStep(t)
  BY <1>1, <1>3, <1>4, <1>6
     DEF Reset, AddStep, AddProcessed, AddErrors, AddBytes, AddTo, ReadStep,
         ReadProcessed, ReadBytes, ReadErrors, Fields
<1> QED
  BY <1>2, <1>5, <1>6, ProceedCases DEF Step

(* A step tells its own caller, or nobody, how a call ended.                 *)
LEMMA StepAnswers ==
  ASSUME TypeOK, NEW t \in Threads, Step(t)
  PROVE  \E how : answer' = [answer EXCEPT ![t] = how]
<1>0. answer = [answer EXCEPT ![t] = answer[t]]
  BY DEF TypeOK, CallType
<1>1. CASE answer' = answer
  BY <1>0, <1>1
<1>2. CASE \E how : Return(t, how)
  BY <1>2 DEF Return
<1>3. CASE Call(t) \/ Acquire(t)
  BY <1>1, <1>2, <1>3
     DEF Call, CallInitialize, CallGetStats, CallProcessLogs, Enter, Acquire,
         Attach, RaiseFailure
<1>4. CASE QuietStep(t)
  BY <1>1, <1>2, <1>4
     DEF QuietStep, CheckInitialized, Detach, Compile, RunEvent, RunPanics,
         Convert, ConversionFails
<1>5. CASE BorrowStep(t)
  BY <1>1, <1>2, <1>5
     DEF BorrowStep, BorrowForInitialize, BorrowToCheck, BorrowToAdd,
         BorrowForStats, BorrowShared, BorrowExclusive
<1>6. CASE Reset(t) \/ AddStep(t) \/ ReadStep(t)
  BY <1>1, <1>2, <1>6
     DEF Reset, AddStep, AddProcessed, AddErrors, AddBytes, ReadStep, ReadUptime,
         ReadProcessed, ReadBytes, ReadErrors
<1> QED
  BY <1>3, <1>4, <1>5, <1>6, ProceedCases DEF Step

(* So no step of one thread touches what another thread is doing.            *)
LEMMA OthersStay ==
  ASSUME TypeOK, NEW t \in Threads, Step(t), NEW u \in Threads, u # t
  PROVE  /\ pc'[u] = pc[u] /\ seen'[u] = seen[u] /\ answer'[u] = answer[u]
         /\ logs'[u] = logs[u] /\ outcomes'[u] = outcomes[u]
         /\ results'[u] = results[u] /\ exact'[u] = exact[u]
<1>1. pc'[u] = pc[u]
  BY StepMoves DEF TypeOK, CallType
<1>2. seen'[u] = seen[u]
  BY StepSeen DEF TypeOK, CallType
<1>3. answer'[u] = answer[u]
  BY StepAnswers DEF TypeOK, CallType
<1>4. /\ logs'[u] = logs[u] /\ outcomes'[u] = outcomes[u]
      /\ results'[u] = results[u] /\ exact'[u] = exact[u]
  <2>1. CASE UNCHANGED batch
    BY <2>1 DEF batch
  <2>2. CASE \E lengths \in Submitted : FreshBatch(t, lengths)
    BY <2>2 DEF TypeOK, BatchType, FreshBatch
  <2>3. CASE RunEvent(t)
    BY <2>3 DEF TypeOK, BatchType, RunEvent
  <2>4. CASE Convert(t)
    BY <2>4 DEF TypeOK, BatchType, Convert
  <2> QED
    BY <2>1, <2>2, <2>3, <2>4, StepBatch
<1> QED
  BY <1>1, <1>2, <1>3, <1>4

(* While one thread is inside a method, the others only run VRL programs.    *)
LEMMA Elsewhere ==
  ASSUME TypeOK, MutexInv, NEW t \in Threads, Step(t),
         NEW u \in Threads, u # t, pc[u] \in GilStates
  PROVE  Compile(t) \/ RunEvent(t) \/ RunPanics(t)
<1>1. gil = u /\ pc[t] \notin GilStates
  BY DEF MutexInv, GilInv
<1>2. gil # NoThread
  BY <1>1, PipelineAssumption
<1>3. ~Call(t) /\ ~Acquire(t)
  BY <1>2 DEF Call, CallInitialize, CallGetStats, CallProcessLogs, Enter, Acquire,
              Attach, RaiseFailure
<1>4. ~BorrowStep(t) /\ ~Reset(t) /\ ~AddStep(t) /\ ~ReadStep(t)
  BY <1>1 DEF BorrowStep, BorrowForInitialize, BorrowToCheck, BorrowToAdd,
              BorrowForStats, BorrowShared, BorrowExclusive, Reset, AddStep,
              AddProcessed, AddErrors, AddBytes, ReadStep, ReadUptime,
              ReadProcessed, ReadBytes, ReadErrors, Moves, GilStates
<1>5. ~CheckInitialized(t) /\ ~Detach(t) /\ ~Convert(t) /\ ~ConversionFails(t)
  BY <1>1 DEF CheckInitialized, Detach, Convert, ConversionFails, Moves, GilStates
<1> QED
  BY <1>3, <1>4, <1>5, ProceedCases DEF Step, QuietStep

-----------------------------------------------------------------------------
(* A new pipeline has nobody in a method and nothing counted.                *)
LEMMA StatsInit == Init => StatsInv
<1> SUFFICES ASSUME Init PROVE StatsInv
  OBVIOUS
<1>1. \A t \in Threads : /\ pc[t] = "python" /\ logs[t] = <<>>
                         /\ outcomes[t] = <<>> /\ results[t] = 0
                         /\ exact[t] = Zero
  BY DEF Init
<1>2. StartedInv
  BY <1>1 DEF Init, StartedInv, PastCheck, DetachedStates
<1>3. SeenInv
  BY <1>1 DEF SeenInv, SeenAt, PartlyRead
<1>4. BatchInv
  <2> SUFFICES ASSUME NEW t \in Threads PROVE BatchAt(t)
    BY DEF BatchInv
  <2>1. exact[t]["bytes_processed"] = Prefix(logs[t])[results[t]]
    BY <1>1, EmptyBatch, ZeroValues
  <2>2. Len(outcomes[t]) = 0 /\ Len(logs[t]) = 0
    BY <1>1, EmptyBatch
  <2> QED
    BY <1>1, <2>1, <2>2, EmptyBatch DEF BatchAt
<1>5. SettledInv
  BY ZeroValues, PipelineAssumption DEF Init, SettledInv, Settled, Pending, Total
<1> QED
  BY <1>2, <1>3, <1>4, <1>5 DEF StatsInv

(* The pipeline is initialized once and for all, with its start time.        *)
LEMMA StartedNext ==
  ASSUME TypeOK, StartedInv, NEW t \in Threads, Step(t)
  PROVE  StartedInv'
<1>1. \/ initialized' = initialized /\ started' = started
      \/ initialized' = TRUE /\ started' = TRUE
  <2>1. CASE Call(t) \/ Acquire(t)
    BY <2>1 DEF Call, CallInitialize, CallGetStats, CallProcessLogs, Enter,
                Acquire, Attach, RaiseFailure, pipeline
  <2>2. CASE QuietStep(t)
    BY <2>2 DEF QuietStep, CheckInitialized, Detach, Compile, RunEvent, RunPanics,
                Convert, ConversionFails, pipeline
  <2>3. CASE BorrowStep(t)
    BY <2>3 DEF BorrowStep, BorrowForInitialize, BorrowToCheck, BorrowToAdd,
                BorrowForStats, BorrowShared, BorrowExclusive, pipeline
  <2>4. CASE Reset(t) \/ AddStep(t) \/ ReadStep(t)
    BY <2>4 DEF Reset, AddStep, AddProcessed, AddErrors, AddBytes, AddTo,
                ReadStep, ReadUptime, ReadProcessed, ReadBytes, ReadErrors, Read,
                pipeline
  <2> QED
    BY <2>1, <2>2, <2>3, <2>4, ProceedCases DEF Step
<1>2. pc'[t] \in PastCheck => pc[t] \in PastCheck \/ initialized
  <2>0. pc \in [Threads -> CallerStates \union GilStates \union DetachedStates]
    BY DEF TypeOK, CallType
  <2>1. CASE Call(t) \/ Acquire(t)
    BY <2>0, <2>1
       DEF Call, CallInitialize, CallGetStats, CallProcessLogs, Enter, Moves,
           Acquire, Attach, RaiseFailure, Return, PastCheck, DetachedStates
  <2>2. CASE QuietStep(t)
    BY <2>0, <2>2
       DEF QuietStep, CheckInitialized, Detach, Compile, RunEvent, RunPanics,
           Convert, ConversionFails, Moves, Return, PastCheck, DetachedStates
  <2>3. CASE BorrowStep(t)
    BY <2>0, <2>3
       DEF BorrowStep, BorrowForInitialize, BorrowToCheck, BorrowToAdd,
           BorrowForStats, BorrowShared, BorrowExclusive, Return, PastCheck,
           DetachedStates
  <2>4. CASE Reset(t) \/ AddStep(t) \/ ReadStep(t)
    BY <2>0, <2>4
       DEF Reset, AddStep, AddProcessed, AddErrors, AddBytes, ReadStep,
           ReadUptime, ReadProcessed, ReadBytes, ReadErrors, Moves, Return,
           PastCheck, DetachedStates
  <2> QED
    BY <2>1, <2>2, <2>3, <2>4, ProceedCases DEF Step
<1>3. ASSUME NEW u \in Threads, pc'[u] \in PastCheck PROVE initialized'
  <2>1. CASE u = t
    BY <1>1, <1>2, <1>3, <2>1 DEF StartedInv
  <2>2. CASE u # t
    BY <1>1, <1>3, <2>2, OthersStay DEF StartedInv
  <2> QED
    BY <2>1, <2>2
<1> QED
  BY <1>1, <1>3 DEF StartedInv

(* The dict of the thread that moves is filled field by field.               *)
LEMMA SeenOwn ==
  ASSUME TypeOK, MutexInv, SeenInv, NEW t \in Threads, Step(t)
  PROVE  SeenAt(t)'
<1>0. /\ pc \in [Threads -> CallerStates \union GilStates \union DetachedStates]
      /\ seen \in [Threads -> [running : BOOLEAN, count : [Fields -> 0..CounterMax]]]
  BY DEF TypeOK, CallType
<1>1. ASSUME seen'[t] = NoStats, pc'[t] \notin PartlyRead
      PROVE  SeenAt(t)'
  BY <1>1 DEF SeenAt
<1>2. ASSUME seen' = seen, pc[t] \notin PartlyRead \union {"python"},
             pc'[t] \notin PartlyRead
      PROVE  SeenAt(t)'
  BY <1>1, <1>2 DEF SeenInv, SeenAt
<1>3. CASE Call(t)
  <2>1. PICK first, lengths :
          /\ first \in {"initialize", "get_stats", "process_logs"}
          /\ Enter(t, first, lengths)
    BY <1>3 DEF Call, CallInitialize, CallGetStats, CallProcessLogs
  <2>2. pc'[t] = first /\ seen'[t] = NoStats
    BY <1>0, <2>1 DEF Enter, Moves
  <2>3. first \notin PartlyRead
    BY <2>1 DEF PartlyRead
  <2> QED
    BY <1>1, <2>2, <2>3
<1>4. CASE Acquire(t)
  BY <1>0, <1>2, <1>4 DEF Acquire, Attach, RaiseFailure, Moves, Return, PartlyRead
<1>5. CASE QuietStep(t)
  BY <1>0, <1>2, <1>5
     DEF QuietStep, CheckInitialized, Detach, Compile, RunEvent, RunPanics,
         Convert, ConversionFails, Moves, Return, PartlyRead
<1>6. CASE BorrowStep(t)
  BY <1>0, <1>2, <1>6
     DEF BorrowStep, BorrowForInitialize, BorrowToCheck, BorrowToAdd,
         BorrowForStats, BorrowShared, BorrowExclusive, Return, PartlyRead
<1>7. CASE Reset(t) \/ AddStep(t)
  BY <1>0, <1>2, <1>7
     DEF Reset, AddStep, AddProcessed, AddErrors, AddBytes, AddTo, Moves, Return,
         PartlyRead
<1>8. CASE ReadUptime(t)
  <2>1. /\ pc'[t] = "read_processed" /\ started' = started
        /\ seen'[t] = [seen[t] EXCEPT !.running = started]
        /\ pc[t] = "read_uptime"
    BY <1>0, <1>8 DEF ReadUptime, Moves, pipeline
  <2>2. seen[t] = NoStats
    BY <2>1 DEF SeenInv, SeenAt, PartlyRead
  <2>3. seen'[t] = [running |-> started, count |-> Zero]
    BY <2>1, <2>2 DEF NoStats
  <2>4. Zero = [f \in Fields |-> IF f \in ReadAt(pc'[t]) THEN counter'[f] ELSE 0]
    BY <2>1 DEF ReadAt, Zero
  <2> QED
    BY <2>1, <2>3, <2>4 DEF SeenAt, Partial, PartlyRead
<1>9. CASE ReadProcessed(t) \/ ReadBytes(t)
  <2>1. PICK field \in Fields, to \in {"read_bytes", "read_errors"} :
          /\ Read(t, field) /\ pc[t] \in PartlyRead /\ pc'[t] = to
          /\ ReadAt(to) = ReadAt(pc[t]) \union {field}
    BY <1>0, <1>9 DEF ReadProcessed, ReadBytes, Moves, Fields, PartlyRead, ReadAt
  <2>2. seen[t] = Partial(t)
    BY <2>1 DEF SeenInv, SeenAt
  <2>3. /\ seen'[t] = [seen[t] EXCEPT !.count[field] = counter[field]]
        /\ counter' = counter /\ started' = started
    BY <1>0, <2>1 DEF Read, pipeline
  <2>4. seen'[t] = [running |-> started,
                    count   |-> [seen[t].count EXCEPT ![field] = counter[field]]]
    BY <2>2, <2>3 DEF Partial
  <2>5. [seen[t].count EXCEPT ![field] = counter[field]]
          = [f \in Fields |-> IF f \in ReadAt(pc'[t]) THEN counter[f] ELSE 0]
    BY <2>1, <2>2 DEF Partial
  <2> QED
    BY <2>1, <2>3, <2>4, <2>5 DEF SeenAt, Partial, PartlyRead
<1>10. CASE ReadErrors(t)
  <2>1. pc'[t] = "python"
    BY <1>0, <1>10 DEF ReadErrors, Return
  <2> QED
    BY <2>1 DEF SeenAt, PartlyRead
<1> QED
  BY <1>3, <1>4, <1>5, <1>6, <1>7, <1>8, <1>9, <1>10, ProceedCases
     DEF Step, ReadStep

(* Nobody changes a counter while another thread reads them.                 *)
LEMMA SeenNext ==
  ASSUME TypeOK, MutexInv, SeenInv, NEW t \in Threads, Step(t)
  PROVE  SeenInv'
<1> SUFFICES ASSUME NEW u \in Threads, u # t PROVE SeenAt(u)'
  BY SeenOwn DEF SeenInv
<1>1. pc'[u] = pc[u] /\ seen'[u] = seen[u] /\ SeenAt(u)
  BY OthersStay DEF SeenInv
<1>2. CASE pc[u] \in PartlyRead
  <2>1. Compile(t) \/ RunEvent(t) \/ RunPanics(t)
    BY <1>2, Elsewhere DEF PartlyRead, GilStates
  <2>2. started' = started /\ counter' = counter
    BY <2>1 DEF Compile, RunEvent, RunPanics, pipeline
  <2>3. Partial(u)' = Partial(u)
    BY <1>1, <2>2 DEF Partial
  <2> QED
    BY <1>1, <2>3 DEF SeenAt
<1>3. CASE pc[u] \notin PartlyRead
  BY <1>1, <1>3 DEF SeenAt
<1> QED
  BY <1>2, <1>3

-----------------------------------------------------------------------------
(* One more log converted adds that log to the prefix.                       *)
LEMMA BatchConvert ==
  ASSUME TypeOK, OutcomesBounded, BatchInv, NEW t \in Threads, Convert(t)
  PROVE  BatchAt(t)'
<1>1. /\ results[t] < Len(outcomes[t]) /\ Len(outcomes[t]) <= Len(logs[t])
      /\ results[t] \in Nat /\ Len(outcomes[t]) \in Nat /\ Len(logs[t]) \in Nat
      /\ exact[t] \in [Fields -> Nat]
      /\ logs[t] \in Seq(Nat)
  BY DEF Convert, OutcomesBounded, TypeOK, BatchType
<1>2. /\ pc' = pc /\ logs' = logs /\ outcomes' = outcomes
      /\ results'[t] = results[t] + 1
      /\ exact'[t] = Tallied(exact[t], t, results[t] + 1)
      /\ pc[t] = "convert"
  BY DEF Convert, TypeOK, BatchType
<1>3. exact'[t]["bytes_processed"]
        = exact[t]["bytes_processed"] + logs[t][results[t] + 1]
  BY <1>2, ZeroValues DEF Tallied, BytesRead
<1>4. BatchAt(t)
  BY DEF BatchInv
<1>5. Prefix(logs[t])[results[t] + 1]
        = Prefix(logs[t])[results[t]] + logs[t][results[t] + 1]
  <2>1. \A i \in 1..Len(logs[t]) :
          Prefix(logs[t])[i] = Prefix(logs[t])[i - 1] + logs[t][i]
    BY <1>4, PrefixSums DEF BatchAt, IsSums
  <2>2. results[t] + 1 \in 1..Len(logs[t]) /\ (results[t] + 1) - 1 = results[t]
    BY <1>1
  <2> QED
    BY <2>1, <2>2
<1>6. exact'[t]["bytes_processed"] = Prefix(logs'[t])[results'[t]]
  BY <1>2, <1>3, <1>4, <1>5 DEF BatchAt
<1>7. results'[t] <= Len(outcomes'[t])
  BY <1>1, <1>2
<1> QED
  BY <1>2, <1>4, <1>6, <1>7 DEF BatchAt, AddingStates

(* The batch of a step that leaves the thread converting or adding is the    *)
(* one it has run or converted; any other step may start or drop one.        *)
LEMMA BatchMoves ==
  ASSUME TypeOK, NEW t \in Threads, Step(t)
  PROVE  \/ RunEvent(t) \/ Convert(t)
         \/ /\ pc'[t] \in AddingStates \union {"convert"} /\ UNCHANGED batch
            /\ \/ RunOver(t) /\ pc'[t] = "convert"
               \/ pc[t] = "convert" /\ results[t] = Len(outcomes[t])
               \/ pc[t] \in AddingStates /\ pc'[t] \in AddingStates
         \/ /\ pc'[t] \notin AddingStates \union {"convert"}
            /\ UNCHANGED batch \/ \E lengths \in Submitted : FreshBatch(t, lengths)
<1>0. /\ pc \in [Threads -> CallerStates \union GilStates \union DetachedStates]
      /\ <<>> \in Submitted
  BY EmptyBatch DEF TypeOK, CallType
<1>1. CASE Call(t)
  BY <1>0, <1>1 DEF Call, CallInitialize, CallGetStats, CallProcessLogs, Enter,
                    Moves, Submitted, AddingStates
<1>2. CASE Acquire(t)
  BY <1>0, <1>2 DEF Acquire, Attach, RaiseFailure, Moves, Return, AddingStates
<1>3. CASE QuietStep(t)
  BY <1>0, <1>3 DEF QuietStep, CheckInitialized, Detach, Compile, RunPanics,
                    ConversionFails, Moves, Return, AddingStates
<1>4. CASE BorrowStep(t)
  BY <1>0, <1>4 DEF BorrowStep, BorrowForInitialize, BorrowToCheck, BorrowToAdd,
                    BorrowForStats, BorrowShared, BorrowExclusive, Return,
                    AddingStates
<1>5. CASE Reset(t) \/ AddStep(t) \/ ReadStep(t)
  BY <1>0, <1>5 DEF Reset, AddStep, AddProcessed, AddErrors, AddBytes, ReadStep,
                    ReadUptime, ReadProcessed, ReadBytes, ReadErrors, Moves,
                    Return, AddingStates
<1> QED
  BY <1>1, <1>2, <1>3, <1>4, <1>5, ProceedCases DEF Step

(* A batch is converted only once all of it has run, and added only once all *)
(* of it is converted.                                                       *)
LEMMA BatchNext ==
  ASSUME TypeOK, OutcomesBounded, BatchInv, NEW t \in Threads, Step(t)
  PROVE  BatchInv'
<1>1. ASSUME NEW u \in Threads, u # t PROVE BatchAt(u)'
  BY <1>1, OthersStay DEF BatchInv, BatchAt
<1>2. BatchAt(t)
  BY DEF BatchInv
<1>3. CASE RunEvent(t)
  <2>1. /\ pc' = pc /\ pc[t] = "evaluate" /\ UNCHANGED <<logs, results, exact>>
        /\ Len(outcomes'[t]) = Len(outcomes[t]) + 1
        /\ results[t] \in Nat /\ Len(outcomes[t]) \in Nat
    BY <1>3 DEF RunEvent, TypeOK, BatchType
  <2>2. BatchAt(t)'
    BY <1>2, <2>1 DEF BatchAt, AddingStates
  <2> QED
    BY <1>1, <2>2 DEF BatchInv
<1>4. CASE Convert(t)
  BY <1>1, <1>4, BatchConvert DEF BatchInv
<1>5. CASE UNCHANGED batch /\ pc'[t] \in AddingStates \union {"convert"}
           /\ ~RunEvent(t) /\ ~Convert(t)
  <2>1. Len(outcomes[t]) = Len(logs[t])
    BY <1>2, <1>5, BatchMoves DEF BatchAt, RunOver
  <2>2. pc'[t] \in AddingStates => results[t] = Len(outcomes[t])
    BY <1>2, <1>5, BatchMoves DEF BatchAt, AddingStates
  <2>3. BatchAt(t)'
    BY <1>2, <1>5, <2>1, <2>2 DEF BatchAt, batch
  <2> QED
    BY <1>1, <2>3 DEF BatchInv
<1>6. CASE UNCHANGED batch /\ pc'[t] \notin AddingStates \union {"convert"}
  <2>1. BatchAt(t)'
    BY <1>2, <1>6 DEF BatchAt, batch
  <2> QED
    BY <1>1, <2>1 DEF BatchInv
<1>7. CASE /\ pc'[t] \notin AddingStates \union {"convert"}
           /\ \E lengths \in Submitted : FreshBatch(t, lengths)
  <2>1. PICK lengths \in Submitted : FreshBatch(t, lengths)
    BY <1>7
  <2>2. /\ logs'[t] = lengths /\ outcomes'[t] = <<>> /\ results'[t] = 0
        /\ exact'[t] = Zero
    BY <2>1 DEF FreshBatch, TypeOK, BatchType
  <2>3. Prefix(lengths)[0] = 0
    BY PrefixSums DEF IsSums
  <2>4. exact'[t]["bytes_processed"] = Prefix(logs'[t])[results'[t]]
    BY <2>2, <2>3, ZeroValues
  <2>5. results'[t] <= Len(outcomes'[t])
    BY <2>2, EmptyBatch
  <2>6. BatchAt(t)'
    BY <1>7, <2>2, <2>4, <2>5 DEF BatchAt
  <2> QED
    BY <1>1, <2>6 DEF BatchInv
<1> QED
  BY <1>3, <1>4, <1>5, <1>6, <1>7, BatchMoves

-----------------------------------------------------------------------------
(* Each field of the totals is a natural number.                             *)
LEMMA TotalType ==
  ASSUME TypeOK, NEW f \in Fields
  PROVE  Total(f) \in Nat
BY DEF TypeOK, HistoryType, Total

(* Nothing is pending while nobody is between two additions.                 *)
LEMMA NothingPending ==
  ASSUME TypeOK, MutexInv, NEW f \in Fields,
         \A t \in Threads : pc[t] \notin {"add_errors", "add_bytes"}
  PROVE  Pending(f) = 0
BY DEF Pending, AddedAt

(* A step that adds nothing, by a thread that is not adding, leaves what is  *)
(* settled alone.                                                            *)
LEMMA SettledKept ==
  ASSUME TypeOK, MutexInv, NEW t \in Threads, Step(t),
         Call(t) \/ Acquire(t) \/ QuietStep(t) \/ ReadStep(t)
  PROVE  \A f \in Fields : Settled(f)' = Settled(f)
<1>1. UNCHANGED <<own, carried, writer>>
  <2>1. CASE Call(t) \/ Acquire(t)
    BY <2>1 DEF Call, CallInitialize, CallGetStats, CallProcessLogs, Enter,
                Acquire, Attach, RaiseFailure, borrows, history
  <2>2. CASE QuietStep(t)
    BY <2>2 DEF QuietStep, CheckInitialized, Detach, Compile, RunEvent, RunPanics,
                Convert, ConversionFails, borrows, history
  <2>3. CASE ReadStep(t)
    BY <2>3 DEF ReadStep, ReadUptime, ReadProcessed, ReadBytes, ReadErrors, Read,
                borrows, history
  <2> QED
    BY <2>1, <2>2, <2>3
<1>2. pc[t] \notin WritingStates
  <2>1. CASE Call(t) \/ Acquire(t)
    BY <2>1 DEF Call, CallInitialize, CallGetStats, CallProcessLogs, Enter, Moves,
                Acquire, Attach, RaiseFailure, WritingStates
  <2>2. CASE QuietStep(t)
    BY <2>2 DEF QuietStep, CheckInitialized, Detach, Compile, RunEvent, RunPanics,
                Convert, ConversionFails, Moves, WritingStates
  <2>3. CASE ReadStep(t)
    BY <2>3 DEF ReadStep, ReadUptime, ReadProcessed, ReadBytes, ReadErrors, Moves,
                WritingStates
  <2> QED
    BY <2>1, <2>2, <2>3
<1>3. writer # t
  BY <1>2 DEF MutexInv, BorrowInv
<1>4. writer \in Threads => pc'[writer] = pc[writer] /\ exact'[writer] = exact[writer]
  BY <1>3, OthersStay
<1>5. ASSUME NEW f \in Fields PROVE Pending(f)' = Pending(f)
  BY <1>1, <1>4 DEF Pending
<1> QED
  BY <1>1, <1>5 DEF Settled, Total

(* A borrow finds nothing pending and leaves nothing pending.                *)
LEMMA SettledBorrow ==
  ASSUME TypeOK, MutexInv, NEW t \in Threads, BorrowStep(t)
  PROVE  \A f \in Fields : Settled(f)' = Settled(f)
<1>1. /\ pc[t] \in {"initialize", "process_logs", "convert", "get_stats"}
      /\ pc'[t] \in {"reset", "check", "add_processed", "read_uptime", "python"}
      /\ UNCHANGED <<own, carried>>
  BY DEF BorrowStep, BorrowForInitialize, BorrowToCheck, BorrowToAdd,
         BorrowForStats, BorrowShared, BorrowExclusive, Return, history, TypeOK,
         CallType
<1>2. \A u \in Threads \ {t} : pc[u] \notin GilStates
  BY <1>1, Alone DEF GilStates
<1>3. \A u \in Threads \ {t} : pc'[u] = pc[u]
  BY OthersStay, ProceedCases DEF Step, Proceed, BorrowStep
<1>4. \A u \in Threads : /\ pc[u] \notin {"add_errors", "add_bytes"}
                         /\ pc'[u] \notin {"add_errors", "add_bytes"}
  BY <1>1, <1>2, <1>3 DEF GilStates
<1>5. ASSUME NEW f \in Fields PROVE Pending(f) = 0 /\ Pending(f)' = 0
  BY <1>4 DEF Pending, AddedAt
<1> QED
  BY <1>1, <1>5 DEF Settled, Total

(* A field added is pending: nothing settles before the last addition.       *)
LEMMA SettledAdds ==
  ASSUME IInv, NEW t \in Threads, AddProcessed(t) \/ AddErrors(t)
  PROVE  \A f \in Fields : Settled(f)' = Settled(f)
<1>1. PICK field \in Fields, from \in {"add_processed", "add_errors"},
           to \in {"add_errors", "add_bytes"} :
        /\ AddTo(t, field) /\ pc[t] = from /\ pc' = [pc EXCEPT ![t] = to]
        /\ exact' = exact /\ writer' = writer
        /\ AddedAt(to) = AddedAt(from) \union {field} /\ field \notin AddedAt(from)
  BY DEF AddProcessed, AddErrors, Moves, Fields, AddedAt, batch
<1>2. pc'[t] = to /\ writer = t
  BY <1>1 DEF IInv, MutexInv, BorrowInv, WritingStates, TypeOK, CallType
<1>3. ASSUME NEW f \in Fields
      PROVE  /\ Pending(f) = IF f \in AddedAt(from) THEN exact[t][f] ELSE 0
             /\ Pending(f)' = IF f \in AddedAt(to) THEN exact[t][f] ELSE 0
  BY <1>1, <1>2 DEF Pending
<1>4. /\ Total(field)' = Total(field) + exact[t][field]
      /\ \A f \in Fields \ {field} : Total(f)' = Total(f)
  BY <1>1, CountField DEF IInv
<1>5. Settled(field)' = Settled(field)
  <2>1. Total(field) \in Nat /\ exact[t][field] \in Nat
    BY TotalType DEF IInv, TypeOK, BatchType
  <2>2. Pending(field) = 0 /\ Pending(field)' = exact[t][field]
    BY <1>1, <1>3
  <2> QED
    BY <1>4, <2>1, <2>2 DEF Settled
<1>6. ASSUME NEW f \in Fields, f # field PROVE Settled(f)' = Settled(f)
  BY <1>1, <1>3, <1>4, <1>6 DEF Settled
<1> QED
  BY <1>5, <1>6

(* The last addition settles the batch, all three fields of it.              *)
LEMMA SettledBatch ==
  ASSUME IInv, NEW t \in Threads, AddBytes(t)
  PROVE  /\ \A f \in Fields : Settled(f)' = Settled(f) + exact[t][f]
         /\ \A f \in Fields : Settled(f)' \in Nat
<1>1. /\ pc[t] = "add_bytes" /\ AddTo(t, "bytes_processed")
      /\ writer' = NoThread /\ writer = t
  BY DEF AddBytes, IInv, MutexInv, BorrowInv, WritingStates
<1>2. ASSUME NEW f \in Fields
      PROVE  /\ Pending(f) = IF f = "bytes_processed" THEN 0 ELSE exact[t][f]
             /\ Pending(f)' = 0
  BY <1>1, PipelineAssumption DEF Pending, AddedAt, Fields
<1>3. /\ Total("bytes_processed")'
           = Total("bytes_processed") + exact[t]["bytes_processed"]
      /\ \A f \in Fields \ {"bytes_processed"} : Total(f)' = Total(f)
  BY <1>1, CountField, ZeroValues DEF IInv
<1>4. ASSUME NEW f \in Fields
      PROVE  Settled(f)' = Settled(f) + exact[t][f] /\ Settled(f)' \in Nat
  <2>1. Total(f) \in Nat /\ exact[t][f] \in Nat
    BY TotalType DEF IInv, TypeOK, BatchType
  <2>2. CASE f = "bytes_processed"
    BY <1>2, <1>3, <2>1, <2>2 DEF Settled
  <2>3. CASE f # "bytes_processed"
    <3>1. Total(f)' = Total(f) /\ Pending(f) = exact[t][f] /\ Pending(f)' = 0
      BY <1>2, <1>3, <2>3
    <3> QED
      BY <2>1, <3>1 DEF Settled
  <2> QED
    BY <2>2, <2>3
<1> QED
  BY <1>4

(* initialize() settles everything at zero.                                  *)
LEMMA SettledReset ==
  ASSUME NEW t \in Threads, Reset(t)
  PROVE  \A f \in Fields : Settled(f)' = 0
BY ZeroValues, PipelineAssumption DEF Reset, Settled, Pending, Total

(* Every step keeps what is settled a natural number.                        *)
LEMMA SettledNext ==
  ASSUME IInv, SettledInv, NEW t \in Threads, Step(t)
  PROVE  SettledInv'
<1>1. CASE AddBytes(t)
  BY <1>1, SettledBatch DEF SettledInv
<1>2. CASE Reset(t)
  BY <1>2, SettledReset DEF SettledInv
<1>3. CASE ~AddBytes(t) /\ ~Reset(t)
  BY <1>3, SettledKept, SettledBorrow, SettledAdds, ProceedCases
     DEF IInv, AddStep, SettledInv, Step
<1> QED
  BY <1>1, <1>2, <1>3

(* StatsInv is inductive on top of IInv.                                     *)
THEOREM StatsInvariance == Spec => [](IInv /\ StatsInv)
<1>1. Init => StatsInv
  BY StatsInit
<1>2. IInv /\ StatsInv /\ [Next]_vars => StatsInv'
  <2> SUFFICES ASSUME IInv, StatsInv, [Next]_vars PROVE StatsInv'
    OBVIOUS
  <2>1. CASE UNCHANGED vars
    BY <2>1 DEF vars, borrows, pipeline, batch, history, StatsInv, StartedInv,
                SeenInv, SeenAt, Partial, BatchInv, BatchAt, SettledInv, Settled,
                Pending, Total
  <2>2. ASSUME NEW t \in Threads, Step(t) PROVE StatsInv'
    BY <2>2, StartedNext, SeenNext, BatchNext, SettledNext DEF IInv, StatsInv
  <2> QED
    BY <2>1, <2>2 DEF Next, Step
<1> QED
  BY <1>1, <1>2, Invariance, PTL DEF Spec

-----------------------------------------------------------------------------
(* The call a thread is in, place by place.                                  *)
LEMMA CallPlaces ==
  /\ CallAt("python") = "none"
  /\ \A place \in {"initialize", "reset"} : CallAt(place) = "initialize"
  /\ \A place \in {"get_stats", "read_uptime"} \union PartlyRead :
       CallAt(place) = "get_stats"
  /\ \A place \in {"process_logs", "check"} \union PastCheck :
       CallAt(place) = "process_logs"
BY DEF CallAt, PartlyRead, PastCheck, DetachedStates

(* The mapping.  A step changes what a caller can see of its own thread.     *)
LEMMA MappedStep ==
  ASSUME TypeOK, NEW t \in Threads, Step(t)
  PROVE  /\ CallsOf' = [CallsOf EXCEPT ![t] = CallAt(pc'[t])]
         /\ SizesOf' = [SizesOf EXCEPT ![t] = SizeOf(logs'[t])]
         /\ RepliesOf' = [RepliesOf EXCEPT ![t] = Reply(t)']
<1>1. CallsOf' = [CallsOf EXCEPT ![t] = CallAt(pc'[t])]
  <2>1. \A u \in Threads \ {t} : CallAt(pc'[u]) = CallAt(pc[u])
    BY OthersStay
  <2>2. CallsOf' = [u \in Threads |-> CallAt(pc'[u])]
    BY DEF CallsOf, CallAt
  <2> QED
    BY <2>1, <2>2 DEF CallsOf
<1>2. SizesOf' = [SizesOf EXCEPT ![t] = SizeOf(logs'[t])]
  <2>1. \A u \in Threads \ {t} : SizeOf(logs'[u]) = SizeOf(logs[u])
    BY OthersStay
  <2>2. SizesOf' = [u \in Threads |-> SizeOf(logs'[u])]
    BY DEF SizesOf, SizeOf
  <2> QED
    BY <2>1, <2>2 DEF SizesOf
<1>3. RepliesOf' = [RepliesOf EXCEPT ![t] = Reply(t)']
  <2>1. \A u \in Threads \ {t} : Reply(u)' = Reply(u)
    BY OthersStay DEF Reply
  <2> QED
    BY <2>1 DEF RepliesOf
<1> QED
  BY <1>1, <1>2, <1>3

(* What a caller sees of the totals is what is settled, pegged.              *)
LEMMA TotalsKept ==
  ASSUME \A f \in Fields : Settled(f)' = Settled(f)
  PROVE  TotalsOf' = TotalsOf
BY DEF TotalsOf, Sat

(* A step inside a call that settles nothing is one no caller sees.          *)
LEMMA Unseen ==
  ASSUME TypeOK, NEW t \in Threads, Step(t),
         pc[t] # "python", pc'[t] # "python", CallAt(pc'[t]) = CallAt(pc[t]),
         logs'[t] = logs[t], initialized' = initialized,
         \A f \in Fields : Settled(f)' = Settled(f)
  PROVE  UNCHANGED Stats!vars
<1>1. CallsOf' = CallsOf
  <2>1. CallsOf = [CallsOf EXCEPT ![t] = CallAt(pc[t])]
    BY DEF CallsOf
  <2> QED
    BY <2>1, MappedStep
<1>2. SizesOf' = SizesOf
  <2>1. SizesOf = [SizesOf EXCEPT ![t] = SizeOf(logs[t])]
    BY DEF SizesOf
  <2> QED
    BY <2>1, MappedStep
<1>3. RepliesOf' = RepliesOf
  <2>1. RepliesOf = [RepliesOf EXCEPT ![t] = Reply(t)]
    BY DEF RepliesOf
  <2>2. Reply(t)' = Reply(t)
    BY DEF Reply
  <2> QED
    BY <2>1, <2>2, MappedStep
<1> QED
  BY <1>1, <1>2, <1>3, TotalsKept DEF Stats!vars

(* A return answers the thread's call.                                       *)
LEMMA Returned ==
  ASSUME TypeOK, NEW t \in Threads, Step(t), NEW how, Return(t, how)
  PROVE  Stats!Answer(t, [kind    |-> Kind(how),
                          running |-> seen'[t].running,
                          count   |-> seen'[t].count])
<1>1. pc'[t] = "python" /\ answer'[t] = how /\ logs'[t] = <<>>
  BY DEF Return, FreshBatch, TypeOK, CallType, BatchType
<1>2. CallAt(pc'[t]) = "none"
  BY <1>1, CallPlaces
<1>3. SizeOf(logs'[t]) = Stats!NoBatch
  BY <1>1, EmptyBatch DEF SizeOf, Stats!NoBatch
<1>4. Reply(t)' = [kind    |-> Kind(how),
                   running |-> seen'[t].running,
                   count   |-> seen'[t].count]
  BY <1>1 DEF Reply, Kind
<1> QED
  BY <1>2, <1>3, <1>4, MappedStep DEF Stats!Answer

(* The same for a call that returns no stats.                                *)
LEMMA ReturnedPlain ==
  ASSUME TypeOK, SeenInv, NEW t \in Threads, Step(t), NEW how, Return(t, how),
         pc[t] \notin PartlyRead \union {"python"}, seen'[t] = seen[t]
  PROVE  Stats!Answer(t, Stats!Told(Kind(how)))
<1>1. seen'[t] = NoStats
  BY DEF SeenInv, SeenAt
<1>2. Stats!Told(Kind(how))
        = [kind |-> Kind(how), running |-> seen'[t].running, count |-> seen'[t].count]
  BY <1>1 DEF Stats!Told, Stats!Zero, NoStats, Zero
<1> QED
  BY <1>2, Returned

-----------------------------------------------------------------------------
(* Entering a method invokes the operation.                                  *)
LEMMA CallInvokes ==
  ASSUME IInv, NEW t \in Threads, Call(t)
  PROVE  Stats!Next
<1>1. PICK first, lengths :
        /\ first \in {"initialize", "get_stats", "process_logs"}
        /\ lengths \in Submitted /\ Enter(t, first, lengths)
  BY EmptyBatch DEF Call, CallInitialize, CallGetStats, CallProcessLogs, Submitted
<1>2. /\ pc[t] = "python" /\ pc'[t] = first /\ logs'[t] = lengths
      /\ initialized' = initialized
  BY <1>1 DEF Enter, Moves, FreshBatch, pipeline, IInv, TypeOK, CallType, BatchType
<1>3. CallAt(pc[t]) = "none" /\ CallAt(first) = first
  BY <1>1, <1>2, CallPlaces
<1>4. SizeOf(lengths) \in {SizeOf(b) : b \in Batches} \union {Stats!NoBatch}
  BY <1>1, EmptyBatch DEF Submitted, SizeOf, Stats!NoBatch
<1>5. Reply(t)' = Stats!Nothing
  <2>1. pc'[t] # "python"
    BY <1>1, <1>2
  <2> QED
    BY <2>1 DEF Reply, Stats!Nothing, Stats!Told, Stats!Zero, Zero
<1>6. TotalsOf' = TotalsOf
  BY SettledKept, TotalsKept DEF IInv, Step
<1>7. Stats!Invoke(t, first)
  BY <1>2, <1>3, <1>4, <1>5, <1>6, MappedStep
     DEF Stats!Invoke, Step, CallsOf, IInv
<1> QED
  BY <1>1, <1>7 DEF Stats!Next

(* The last step of initialize() is all of it.                               *)
LEMMA ResetInitializes ==
  ASSUME IInv, StatsInv, NEW t \in Threads, Reset(t)
  PROVE  Stats!Next
<1>0. Step(t)
  BY DEF Step, Proceed
<1>1. /\ pc[t] = "reset" /\ initialized' = TRUE /\ seen' = seen
      /\ Return(t, "initialized")
  BY DEF Reset
<1>2. CallsOf[t] = "initialize"
  BY <1>1, CallPlaces DEF CallsOf
<1>3. TotalsOf' = Stats!Zero
  BY SettledReset, ZeroValues DEF TotalsOf, Sat, Stats!Zero
<1>4. Stats!Answer(t, Stats!Told("initialized"))
  BY <1>0, <1>1, ReturnedPlain DEF Kind, PartlyRead, IInv, StatsInv
<1> QED
  BY <1>1, <1>2, <1>3, <1>4 DEF Stats!Initialize, Stats!Next

(* A process_logs that raises changes nothing, wherever it stopped.          *)
LEMMA FailureRaises ==
  ASSUME IInv, StatsInv, NEW t \in Threads,
         NEW how \in {"not_initialized", "compile_error", "panic", "conversion_error"},
         CheckInitialized(t) \/ RaiseFailure(t) \/ ConversionFails(t),
         Return(t, how)
  PROVE  Stats!Next
<1>0. Step(t) /\ (QuietStep(t) \/ Acquire(t))
  BY DEF Step, Proceed, Acquire, QuietStep
<1>1. /\ pc[t] \in {"check", "compile_error", "panic", "convert"}
      /\ initialized' = initialized /\ seen' = seen
  BY DEF CheckInitialized, RaiseFailure, ConversionFails, pipeline
<1>2. CallsOf[t] = "process_logs"
  BY <1>1, CallPlaces DEF CallsOf, PastCheck, DetachedStates
<1>3. TotalsOf' = TotalsOf
  BY <1>0, SettledKept, TotalsKept DEF IInv
<1>4. Stats!Answer(t, Stats!Told("raised"))
  BY <1>0, <1>1, ReturnedPlain DEF Kind, PartlyRead, IInv, StatsInv
<1> QED
  BY <1>1, <1>2, <1>3, <1>4 DEF Stats!Raise, Stats!Next

(* A batch settled is every event of it in one of the two event counters,    *)
(* and all its bytes.                                                        *)
LEMMA AddsUp ==
  ASSUME IInv, StatsInv, NEW t \in Threads, pc[t] = "add_bytes"
  PROVE  /\ exact[t]["events_processed"] \in 0..SizesOf[t].events
         /\ exact[t]["errors"]
               = SizesOf[t].events - exact[t]["events_processed"]
         /\ exact[t]["bytes_processed"] = SizesOf[t].bytes
<1>1. BatchAt(t) /\ pc[t] \in AddingStates
  BY DEF StatsInv, BatchInv, AddingStates
<1>2. results[t] = Len(outcomes[t]) /\ Len(outcomes[t]) = Len(logs[t])
  BY <1>1 DEF BatchAt
<1>3. exact[t]["events_processed"] + exact[t]["errors"] = Len(logs[t])
  BY <1>2 DEF IInv, CountInv, TallyInv
<1>4. exact[t]["events_processed"] \in Nat /\ exact[t]["errors"] \in Nat
  BY ZeroValues DEF IInv, TypeOK, BatchType
<1>5. exact[t]["bytes_processed"] = Bytes[logs[t]]
  BY <1>1, <1>2, PrefixSums DEF BatchAt, IsSums
<1>6. SizesOf[t].events = Len(logs[t]) /\ SizesOf[t].bytes = Bytes[logs[t]]
  BY DEF SizesOf, SizeOf
<1>7. Len(logs[t]) \in Nat
  BY DEF IInv, TypeOK, BatchType
<1> QED
  BY <1>3, <1>4, <1>5, <1>6, <1>7

(* The last addition of a batch is all of process_logs.                      *)
LEMMA AddBytesProcesses ==
  ASSUME IInv, StatsInv, NEW t \in Threads, AddBytes(t)
  PROVE  Stats!Next
<1>0. Step(t)
  BY DEF Step, Proceed
<1>1. /\ pc[t] = "add_bytes" /\ Return(t, "results")
      /\ initialized' = initialized /\ seen' = seen
  BY DEF AddBytes, AddTo
<1>2. CallsOf[t] = "process_logs" /\ initialized
  BY <1>1, CallPlaces DEF CallsOf, PastCheck, StatsInv, StartedInv
<1>3. Stats!Answer(t, Stats!Told("results"))
  BY <1>0, <1>1, ReturnedPlain DEF Kind, PartlyRead, IInv, StatsInv
<1> DEFINE good == exact[t]["events_processed"]
           all  == SizesOf[t].events
<1>4. /\ good \in 0..all
      /\ exact[t]["errors"] = all - good
      /\ exact[t]["bytes_processed"] = SizesOf[t].bytes
  BY <1>1, AddsUp
<1>5. /\ \A f \in Fields : /\ Settled(f) \in Nat /\ exact[t][f] \in Nat
                          /\ TotalsOf[f] = Sat(Settled(f))
                          /\ TotalsOf'[f] = Sat(Settled(f) + exact[t][f])
      /\ all \in Nat
  <2>1. \A f \in Fields : Settled(f)' = Settled(f) + exact[t][f]
    BY SettledBatch
  <2>2. TotalsOf' = [f \in Fields |-> Sat(Settled(f) + exact[t][f])]
    BY <2>1 DEF TotalsOf, Sat
  <2>3. \A f \in Fields : Settled(f) \in Nat /\ exact[t][f] \in Nat
    BY DEF IInv, TypeOK, BatchType, StatsInv, SettledInv
  <2>4. all \in Nat
    BY DEF SizesOf, SizeOf, IInv, TypeOK, BatchType
  <2> QED
    BY <2>2, <2>3, <2>4 DEF TotalsOf
<1>6. ASSUME NEW f \in Fields
      PROVE  TotalsOf'[f] = Stats!Peg(TotalsOf[f] + exact[t][f])
  <2>1. Settled(f) \in Nat /\ exact[t][f] \in Nat
    BY <1>5
  <2>2. Sat(Sat(Settled(f)) + exact[t][f]) = Sat(Settled(f) + exact[t][f])
    BY <2>1, PipelineAssumption DEF Sat
  <2>3. Stats!Peg(TotalsOf[f] + exact[t][f]) = Sat(TotalsOf[f] + exact[t][f])
    BY DEF Stats!Peg, Sat
  <2> QED
    BY <1>5, <2>2, <2>3
<1>7. TotalsOf' = [TotalsOf EXCEPT
                     !["events_processed"] = Stats!Peg(@ + good),
                     !["errors"]           = Stats!Peg(@ + (all - good)),
                     !["bytes_processed"]  = Stats!Peg(@ + SizesOf[t].bytes)]
  <2>1. /\ TotalsOf'["events_processed"]
             = Stats!Peg(TotalsOf["events_processed"] + good)
        /\ TotalsOf'["errors"] = Stats!Peg(TotalsOf["errors"] + (all - good))
        /\ TotalsOf'["bytes_processed"]
             = Stats!Peg(TotalsOf["bytes_processed"] + SizesOf[t].bytes)
    BY <1>4, <1>6, ZeroValues
  <2>2. /\ TotalsOf = [f \in Fields |-> TotalsOf[f]]
        /\ TotalsOf' = [f \in Fields |-> TotalsOf'[f]]
    BY DEF TotalsOf
  <2> HIDE DEF good, all
  <2> DEFINE a == "events_processed"
             b == "errors"
             c == "bytes_processed"
             p == Stats!Peg(TotalsOf[a] + good)
             q == Stats!Peg(TotalsOf[b] + (all - good))
             r == Stats!Peg(TotalsOf[c] + SizesOf[t].bytes)
  <2>3. TotalsOf' = [TotalsOf EXCEPT ![a] = p, ![b] = q, ![c] = r]
    <3>1. TotalsOf'[a] = p /\ TotalsOf'[b] = q /\ TotalsOf'[c] = r
      BY <2>1
    <3> HIDE DEF p, q, r
    <3> QED
      BY <2>2, <3>1 DEF Fields
  <2> QED
    BY <2>3
<1> HIDE DEF good, all
<1>8. \E n \in 0..SizesOf[t].events :
        TotalsOf' = [TotalsOf EXCEPT
                       !["events_processed"] = Stats!Peg(@ + n),
                       !["errors"]           = Stats!Peg(@ + (SizesOf[t].events - n)),
                       !["bytes_processed"]  = Stats!Peg(@ + SizesOf[t].bytes)]
  BY <1>4, <1>7, Zenon DEF all
<1>9. Stats!Process(t)
  BY <1>1, <1>2, <1>3, <1>8, Zenon DEF Stats!Process
<1> QED
  BY <1>9 DEF Stats!Next

(* The last read of get_stats() returns the totals as they are then.         *)
LEMMA ReadErrorsGets ==
  ASSUME IInv, StatsInv, NEW t \in Threads, ReadErrors(t)
  PROVE  Stats!Next
<1>0. Step(t) /\ ReadStep(t)
  BY DEF Step, Proceed, ReadStep
<1>1. /\ pc[t] = "read_errors" /\ Return(t, "stats")
      /\ initialized' = initialized /\ Read(t, "errors")
  BY DEF ReadErrors, Read, pipeline
<1>2. CallsOf[t] = "get_stats"
  BY <1>1, CallPlaces DEF CallsOf, PartlyRead
<1>3. TotalsOf' = TotalsOf
  BY <1>0, SettledKept, TotalsKept DEF IInv
<1>4. seen[t] = Partial(t)
  BY <1>1 DEF StatsInv, SeenInv, SeenAt, PartlyRead
<1>5. seen'[t].running = initialized
  BY <1>1, <1>4 DEF Read, Partial, StatsInv, StartedInv, IInv, TypeOK, CallType
<1>6. seen'[t].count = counter
  <2>1. seen'[t].count = [seen[t].count EXCEPT !["errors"] = counter["errors"]]
    BY <1>1 DEF Read, IInv, TypeOK, CallType
  <2>2. seen[t].count = [f \in Fields |->
          IF f \in {"events_processed", "bytes_processed"} THEN counter[f] ELSE 0]
    BY <1>1, <1>4 DEF Partial, ReadAt
  <2>3. counter = [f \in Fields |-> counter[f]]
    BY DEF IInv, TypeOK, PipelineType
  <2> QED
    BY <2>1, <2>2, <2>3 DEF Fields
<1>7. TotalsOf = counter
  <2>1. \A u \in Threads : pc[u] \notin {"add_errors", "add_bytes"}
    BY <1>1, Alone DEF IInv, GilStates
  <2>2. ASSUME NEW f \in Fields PROVE TotalsOf[f] = counter[f]
    <3>1. Settled(f) = Total(f)
      BY <2>1, NothingPending, TotalType DEF Settled, IInv
    <3> QED
      BY <3>1 DEF TotalsOf, IInv, CountInv, CounterInv
  <2> QED
    BY <2>2 DEF TotalsOf, IInv, TypeOK, PipelineType
<1>8. Stats!Answer(t, [kind |-> "stats", running |-> initialized, count |-> TotalsOf])
  <2>1. Kind("stats") = "stats"
    BY DEF Kind
  <2> QED
    BY <1>0, <1>1, <1>5, <1>6, <1>7, <2>1, Returned DEF IInv
<1> QED
  BY <1>1, <1>2, <1>3, <1>8 DEF Stats!GetStats, Stats!Next

(* Every other step is one no caller sees.                                   *)
LEMMA BorrowUnseen ==
  ASSUME IInv, NEW t \in Threads, BorrowStep(t)
  PROVE  UNCHANGED Stats!vars
<1>0. Step(t)
  BY DEF Step, Proceed, BorrowStep
<1>1. /\ pc[t] \in {"initialize", "process_logs", "convert", "get_stats"}
      /\ pc[t] \in GilStates
      /\ pc[t] \notin ReadingStates /\ pc[t] \notin WritingStates
  BY DEF BorrowStep, BorrowForInitialize, BorrowToCheck, BorrowToAdd,
         BorrowForStats, BorrowShared, BorrowExclusive, GilStates,
         ReadingStates, WritingStates
<1>2. writer = NoThread /\ readers = {}
  BY <1>1, BorrowFree DEF IInv
<1>3. /\ \/ pc[t] = "initialize" /\ pc'[t] = "reset"
         \/ pc[t] = "process_logs" /\ pc'[t] = "check"
         \/ pc[t] = "convert" /\ pc'[t] = "add_processed"
         \/ pc[t] = "get_stats" /\ pc'[t] = "read_uptime"
      /\ logs' = logs /\ initialized' = initialized
  BY <1>2 DEF BorrowStep, BorrowForInitialize, BorrowToCheck, BorrowToAdd,
              BorrowForStats, BorrowShared, BorrowExclusive, batch, pipeline,
              IInv, TypeOK, CallType
<1>4. CallAt(pc'[t]) = CallAt(pc[t])
  BY <1>3, CallPlaces DEF PastCheck
<1>5. pc[t] # "python" /\ pc'[t] # "python"
  BY <1>3
<1> QED
  BY <1>0, <1>3, <1>4, <1>5, SettledBorrow, Unseen DEF IInv

(* Nor does a caller see a field being read for another.                     *)
LEMMA ReadUnseen ==
  ASSUME IInv, NEW t \in Threads, ReadStep(t), ~ReadErrors(t)
  PROVE  UNCHANGED Stats!vars
<1>0. Step(t)
  BY DEF Step, Proceed, ReadStep
<1>1. /\ pc[t] \in {"read_uptime"} \union PartlyRead /\ pc'[t] \in PartlyRead
      /\ logs' = logs /\ initialized' = initialized
  BY DEF ReadStep, ReadUptime, ReadProcessed, ReadBytes, Read, Moves, batch,
         pipeline, PartlyRead, IInv, TypeOK, CallType
<1>2. CallAt(pc'[t]) = CallAt(pc[t])
  BY <1>1, CallPlaces
<1>3. pc[t] # "python" /\ pc'[t] # "python"
  BY <1>1 DEF PartlyRead
<1> QED
  BY <1>0, <1>1, <1>2, <1>3, SettledKept, Unseen DEF IInv

(* Nor the first two additions of a batch.                                   *)
LEMMA AddUnseen ==
  ASSUME IInv, NEW t \in Threads, AddProcessed(t) \/ AddErrors(t)
  PROVE  UNCHANGED Stats!vars
<1>0. Step(t)
  BY DEF Step, Proceed
<1>1. /\ pc[t] \in AddingStates /\ pc'[t] \in AddingStates
      /\ logs' = logs /\ initialized' = initialized
  BY DEF AddProcessed, AddErrors, AddTo, Moves, batch, AddingStates, IInv, TypeOK,
         CallType
<1>2. CallAt(pc'[t]) = CallAt(pc[t])
  BY <1>1, CallPlaces DEF AddingStates, PastCheck
<1>3. pc[t] # "python" /\ pc'[t] # "python"
  BY <1>1 DEF AddingStates
<1> QED
  BY <1>0, <1>1, <1>2, <1>3, SettledAdds, Unseen DEF IInv

(* A step of process_logs before its first addition goes on unseen or        *)
(* raises.                                                                   *)
LEMMA BatchStep ==
  ASSUME IInv, StatsInv, NEW t \in Threads, QuietStep(t) \/ Acquire(t)
  PROVE  Stats!Next \/ UNCHANGED Stats!vars
<1>0. Step(t)
  BY DEF Step, Proceed, Acquire, QuietStep
<1>1. CASE \E how : Return(t, how)
  <2>1. CASE CheckInitialized(t)
    <3>1. Return(t, "not_initialized")
      BY <1>1, <2>1 DEF CheckInitialized, Return, IInv, TypeOK, CallType
    <3> QED
      BY <2>1, <3>1, FailureRaises
  <2>2. CASE RaiseFailure(t)
    BY <2>2, FailureRaises DEF RaiseFailure
  <2>3. CASE ConversionFails(t)
    BY <2>3, FailureRaises DEF ConversionFails
  <2>4. CASE Detach(t) \/ Compile(t) \/ RunEvent(t) \/ RunPanics(t)
             \/ Convert(t) \/ Attach(t)
    BY <1>1, <2>4 DEF Detach, Compile, RunEvent, RunPanics, Convert, Attach, Moves,
                      Return, IInv, TypeOK, CallType
  <2> QED
    BY <2>1, <2>2, <2>3, <2>4 DEF QuietStep, Acquire
<1>2. CASE ~\E how : Return(t, how)
  <2>1. /\ pc[t] \in {"check"} \union PastCheck /\ pc'[t] \in PastCheck
        /\ logs' = logs /\ initialized' = initialized
    BY <1>2 DEF QuietStep, CheckInitialized, Detach, Compile, RunEvent, RunPanics,
                Convert, ConversionFails, Acquire, Attach, RaiseFailure, Moves,
                batch, pipeline, PastCheck, DetachedStates, IInv, TypeOK, CallType
  <2>2. CallAt(pc'[t]) = CallAt(pc[t])
    BY <2>1, CallPlaces
  <2>3. pc[t] # "python" /\ pc'[t] # "python"
    BY <2>1 DEF PastCheck, DetachedStates
  <2> QED
    BY <1>0, <2>1, <2>2, <2>3, SettledKept, Unseen DEF IInv
<1> QED
  BY <1>1, <1>2

(* A new pipeline is one nobody has called.                                  *)
LEMMA StatsImplementsInit == Init => Stats!Init
<1> SUFFICES ASSUME Init PROVE Stats!Init
  OBVIOUS
<1>1. \A t \in Threads : pc[t] = "python" /\ logs[t] = <<>> /\ seen[t] = NoStats
                         /\ answer[t] = "none"
  BY DEF Init
<1>2. TotalsOf = Stats!Zero
  <2>1. \A f \in Fields : Settled(f) = 0
    BY ZeroValues, PipelineAssumption DEF Init, Settled, Pending, Total
  <2> QED
    BY <2>1, ZeroValues DEF TotalsOf, Stats!Zero
<1>3. CallsOf = [t \in Threads |-> "none"]
  BY <1>1, CallPlaces DEF CallsOf
<1>4. SizesOf = [t \in Threads |-> Stats!NoBatch]
  BY <1>1, EmptyBatch DEF SizesOf, SizeOf, Stats!NoBatch
<1>5. RepliesOf = [t \in Threads |-> Stats!Nothing]
  <2>1. ASSUME NEW t \in Threads PROVE Reply(t) = Stats!Nothing
    <3>1. Kind(answer[t]) = "none"
      BY <1>1 DEF Kind
    <3>2. seen[t].running = FALSE /\ seen[t].count = Stats!Zero
      BY <1>1 DEF NoStats, Zero, Stats!Zero
    <3> QED
      BY <1>1, <3>1, <3>2 DEF Reply, Stats!Nothing, Stats!Told
  <2> QED
    BY <2>1 DEF RepliesOf
<1> QED
  BY <1>2, <1>3, <1>4, <1>5 DEF Init, Stats!Init

(* However many threads call one pipeline, however their calls interleave,   *)
(* and wherever its counters peg, it does what RunStats does, in which       *)
(* initialize, process_logs and get_stats act at once: a batch's three       *)
(* counts appear together, and a call that raises leaves no trace.           *)
THEOREM PipelineImplementsRunStats == Spec => ImplementsRunStats
<1>1. ASSUME IInv, StatsInv, [Next]_vars PROVE [Stats!Next]_Stats!vars
  <2>1. CASE UNCHANGED vars
    <3>1. UNCHANGED <<initialized, own, carried, writer, pc, exact, logs, answer, seen>>
      BY <2>1 DEF vars, borrows, pipeline, batch, history
    <3>2. \A f \in Fields : Settled(f)' = Settled(f)
      BY <3>1 DEF Settled, Total, Pending
    <3>3. UNCHANGED <<CallsOf, SizesOf, RepliesOf>>
      BY <3>1 DEF CallsOf, CallAt, SizesOf, SizeOf, RepliesOf, Reply
    <3> QED
      BY <3>1, <3>2, <3>3, TotalsKept DEF Stats!vars
  <2>2. ASSUME NEW t \in Threads, Step(t)
        PROVE  Stats!Next \/ UNCHANGED Stats!vars
    <3>1. CASE Call(t)
      BY <1>1, <3>1, CallInvokes
    <3>2. CASE QuietStep(t) \/ Acquire(t)
      BY <1>1, <3>2, BatchStep
    <3>3. CASE BorrowStep(t)
      BY <1>1, <3>3, BorrowUnseen
    <3>4. CASE Reset(t)
      BY <1>1, <3>4, ResetInitializes
    <3>5. CASE AddStep(t)
      BY <1>1, <3>5, AddUnseen, AddBytesProcesses DEF AddStep
    <3>6. CASE ReadStep(t)
      BY <1>1, <3>6, ReadUnseen, ReadErrorsGets
    <3> QED
      BY <2>2, <3>1, <3>2, <3>3, <3>4, <3>5, <3>6, ProceedCases DEF Step
  <2> QED
    BY <1>1, <2>1, <2>2 DEF Next, Step
<1> QED
  BY <1>1, StatsImplementsInit, StatsInvariance, PTL
     DEF Spec, ImplementsRunStats, Stats!Spec
=============================================================================
