--------------------------- MODULE VectorPipeline ---------------------------
(* Class Vector of vector-bindings/src/lib.rs: one pipeline object that any  *)
(* number of Python threads share.  Every method runs with the GIL held,     *)
(* except process_logs, which releases it while the VRL program runs and     *)
(* takes it again to convert the outcomes and to add the batch to the        *)
(* counters.  PyO3 guards the object with a run-time borrow flag (many       *)
(* readers or one writer); a borrow it refuses is an error of the caller.    *)
(*                                                                           *)
(* A step below does what the code does between two points where the GIL,    *)
(* the borrow flag or a field of the object is touched.  Nothing tests the   *)
(* GIL but the steps that acquire it: that at most one thread is inside a    *)
(* method is a consequence, not a guard.                                     *)
EXTENDS Integers, Sequences

CONSTANTS
  Threads,      \* Python threads that hold a reference to the pipeline
  NoThread,     \* the owner of a free GIL and of an unborrowed object
  Batches,      \* the batches a thread may submit: sequences of log lengths
  CounterMax,   \* u64::MAX, where the Saturating<u64> counters peg
  MaxVolume     \* bound: results delivered between two initialize() calls

ASSUME PipelineAssumption ==
  /\ NoThread \notin Threads
  /\ Batches \subseteq Seq(Nat)
  /\ CounterMax \in Nat
  /\ MaxVolume \in Nat

VARIABLES
  gil,          \* the thread that holds the GIL
  readers,      \* threads that hold a shared borrow of the object
  writer,       \* the thread that holds the exclusive borrow
  initialized,  \* Vector.initialized
  started,      \* Vector.started_at is Some(..)
  counter,      \* Vector.events_processed, .errors and .bytes_processed
  pc,           \* where each thread stands in the method it called
  logs,         \* process_logs: the argument
  outcomes,     \* process_logs: what run_events has produced so far
  results,      \* process_logs: results.len()
  tally,        \* process_logs: the locals processed, errors and bytes
  seen,         \* get_stats: the dict being filled, then the one returned
  answer,       \* how each thread's last call ended
  exact,        \* history: tally, without saturation
  stale,        \* history: initialize() ran after this batch was checked
  own,          \* history: what batches of the current run have added
  carried,      \* history: what batches checked before it have added
  delivered     \* history: results returned since the last initialize()

pipeline == <<initialized, started, counter>>
borrows  == <<readers, writer>>
batch    == <<logs, outcomes, results, tally, exact>>
history  == <<stale, own, carried, delivered>>
vars     == <<gil, borrows, pipeline, pc, batch, seen, answer, history>>

Fields == {"events_processed", "errors", "bytes_processed"}
Zero   == [f \in Fields |-> 0]

(* Saturating<u64> pegs; a plain u64 would wrap around, and a wider type     *)
(* would hand get_stats() a value that is no u64.                            *)
Wraps(n)    == n % (CounterMax + 1)
Unpegged(n) == n
Sat(n)   == IF n > CounterMax THEN CounterMax ELSE n

NoStats == [running |-> FALSE, count |-> Zero]

Moves(t, from, to) == pc[t] = from /\ pc' = [pc EXCEPT ![t] = to]

(* The locals of process_logs for a batch, before any of it has run. *)
FreshBatch(t, lengths) ==
  /\ logs'     = [logs EXCEPT ![t] = lengths]
  /\ outcomes' = [outcomes EXCEPT ![t] = <<>>]
  /\ results'  = [results EXCEPT ![t] = 0]
  /\ tally'    = [tally EXCEPT ![t] = Zero]
  /\ exact'    = [exact EXCEPT ![t] = Zero]

(* Back in Python: the locals are gone and the GIL is up for grabs. *)
Return(t, how) ==
  /\ pc'     = [pc EXCEPT ![t] = "python"]
  /\ answer' = [answer EXCEPT ![t] = how]
  /\ gil'    = NoThread
  /\ FreshBatch(t, <<>>)

Init ==
  /\ gil = NoThread /\ readers = {} /\ writer = NoThread
  /\ initialized = FALSE /\ started = FALSE /\ counter = Zero
  /\ pc       = [t \in Threads |-> "python"]
  /\ logs     = [t \in Threads |-> <<>>]
  /\ outcomes = [t \in Threads |-> <<>>]
  /\ results  = [t \in Threads |-> 0]
  /\ tally    = [t \in Threads |-> Zero]
  /\ seen     = [t \in Threads |-> NoStats]
  /\ answer   = [t \in Threads |-> "none"]
  /\ exact    = [t \in Threads |-> Zero]
  /\ stale    = [t \in Threads |-> FALSE]
  /\ own = Zero /\ carried = Zero /\ delivered = 0

-----------------------------------------------------------------------------
(* Entering a method: the calling thread is running Python, so it has the    *)
(* GIL.  The locals are the method's fresh ones.                             *)
Enter(t, first, lengths) ==
  /\ gil = NoThread /\ gil' = t
  /\ Moves(t, "python", first)
  /\ FreshBatch(t, lengths)
  /\ seen'     = [seen EXCEPT ![t] = NoStats]
  /\ stale'    = [stale EXCEPT ![t] = FALSE]
  /\ UNCHANGED <<borrows, pipeline, answer, own, carried, delivered>>

CallInitialize(t) == Enter(t, "initialize", <<>>)
CallGetStats(t)   == Enter(t, "get_stats", <<>>)
CallProcessLogs(t, lengths) ==
  /\ delivered + Len(lengths) <= MaxVolume
  /\ Enter(t, "process_logs", lengths)

(* The borrows.  PyO3 takes initialize's and get_stats's from the receiver's *)
(* type, process_logs takes its two by hand; a refused one is raised.        *)
BorrowShared(t, from, to) ==
  /\ pc[t] = from
  /\ IF writer = NoThread
     THEN /\ readers' = readers \union {t}
          /\ pc' = [pc EXCEPT ![t] = to]
          /\ UNCHANGED <<gil, batch, answer>>
     ELSE Return(t, "borrow_error") /\ UNCHANGED readers
  /\ UNCHANGED <<writer, pipeline, seen, history>>

BorrowExclusive(t, from, to) ==
  /\ pc[t] = from
  /\ IF writer = NoThread /\ readers = {}
     THEN /\ writer' = t
          /\ pc' = [pc EXCEPT ![t] = to]
          /\ UNCHANGED <<gil, batch, answer>>
     ELSE Return(t, "borrow_error") /\ UNCHANGED writer
  /\ UNCHANGED <<readers, pipeline, seen, history>>

-----------------------------------------------------------------------------
(* initialize(&mut self)                                                     *)
BorrowForInitialize(t) == BorrowExclusive(t, "initialize", "reset")

ForgetsErrors  == [Zero EXCEPT !["errors"] = counter["errors"]]
FreshCounters  == Zero

Reset(t) ==
  /\ pc[t] = "reset"
  /\ initialized' = TRUE
  /\ counter' = FreshCounters
  /\ started' = TRUE
  /\ writer' = NoThread
  /\ Return(t, "initialized")
  /\ stale' = [u \in Threads |-> u # t]
  /\ own' = Zero /\ carried' = Zero /\ delivered' = 0
  /\ UNCHANGED <<readers, seen>>

-----------------------------------------------------------------------------
(* process_logs(slf, logs, vrl_code)                                         *)
BorrowToCheck(t) == BorrowShared(t, "process_logs", "check")

(* The borrow is a temporary of the condition, dropped with it; held longer  *)
(* it would still be there when the GIL is released.                         *)
KeepsTemporary(t) == UNCHANGED readers
DropsTemporary(t) == readers' = readers \ {t}

CheckInitialized(t) ==
  /\ pc[t] = "check"
  /\ DropsTemporary(t)
  /\ IF initialized
     THEN pc' = [pc EXCEPT ![t] = "detach"] /\ UNCHANGED <<gil, batch, answer>>
     ELSE Return(t, "not_initialized")
  /\ UNCHANGED <<writer, pipeline, seen, history>>

Detach(t) ==
  /\ Moves(t, "detach", "compile")
  /\ gil' = NoThread
  /\ UNCHANGED <<borrows, pipeline, batch, seen, answer, history>>

(* run_events, on the VRL stack: compile once, then each event in turn.  A   *)
(* panic in either resumes on this thread.                                   *)
Compile(t) ==
  /\ \E verdict \in {"evaluate", "compile_error", "panic"} :
       Moves(t, "compile", verdict)
  /\ UNCHANGED <<gil, borrows, pipeline, batch, seen, answer, history>>

RunOver(t) == Len(outcomes[t]) = Len(logs[t])

RunEvent(t) ==
  /\ pc[t] = "evaluate" /\ ~RunOver(t)
  /\ \E result \in {"ok", "error"} :
       outcomes' = [outcomes EXCEPT ![t] = Append(@, result)]
  /\ UNCHANGED <<gil, borrows, pipeline, pc, logs, results, tally, seen, exact,
                 answer, history>>

RunPanics(t) ==
  /\ ~RunOver(t)
  /\ Moves(t, "evaluate", "panic")
  /\ UNCHANGED <<gil, borrows, pipeline, batch, seen, answer, history>>

(* The GIL again: with the outcomes, or to raise. *)
Attach(t) ==
  /\ RunOver(t)
  /\ gil = NoThread /\ gil' = t
  /\ Moves(t, "evaluate", "convert")
  /\ UNCHANGED <<borrows, pipeline, batch, seen, answer, history>>

RaisesCompileErrorOnly(t) ==
  /\ gil = NoThread
  /\ pc[t] = "compile_error"
  /\ Return(t, pc[t])
  /\ UNCHANGED <<borrows, pipeline, seen, history>>

RaiseFailure(t) ==
  /\ gil = NoThread
  /\ pc[t] \in {"compile_error", "panic"}
  /\ Return(t, pc[t])
  /\ UNCHANGED <<borrows, pipeline, seen, history>>

(* One turn of the loop: the tallies first, then the dict, whose conversion  *)
(* may fail and leave the method by `?`.  Bytes are input read, so an event  *)
(* that failed counts its bytes too.                                         *)
BytesOfSuccesses(t, i) == IF outcomes[t][i] = "ok" THEN logs[t][i] ELSE 0
BytesRead(t, i)        == logs[t][i]

Tallied(sums, t, i) ==
  LET field == IF outcomes[t][i] = "ok" THEN "events_processed" ELSE "errors"
  IN  [f \in Fields |-> CASE f = field             -> sums[f] + 1
                          [] f = "bytes_processed" -> sums[f] + BytesRead(t, i)
                          [] OTHER                 -> sums[f]]

Convert(t) ==
  /\ pc[t] = "convert" /\ results[t] < Len(outcomes[t])
  /\ LET sums == Tallied(tally[t], t, results[t] + 1)
     IN  tally' = [tally EXCEPT ![t] = [f \in Fields |-> Sat(sums[f])]]
  /\ exact'   = [exact EXCEPT ![t] = Tallied(@, t, results[t] + 1)]
  /\ results' = [results EXCEPT ![t] = @ + 1]
  /\ UNCHANGED <<gil, borrows, pipeline, pc, logs, outcomes, seen, answer,
                 history>>

ConversionFails(t) ==
  /\ pc[t] = "convert" /\ results[t] < Len(outcomes[t])
  /\ Return(t, "conversion_error")
  /\ UNCHANGED <<borrows, pipeline, seen, history>>

BorrowToAdd(t) ==
  /\ results[t] = Len(outcomes[t])
  /\ BorrowExclusive(t, "convert", "add_processed")

(* this.<field> += <local>, one field at a time. *)
AddTo(t, field) ==
  /\ counter' = [counter EXCEPT ![field] = Sat(@ + tally[t][field])]
  /\ IF stale[t]
     THEN /\ carried' = [carried EXCEPT ![field] = @ + exact[t][field]]
          /\ UNCHANGED own
     ELSE /\ own' = [own EXCEPT ![field] = @ + exact[t][field]]
          /\ UNCHANGED carried
  /\ UNCHANGED <<readers, initialized, started, seen, stale>>

AddProcessed(t) ==
  /\ Moves(t, "add_processed", "add_errors")
  /\ AddTo(t, "events_processed")
  /\ UNCHANGED <<gil, writer, batch, answer, delivered>>

AddErrors(t) ==
  /\ Moves(t, "add_errors", "add_bytes")
  /\ AddTo(t, "errors")
  /\ UNCHANGED <<gil, writer, batch, answer, delivered>>

AddBytes(t) ==
  /\ pc[t] = "add_bytes"
  /\ AddTo(t, "bytes_processed")
  /\ writer' = NoThread
  /\ delivered' = delivered + results[t]
  /\ Return(t, "results")

-----------------------------------------------------------------------------
(* get_stats(&self): the uptime, then the dict's entries in the code's order *)
BorrowForStats(t) == BorrowShared(t, "get_stats", "read_uptime")

ReadUptime(t) ==
  /\ Moves(t, "read_uptime", "read_processed")
  /\ seen' = [seen EXCEPT ![t].running = started]
  /\ UNCHANGED <<gil, borrows, pipeline, batch, answer, history>>

Read(t, field) ==
  /\ seen' = [seen EXCEPT ![t].count[field] = counter[field]]
  /\ UNCHANGED <<writer, pipeline, history>>

ReadProcessed(t) ==
  /\ Moves(t, "read_processed", "read_bytes")
  /\ Read(t, "events_processed")
  /\ UNCHANGED <<gil, readers, batch, answer>>

ReadBytes(t) ==
  /\ Moves(t, "read_bytes", "read_errors")
  /\ Read(t, "bytes_processed")
  /\ UNCHANGED <<gil, readers, batch, answer>>

ReadErrors(t) ==
  /\ pc[t] = "read_errors"
  /\ Read(t, "errors")
  /\ readers' = readers \ {t}
  /\ Return(t, "stats")

-----------------------------------------------------------------------------
Acquire(t) ==
  \/ Attach(t)
  \/ RaiseFailure(t)

Proceed(t) ==
  \/ BorrowForInitialize(t) \/ Reset(t)
  \/ BorrowToCheck(t) \/ CheckInitialized(t) \/ Detach(t)
  \/ Compile(t) \/ RunEvent(t) \/ RunPanics(t)
  \/ Convert(t) \/ ConversionFails(t)
  \/ BorrowToAdd(t) \/ AddProcessed(t) \/ AddErrors(t) \/ AddBytes(t)
  \/ BorrowForStats(t) \/ ReadUptime(t)
  \/ ReadProcessed(t) \/ ReadBytes(t) \/ ReadErrors(t)

Call(t) ==
  \/ CallInitialize(t)
  \/ CallGetStats(t)
  \/ \E lengths \in Batches : CallProcessLogs(t, lengths)

Next == \E t \in Threads : Call(t) \/ Acquire(t) \/ Proceed(t)

(* A thread inside a method runs on: the operating system schedules it, and  *)
(* a VRL program has no unbounded loop.  The GIL is handed to a thread that  *)
(* keeps asking for it (CPython forces a switch after its interval), which a *)
(* thread that finds it free only now and then needs strong fairness for.    *)
Fairness == \A t \in Threads : WF_vars(Proceed(t)) /\ SF_vars(Acquire(t))

Spec == Init /\ [][Next]_vars /\ Fairness

-----------------------------------------------------------------------------
CallerStates == {"python"}
GilStates ==
  {"initialize", "reset", "process_logs", "check", "detach", "convert",
   "add_processed", "add_errors", "add_bytes",
   "get_stats", "read_uptime", "read_processed", "read_bytes", "read_errors"}
DetachedStates == {"compile", "evaluate", "compile_error", "panic"}
Answers ==
  {"none", "initialized", "not_initialized", "compile_error", "panic",
   "conversion_error", "borrow_error", "results", "stats"}

LockType ==
  /\ gil \in Threads \union {NoThread}
  /\ readers \subseteq Threads
  /\ writer \in Threads \union {NoThread}
PipelineType ==
  /\ initialized \in BOOLEAN
  /\ started \in BOOLEAN
  /\ counter \in [Fields -> 0..CounterMax]
CallType ==
  /\ pc \in [Threads -> CallerStates \union GilStates \union DetachedStates]
  /\ answer \in [Threads -> Answers]
  /\ seen \in [Threads -> [running : BOOLEAN, count : [Fields -> 0..CounterMax]]]
BatchType ==
  /\ logs \in [Threads -> Seq(Nat)]
  /\ outcomes \in [Threads -> Seq({"ok", "error"})]
  /\ results \in [Threads -> Nat]
  /\ tally \in [Threads -> [Fields -> 0..CounterMax]]
  /\ exact \in [Threads -> [Fields -> Nat]]
HistoryType ==
  /\ stale \in [Threads -> BOOLEAN]
  /\ own \in [Fields -> Nat]
  /\ carried \in [Fields -> Nat]
  /\ delivered \in Nat

(* The type invariant: every variable stays in its domain; in particular no  *)
(* saturating counter leaves the range of its type.                          *)
TypeOK == LockType /\ PipelineType /\ CallType /\ BatchType /\ HistoryType

(* No call is ever refused a borrow of the pipeline, however the calls of    *)
(* the threads interleave: a method that runs with the GIL holds the only    *)
(* borrow, and process_logs gives its own back before it releases the GIL    *)
(* ("the pipeline is not borrowed while the VRL runs with the GIL released,  *)
(* so another thread may call it meanwhile").                                *)
NoBorrowError == \A t \in Threads : answer[t] # "borrow_error"

(* What batches have added to a counter since the last initialize().         *)
Total(f) == own[f] + carried[f]

(* The counters tell exactly what callers were told: whenever no batch is    *)
(* being added, the events counted as processed or as errors, pegged where   *)
(* a counter pegs, are those whose results were handed to a caller since the *)
(* last initialize() - none lost between two threads, none counted by a call *)
(* that raised, none in both counters.                                       *)
CountersExact ==
  /\ \A f \in Fields :
       counter[f] = IF Total(f) < CounterMax THEN Total(f) ELSE CounterMax
  /\ writer = NoThread =>
       Total("events_processed") + Total("errors") = delivered

(* get_stats() "always describes the run since the most recent initialize()  *)
(* rather than mixing two runs' numbers together" (the comment on            *)
(* initialize): nothing in the counters comes from a batch that was checked  *)
(* before that initialize().                                                 *)
StatsDescribeOneRun == carried = Zero

(* Only initialize() takes a counter down: a saturated counter stays at its  *)
(* maximum and never wraps, and no step of one batch undoes another's.       *)
CountersOnlyGrow ==
  [][(\E f \in Fields : counter'[f] < counter[f]) =>
       \E t \in Threads : Reset(t)]_vars

(* Every call ends: compiled or not, panicking or not, and whatever the      *)
(* other threads keep calling, the thread is back in Python.                 *)
CallsReturn == \A t \in Threads : pc[t] # "python" ~> pc[t] = "python"
=============================================================================
