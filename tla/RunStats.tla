------------------------------ MODULE RunStats ------------------------------
(* What class Vector promises its callers: initialize, process_logs and      *)
(* get_stats are atomic operations on three totals, however many threads     *)
(* call them at once.  A call takes effect as a whole when it returns, or,   *)
(* when it raises, has no effect.                                            *)
EXTENDS Integers

CONSTANTS Threads, Fields, Sizes, CounterMax

VARIABLES
  ready,   \* the pipeline was initialized
  total,   \* the totals since then, pegged at CounterMax
  calls,   \* the operation each thread is in, or "none"
  size,    \* the batch a thread submitted: its events and its bytes
  reply    \* what a thread's last call gave it

vars == <<ready, total, calls, size, reply>>

Zero    == [f \in Fields |-> 0]
Peg(n)  == IF n > CounterMax THEN CounterMax ELSE n
NoBatch == [events |-> 0, bytes |-> 0]
Told(kind) == [kind |-> kind, running |-> FALSE, count |-> Zero]
Nothing == Told("none")

Init ==
  /\ ready = FALSE /\ total = Zero
  /\ calls = [t \in Threads |-> "none"]
  /\ size = [t \in Threads |-> NoBatch]
  /\ reply = [t \in Threads |-> Nothing]

Invoke(t, operation) ==
  /\ calls[t] = "none"
  /\ calls' = [calls EXCEPT ![t] = operation]
  /\ \E n \in Sizes \union {NoBatch} : size' = [size EXCEPT ![t] = n]
  /\ reply' = [reply EXCEPT ![t] = Nothing]
  /\ UNCHANGED <<ready, total>>

Answer(t, r) ==
  /\ calls' = [calls EXCEPT ![t] = "none"]
  /\ reply' = [reply EXCEPT ![t] = r]
  /\ size' = [size EXCEPT ![t] = NoBatch]

Initialize(t) ==
  /\ calls[t] = "initialize"
  /\ ready' = TRUE /\ total' = Zero
  /\ Answer(t, Told("initialized"))

(* Every event of the batch in one of the two event counters, all its bytes. *)
Process(t) ==
  /\ calls[t] = "process_logs" /\ ready
  /\ \E good \in 0..size[t].events :
       total' = [total EXCEPT
                   !["events_processed"] = Peg(@ + good),
                   !["errors"]           = Peg(@ + (size[t].events - good)),
                   !["bytes_processed"]  = Peg(@ + size[t].bytes)]
  /\ Answer(t, Told("results"))
  /\ UNCHANGED ready

Raise(t) ==
  /\ calls[t] = "process_logs"
  /\ Answer(t, Told("raised"))
  /\ UNCHANGED <<ready, total>>

GetStats(t) ==
  /\ calls[t] = "get_stats"
  /\ Answer(t, [kind |-> "stats", running |-> ready, count |-> total])
  /\ UNCHANGED <<ready, total>>

Next ==
  \E t \in Threads :
    \/ \E op \in {"initialize", "process_logs", "get_stats"} : Invoke(t, op)
    \/ Initialize(t) \/ Process(t) \/ Raise(t) \/ GetStats(t)

Spec == Init /\ [][Next]_vars
=============================================================================
