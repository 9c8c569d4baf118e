--------------------------- MODULE PipelineStats ---------------------------
(* Class Vector as its callers see it: the mapping under which               *)
(* VectorPipeline implements RunStats.  A call takes effect in the step that *)
(* returns from it, so a batch being added field by field counts only then.  *)
EXTENDS VectorPipeline

CONSTANT Bytes   \* the bytes of each batch: the sum of its log lengths

(* The sums of the first 0, 1, .. logs of a batch, up to all of them. *)
IsSums(sums, lengths) ==
  /\ sums[0] = 0 /\ sums[Len(lengths)] = Bytes[lengths]
  /\ \A i \in 1..Len(lengths) : sums[i] = sums[i - 1] + lengths[i]

Submitted == Batches \union {<<>>}

ASSUME BytesAssumption ==
  \A lengths \in Submitted :
    /\ Bytes[lengths] \in Nat
    /\ \E sums \in [0..Len(lengths) -> 0..Bytes[lengths]] : IsSums(sums, lengths)

-----------------------------------------------------------------------------
(* The call a thread at this place is in.                                    *)
CallAt(place) ==
  CASE place = "python"                  -> "none"
    [] place \in {"initialize", "reset"} -> "initialize"
    [] place \in {"get_stats", "read_uptime", "read_processed", "read_bytes",
                  "read_errors"}         -> "get_stats"
    [] place \in {"process_logs", "check", "detach", "convert", "add_processed",
                  "add_errors", "add_bytes"} \union DetachedStates -> "process_logs"

SizeOf(lengths) == [events |-> Len(lengths), bytes |-> Bytes[lengths]]

(* The fields the thread that is adding its batch, the one with the          *)
(* exclusive borrow, has added so far, and the totals without them.          *)
AddedAt(place) ==
  CASE place = "add_errors" -> {"events_processed"}
    [] place = "add_bytes"  -> {"events_processed", "errors"}
    [] OTHER                -> {}

Pending(f) ==
  IF writer \in Threads /\ f \in AddedAt(pc[writer]) THEN exact[writer][f] ELSE 0

Settled(f) == Total(f) - Pending(f)

Kind(how) ==
  IF how \in {"none", "initialized", "results", "stats"} THEN how ELSE "raised"

Reply(t) ==
  IF pc[t] = "python"
  THEN [kind |-> Kind(answer[t]), running |-> seen[t].running, count |-> seen[t].count]
  ELSE [kind |-> "none", running |-> FALSE, count |-> Zero]

TotalsOf  == [f \in Fields |-> Sat(Settled(f))]
CallsOf   == [t \in Threads |-> CallAt(pc[t])]
SizesOf   == [t \in Threads |-> SizeOf(logs[t])]
RepliesOf == [t \in Threads |-> Reply(t)]

Stats == INSTANCE RunStats WITH
  Sizes <- {SizeOf(lengths) : lengths \in Batches},
  ready <- initialized, total <- TotalsOf, calls <- CallsOf,
  size <- SizesOf, reply <- RepliesOf

(* The pipeline's methods are linearizable: each returns as if the whole     *)
(* call had happened at its last step, the three counters of a batch         *)
(* together, never a get_stats() between them, and a call that raises, for   *)
(* whatever reason, without effect.                                          *)
ImplementsRunStats == Stats!Spec
=============================================================================
