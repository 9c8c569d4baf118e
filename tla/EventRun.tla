------------------------------ MODULE EventRun ------------------------------
(* One call of execute_vrl, execute_vrl_with_secrets, validate_vrl or        *)
(* get_vrl_performance (vector-bindings/src/lib.rs and secrets.rs): the      *)
(* arguments, the thread on_vrl_stack runs the work on, the program over     *)
(* each event statement by statement, and the answer.  Calls share nothing   *)
(* but the GIL and the enrichment registry, which other modules cover.       *)
EXTENDS Integers, Sequences, Functions

CONSTANTS
  Fields,      \* top-level fields an event may have, "message" one of them
  Texts,       \* every other value: raw events, strings, numbers, secrets
  Programs,    \* what a caller may submit: sequences of statements
  Seeds,       \* the `secrets` argument: maps from keys to texts
  Batches,     \* the `input_data` argument: sequences of raw events
  Iterations,  \* the `iterations` argument
  MaxTotal,    \* MAX_TOTAL_EVENTS
  UsizeMax     \* usize::MAX

(* A field's value is one scalar, or an array or object of which only the    *)
(* scalars it holds matter.  JSON has integers VRL cannot hold: "over" fits  *)
(* u64 but not i64, "beyond" is past u64 or below i64.  A program can make   *)
(* what JSON cannot hold: infinite floats, bytes that are not UTF-8,         *)
(* timestamps and regexes.  "rounded" is a float that was such an integer,   *)
(* "lossy" bytes with U+FFFD in them, "written" a timestamp or regex as      *)
(* text.                                                                     *)
JsonLeaf == Texts \union {"null", "over", "beyond"}
MadeLeaf == Texts \union {"null", "inf", "bytes", "stamp"}
Kinds    == {"null", "over", "beyond", "inf", "bytes", "stamp", "rounded",
             "lossy", "written"}

Nest(leaf) == [nested : BOOLEAN, leaves : SUBSET leaf]
JsonValue  == Nest(JsonLeaf)
Value      == Nest(MadeLeaf \union {"rounded"})

Statements ==
  [op : {"set_secret", "remove_secret", "get_secret", "assign", "replace",
         "require", "abort"},
   key : STRING, text : Texts, field : Fields, value : Nest(MadeLeaf)]

IsRawEvent(raw) ==
  /\ raw.text \in Texts
  /\ \A f \in DOMAIN raw.fields : f \in Fields /\ raw.fields[f] \in JsonValue

ASSUME EventRunAssumption ==
  /\ "message" \in Fields
  /\ Texts \intersect Kinds = {}
  /\ Programs \subseteq Seq(Statements)
  /\ \A seeds \in Seeds : \A k \in DOMAIN seeds : seeds[k] \in Texts
  /\ \A b \in Batches :
       /\ Len(b) \in Nat /\ DOMAIN b = 1..Len(b)
       /\ \A i \in 1..Len(b) : IsRawEvent(b[i])
  /\ Iterations \subseteq Nat
  /\ MaxTotal \in Nat /\ UsizeMax \in Nat /\ MaxTotal < UsizeMax

VARIABLES
  pc,        \* where the calling thread stands
  call,      \* the arguments
  slot,      \* the closure is still in the mutex of on_vrl_stack
  host,      \* the thread that runs it: the caller, "vrl" or none yet
  ran,       \* history: how often the closure was entered
  work,      \* what the closure is doing, or how it ended
  done,      \* events resolved so far
  next,      \* the statement that comes next
  target,    \* EventTarget: the event and its secrets
  outcomes,  \* the EventOutcome of each event
  reply      \* what the call gave its caller

vars == <<pc, call, slot, host, ran, work, done, next, target, outcomes, reply>>

-----------------------------------------------------------------------------
Scalar(x) == [nested |-> FALSE, leaves |-> {x}]

NoFields == [f \in {} |-> Scalar("null")]
NoTarget == [object |-> TRUE, fields |-> NoFields, secrets |-> [k \in {} |-> ""]]

Holds(fields, leaf) == \E f \in DOMAIN fields : leaf \in fields[f].leaves

(* json_to_vrl_value refuses the whole event for one integer that only u64   *)
(* holds.  serde_json has made a float of any integer beyond, and so would   *)
(* as_f64 of one that was not refused.                                       *)
AcceptsAny(raw) == TRUE
Decodes(raw) == raw.json => ~Holds(raw.fields, "over")

OverLeaves == {"over", "beyond"}
Unrounded(value) == value
FromJson(value) ==
  [value EXCEPT !.leaves =
     {IF x \in OverLeaves THEN "rounded" ELSE x : x \in @}]

(* Only text that starts with a brace and parses is an event; the rest is    *)
(* wrapped as `message`.                                                     *)
EventOf(raw) ==
  IF raw.json THEN [f \in DOMAIN raw.fields |-> FromJson(raw.fields[f])]
  ELSE [message |-> Scalar(raw.text)]

(* Each event starts from a copy of the caller's map.                        *)
SharedStore == IF outcomes = <<>> THEN call.seeds
               ELSE outcomes[Len(outcomes)].secrets
SeedStore   == call.seeds

Outcome(result, event, store) ==
  [result |-> result, fields |-> event, secrets |-> store]

-----------------------------------------------------------------------------
(* BTreeMap::insert *)
Put(m, k, v) == [x \in DOMAIN m \union {k} |-> IF x = k THEN v ELSE m[x]]

(* The statements.  get_secret, set_secret and remove_secret never fail; an  *)
(* assignment to a field of what is no longer an object makes it one again.  *)
PutField(t, field, value) ==
  [t EXCEPT !.object = TRUE, !.fields = Put(@, field, value)]

Secret(store, key) ==
  Scalar(IF key \in DOMAIN store THEN store[key] ELSE "null")

GetSecret(s, t)    == PutField(t, s.field, Secret(t.secrets, s.key))
SetSecret(s, t)    == [t EXCEPT !.secrets = Put(@, s.key, s.text)]
RemoveSecret(s, t) == [t EXCEPT !.secrets = Restrict(@, DOMAIN @ \ {s.key})]

After(s, t) ==
  CASE s.op = "set_secret"    -> SetSecret(s, t)
    [] s.op = "remove_secret" -> RemoveSecret(s, t)
    [] s.op = "get_secret"    -> GetSecret(s, t)
    [] s.op = "assign"        -> PutField(t, s.field, s.value)
    [] s.op = "replace"       -> [t EXCEPT !.object = FALSE, !.fields = NoFields]
    [] OTHER                  -> t

(* `abort`, or a function that fails on a field the event does not have.     *)
Terminates(s, t) ==
  \/ s.op = "abort"
  \/ s.op = "require" /\ s.field \notin DOMAIN t.fields

IgnoresInfinity(t) == FALSE
InfiniteFloat(t)   == Holds(t.fields, "inf")

ResultOf(t) ==
  CASE ~t.object        -> "not_an_object"
    [] InfiniteFloat(t) -> "infinite"
    [] OTHER            -> "ok"

-----------------------------------------------------------------------------
(* vrl_value_to_json has no form for an infinite float but null, for bytes   *)
(* but from_utf8_lossy, for timestamps and regexes but their text; a nested  *)
(* value is handed out as its JSON text.                                     *)
ToJson(x) ==
  CASE x = "inf"   -> "null"
    [] x = "bytes" -> "lossy"
    [] x = "stamp" -> "written"
    [] OTHER       -> x
ToPython(value) == [value EXCEPT !.leaves = {ToJson(x) : x \in @}]

(* vrl_outcome_to_py_dict: the event's fields, or `error` and `original`.    *)
DictOf(outcome, raw) ==
  IF outcome.result = "ok"
  THEN [f \in DOMAIN outcome.fields |-> ToPython(outcome.fields[f])]
  ELSE [error |-> Scalar(outcome.result), original |-> Scalar(raw.text)]

(* execute_vrl and execute_vrl_with_secrets differ in what they hand back.   *)
Entry(i) ==
  [event   |-> DictOf(outcomes[i], call.inputs[i]),
   secrets |-> IF call.api = "with_secrets" THEN outcomes[i].secrets
               ELSE NoTarget.secrets]

Reply(kind, entries, total) ==
  [kind |-> kind, entries |-> entries, total |-> total]
NoReply == Reply("none", <<>>, 0)

-----------------------------------------------------------------------------
(* usize::saturating_mul, and the events the closure will resolve.           *)
WrappingProduct(a, b)   == (a * b) % (UsizeMax + 1)
SaturatingProduct(a, b) == IF a * b > UsizeMax THEN UsizeMax ELSE a * b

TotalEvents(c) ==
  CASE c.api = "validate"    -> 0
    [] c.api = "performance" -> SaturatingProduct(Len(c.inputs), c.times)
    [] OTHER                 -> Len(c.inputs)

(* test_data.iter().cycle() *)
Input(i) == call.inputs[(i % Len(call.inputs)) + 1]

NoCall == [api |-> "none", program |-> <<>>, inputs |-> <<>>,
           seeds |-> NoTarget.secrets, times |-> 0]

Init ==
  /\ pc = "python" /\ call = NoCall
  /\ slot = FALSE /\ host = "none" /\ ran = 0 /\ work = "none"
  /\ done = 0 /\ next = 1 /\ target = NoTarget /\ outcomes = <<>>
  /\ reply = NoReply

(* Only get_vrl_performance is capped; a refused call runs nothing.          *)
Begin(c) ==
  /\ pc = "python"
  /\ call' = c
  /\ ran' = 0 /\ done' = 0 /\ next' = 1 /\ target' = NoTarget /\ outcomes' = <<>>
  /\ host' = "none"
  /\ IF c.api = "performance" /\ TotalEvents(c) > MaxTotal
     THEN /\ reply' = Reply("refused", <<>>, 0)
          /\ work' = "none" /\ slot' = FALSE
          /\ UNCHANGED pc
     ELSE /\ reply' = NoReply
          /\ work' = "ready" /\ slot' = TRUE
          /\ pc' = "spawn"

Execute ==
  \E api \in {"execute", "with_secrets"}, p \in Programs, b \in Batches,
     s \in Seeds :
    Begin([NoCall EXCEPT !.api = api, !.program = p, !.inputs = b, !.seeds = s])

Validate ==
  \E p \in Programs : Begin([NoCall EXCEPT !.api = "validate", !.program = p])

Performance ==
  \E p \in Programs, b \in Batches, n \in Iterations :
    Begin([NoCall EXCEPT !.api = "performance", !.program = p, !.inputs = b,
                         !.times = n])

-----------------------------------------------------------------------------
(* on_vrl_stack: the closure waits in a mutex so that the caller can run it  *)
(* itself when the thread with the large stack cannot be had.                *)
SpawnThread ==
  /\ pc = "spawn" /\ pc' = "join" /\ host' = "vrl"
  /\ UNCHANGED <<call, slot, ran, work, done, next, target, outcomes, reply>>

SpawnTakesWork ==
  /\ pc = "spawn" /\ pc' = "join" /\ host' = "caller" /\ slot' = FALSE
  /\ UNCHANGED <<call, ran, work, done, next, target, outcomes, reply>>

SpawnFails ==
  /\ pc = "spawn" /\ pc' = "join" /\ host' = "caller"
  /\ UNCHANGED <<call, slot, ran, work, done, next, target, outcomes, reply>>

TakeWork ==
  /\ host # "none" /\ work = "ready"
  /\ slot' = FALSE
  /\ IF slot THEN work' = "compile" /\ ran' = ran + 1
             ELSE work' = "nothing" /\ UNCHANGED ran
  /\ UNCHANGED <<pc, call, host, done, next, target, outcomes, reply>>

(* The scope waits for the thread; a panic resumes on the caller, and        *)
(* `expect` panics if the closure was already gone.                          *)
LosesPanics == {"done", "compile_error", "nothing"}
Ends == {"done", "compile_error", "panic", "nothing"}

Join ==
  /\ pc = "join" /\ work \in Ends
  /\ pc' = "attach"
  /\ UNCHANGED <<call, slot, host, ran, work, done, next, target, outcomes, reply>>

-----------------------------------------------------------------------------
Compile ==
  /\ work = "compile"
  /\ \E verdict \in {"events", "compile_error", "panic"} : work' = verdict
  /\ UNCHANGED <<pc, call, slot, host, ran, done, next, target, outcomes, reply>>

Pending == work = "events" /\ done < TotalEvents(call)

(* execute_vrl_on_event, up to the program's first statement. *)
StartEvent ==
  /\ Pending /\ Decodes(Input(done))
  /\ target' = [object |-> TRUE, fields |-> EventOf(Input(done)),
                secrets |-> SeedStore]
  /\ next' = 1
  /\ work' = "resolve"
  /\ UNCHANGED <<pc, call, slot, host, ran, done, outcomes, reply>>

(* get_vrl_performance drops each outcome. *)
EndEvent(result, event, store) ==
  /\ work' = "events"
  /\ done' = done + 1
  /\ outcomes' = IF call.api = "performance" THEN outcomes
                 ELSE Append(outcomes, Outcome(result, event, store))
  /\ UNCHANGED <<pc, call, slot, host, ran, next, target, reply>>

RefuseEvent ==
  /\ Pending /\ ~Decodes(Input(done))
  /\ EndEvent("out_of_range", NoFields, SeedStore)

Resolving == work = "resolve" /\ next <= Len(call.program)

Statement ==
  /\ Resolving
  /\ ~Terminates(call.program[next], target)
  /\ target' = After(call.program[next], target)
  /\ next' = next + 1
  /\ UNCHANGED <<pc, call, slot, host, ran, work, done, outcomes, reply>>

(* A failed event still reports the secrets as they stand. *)
Terminate ==
  /\ Resolving
  /\ Terminates(call.program[next], target)
  /\ EndEvent("terminated", NoFields, target.secrets)

Resolved ==
  /\ work = "resolve" /\ next > Len(call.program)
  /\ EndEvent(ResultOf(target),
              IF ResultOf(target) = "ok" THEN target.fields ELSE NoFields,
              target.secrets)

Panics ==
  /\ Pending \/ Resolving
  /\ work' = "panic"
  /\ UNCHANGED <<pc, call, slot, host, ran, done, next, target, outcomes, reply>>

AllResolved ==
  /\ work = "events" /\ done >= TotalEvents(call)
  /\ work' = "done"
  /\ UNCHANGED <<pc, call, slot, host, ran, done, next, target, outcomes, reply>>

-----------------------------------------------------------------------------
(* The GIL again.  A compile error is raised, except by validate_vrl.        *)
Answer(r) ==
  /\ pc = "attach" /\ pc' = "python"
  /\ reply' = r
  /\ UNCHANGED <<call, slot, host, ran, work, done, next, target, outcomes>>

Deliver ==
  /\ work = "done"
  /\ Answer(CASE call.api = "validate"    -> Reply("valid", <<>>, 0)
              [] call.api = "performance" -> Reply("metrics", <<>>, TotalEvents(call))
              [] OTHER -> Reply("events", [i \in DOMAIN outcomes |-> Entry(i)], 0))

Raise ==
  /\ work # "done"
  /\ Answer(IF work = "compile_error" /\ call.api = "validate"
            THEN Reply("invalid", <<>>, 0) ELSE Reply(work, <<>>, 0))

ConversionFails ==
  /\ work = "done" /\ call.api # "validate"
  /\ Answer(Reply("conversion_error", <<>>, 0))

-----------------------------------------------------------------------------
OnVrlStack ==
  \/ TakeWork \/ Compile
  \/ StartEvent \/ RefuseEvent \/ Statement \/ Terminate \/ Resolved
  \/ Panics \/ AllResolved

Caller ==
  \/ SpawnThread \/ SpawnFails \/ Join
  \/ Deliver \/ Raise \/ ConversionFails

Next == Execute \/ Validate \/ Performance \/ Caller \/ OnVrlStack

(* The operating system schedules both threads; whether a thread can be had, *)
(* the program compiles or an event panics is not a matter of fairness.      *)
Spec == Init /\ [][Next]_vars /\ WF_vars(Caller) /\ WF_vars(OnVrlStack)

-----------------------------------------------------------------------------
(* The type invariant: what each variable may hold, sequences and partial    *)
(* maps by their elements; no event under the program holds a JSON integer   *)
(* that VRL has no form for.                                                 *)
TypeOK ==
  /\ pc \in {"python", "spawn", "join", "attach"}
  /\ slot \in BOOLEAN
  /\ host \in {"none", "caller", "vrl"}
  /\ ran \in Nat /\ done \in Nat /\ next \in Nat
  /\ work \in {"none", "ready", "compile", "events", "resolve"} \union Ends
  /\ \A f \in DOMAIN target.fields : f \in Fields /\ target.fields[f] \in Value
  /\ \A k \in DOMAIN target.secrets : target.secrets[k] \in Texts
  /\ \A i \in DOMAIN outcomes :
       outcomes[i].result \in {"ok", "out_of_range", "terminated", "infinite",
                              "not_an_object"}

(* "The work closure runs exactly once" (the `expect` of on_vrl_stack): the  *)
(* thread can be had or not, and the program may panic, but the closure is   *)
(* never gone when its host looks for it, and a call that comes back has     *)
(* entered it once.                                                          *)
WorkRunsOnce ==
  /\ work # "nothing"
  /\ ran <= 1
  /\ pc = "attach" => ran = 1 /\ ~slot

(* What the program does to one event, read off its text.  Index k stands    *)
(* for "when statement k is about to run".                                   *)
Before(p, k, ops) == {j \in DOMAIN p : j < k /\ p[j].op \in ops}
Latest(S) == CHOOSE j \in S : \A i \in S : i <= j

WritesTo(p, k, f) ==
  {j \in Before(p, k, {"assign", "get_secret"}) : p[j].field = f}
Present(p, k, raw, f) ==
  LET resets == Before(p, k, {"replace"})
  IN  \/ \E w \in WritesTo(p, k, f) : \A r \in resets : r < w
      \/ resets = {} /\ f \in DOMAIN EventOf(raw)

Stops(p, k, raw) ==
  \/ p[k].op = "abort"
  \/ p[k].op = "require" /\ ~Present(p, k, raw, p[k].field)
End(p, raw) ==
  IF ~Decodes(raw) THEN 1
  ELSE CHOOSE k \in 1..Len(p) + 1 :
         /\ \A j \in 1..k - 1 : ~Stops(p, j, raw)
         /\ k <= Len(p) => Stops(p, k, raw)

SecretWrites(p, k, key) ==
  {j \in Before(p, k, {"set_secret", "remove_secret"}) : p[j].key = key}
SecretIsSet(p, k, seeds, key) ==
  IF SecretWrites(p, k, key) = {} THEN key \in DOMAIN seeds
  ELSE p[Latest(SecretWrites(p, k, key))].op = "set_secret"
SecretSet(p, k, seeds, key) ==
  IF SecretWrites(p, k, key) = {} THEN seeds[key]
  ELSE p[Latest(SecretWrites(p, k, key))].text

OwnOutcome(o, raw) ==
  LET p == call.program
      k == End(p, raw)
  IN  /\ o.result = "out_of_range" <=> ~Decodes(raw)
      /\ o.result = "terminated"   <=> Decodes(raw) /\ k <= Len(p)
      /\ \A key \in DOMAIN o.secrets \union DOMAIN call.seeds
                     \union {p[j].key : j \in DOMAIN p} :
           /\ key \in DOMAIN o.secrets <=> SecretIsSet(p, k, call.seeds, key)
           /\ key \in DOMAIN o.secrets =>
                o.secrets[key] = SecretSet(p, k, call.seeds, key)

(* "Secrets are per-event: each input starts from the same `secrets`         *)
(* argument, and one event's set_secret is invisible to the next", and a     *)
(* failed event reports them "as they stood when the program failed": each   *)
(* outcome is the one the program's text and that event alone determine, in  *)
(* the order of the input.                                                   *)
OutcomesAreTheEventsOwn ==
  \A i \in DOMAIN outcomes : OwnOutcome(outcomes[i], call.inputs[i])

(* What a value that was sent may look like when it arrives.                 *)
Arrived(got, sent) ==
  /\ got.nested = sent.nested
  /\ {"over", "inf"} \intersect sent.leaves = {}
  /\ \A x \in Texts \union {"null"} : x \in got.leaves <=> x \in sent.leaves
  /\ "rounded" \in got.leaves <=> "beyond" \in sent.leaves
  /\ "lossy" \in got.leaves <=> "bytes" \in sent.leaves
  /\ "written" \in got.leaves <=> "stamp" \in sent.leaves

SentAs(raw, f) == IF raw.json THEN raw.fields[f] ELSE Scalar(raw.text)

(* Only the losses the code admits: an answer has a dict for each event of   *)
(* the input, and in that of an event that did not fail, a field the program *)
(* left alone is what the input had, an assigned one what was assigned last, *)
(* one read from a secret the event's own secret as it stood at that         *)
(* statement.  On the way, an integer past u64 "still arrives rounded" and   *)
(* one that fits u64 never does ("Rejected rather than rounded to a float"); *)
(* bytes that are not UTF-8 are replaced, timestamps and regexes become      *)
(* text; null is never what an infinity has become ("no JSON form": the      *)
(* event fails instead).                                                     *)
OnlyKnownLosses ==
  /\ reply.kind = "events" => DOMAIN reply.entries = DOMAIN call.inputs
  /\ \A i \in DOMAIN reply.entries : outcomes[i].result = "ok" =>
       LET p    == call.program
           raw  == call.inputs[i]
           dict == reply.entries[i].event
           k    == Len(p) + 1
       IN  \A f \in Fields :
             /\ f \in DOMAIN dict <=> Present(p, k, raw, f)
             /\ Before(p, k, {"replace"}) = {} /\ f \in DOMAIN dict =>
                  IF WritesTo(p, k, f) = {}
                  THEN Arrived(dict[f], SentAs(raw, f))
                  ELSE LET s == p[Latest(WritesTo(p, k, f))]
                           w == Latest(WritesTo(p, k, f))
                       IN  IF s.op = "assign" THEN Arrived(dict[f], s.value)
                           ELSE dict[f] =
                             IF SecretIsSet(p, w, call.seeds, s.key)
                             THEN Scalar(SecretSet(p, w, call.seeds, s.key))
                             ELSE Scalar("null")

(* "Both factors are caller-controlled, so cap the product": metrics are     *)
(* handed out for exactly as many events as were resolved, never more than   *)
(* the limit, and only a request beyond it is refused, however large its     *)
(* factors are.                                                              *)
MetricsCountTheWork ==
  LET asked == Len(call.inputs) * call.times
  IN  /\ reply.kind = "metrics" =>
           reply.total = asked /\ done = asked /\ asked <= MaxTotal
      /\ reply.kind = "refused" => asked > MaxTotal

(* Every call returns to Python, with or without the thread it asked for,    *)
(* and whether its program compiles, fails on an event or panics.            *)
CallsReturn == pc # "python" ~> pc = "python"
=============================================================================
