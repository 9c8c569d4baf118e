--------------------------- MODULE EventRunProofs ---------------------------
(* Proofs about EventRun, for any events, programs, seeds and limits: the    *)
(* closure runs once, the metrics count the work, and what an event reports  *)
(* is what the program's text makes of that event and the seeds alone.       *)
EXTENDS EventRun, TLAPS

-----------------------------------------------------------------------------
(* Reading the program's text: what changes between statement k and the one  *)
(* after it.                                                                 *)

(* The statements before k + 1 are those before k, and k itself.             *)
LEMMA BeforeNext ==
  ASSUME NEW p \in Seq(Statements), NEW k \in 1..Len(p), NEW ops
  PROVE  Before(p, k + 1, ops) =
           Before(p, k, ops) \union (IF p[k].op \in ops THEN {k} ELSE {})
  BY DEF Before

(* No statement comes before the first.                                      *)
LEMMA BeforeFirst ==
  ASSUME NEW p \in Seq(Statements), NEW ops
  PROVE  Before(p, 1, ops) = {}
  BY DEF Before

(* Latest picks the largest index.                                           *)
LEMMA LatestIs ==
  ASSUME NEW S \in SUBSET Nat, NEW k \in S, \A i \in S : i <= k
  PROVE  Latest(S) = k
  <1>1. \A j \in S : (\A i \in S : i <= j) => j = k
    OBVIOUS
  <1>2. QED  BY <1>1 DEF Latest

(* A secret's last write, over one more statement.                           *)
LEMMA SecretNext ==
  ASSUME NEW p \in Seq(Statements), NEW k \in 1..Len(p), NEW seeds, NEW key
  PROVE  IF p[k].op \in {"set_secret", "remove_secret"} /\ p[k].key = key
         THEN /\ SecretIsSet(p, k + 1, seeds, key) <=> p[k].op = "set_secret"
              /\ SecretSet(p, k + 1, seeds, key) = p[k].text
         ELSE /\ SecretIsSet(p, k + 1, seeds, key) <=> SecretIsSet(p, k, seeds, key)
              /\ SecretSet(p, k + 1, seeds, key) = SecretSet(p, k, seeds, key)
  <1> DEFINE W == SecretWrites(p, k, key)
             V == SecretWrites(p, k + 1, key)
             hit == p[k].op \in {"set_secret", "remove_secret"} /\ p[k].key = key
  <1>1. V = W \union (IF hit THEN {k} ELSE {})
    <2> DEFINE ops  == {"set_secret", "remove_secret"}
               B(n) == Before(p, n, ops)
    <2>1. B(k + 1) = B(k) \union (IF p[k].op \in ops THEN {k} ELSE {})
      BY BeforeNext
    <2>2. V = {j \in B(k + 1) : p[j].key = key} /\ W = {j \in B(k) : p[j].key = key}
      BY DEF SecretWrites
    <2> HIDE DEF B, V, W, ops
    <2>3. V = W \union (IF p[k].op \in ops /\ p[k].key = key THEN {k} ELSE {})
      BY <2>1, <2>2
    <2>4. QED  BY <2>3 DEF ops
  <1>2. CASE hit
    <2>1. W \subseteq 1..k - 1
      BY DEF SecretWrites, Before
    <2>2. V # {} /\ Latest(V) = k
      <3>1. V \in SUBSET Nat /\ k \in V /\ \A i \in V : i <= k
        BY <1>1, <1>2, <2>1
      <3> HIDE DEF V
      <3>2. QED  BY <3>1, LatestIs
    <2>3. QED  BY <1>2, <2>2 DEF SecretIsSet, SecretSet
  <1>3. CASE ~hit
    <2>1. V = W
      BY <1>1, <1>3
    <2>2. QED  BY <1>3, <2>1 DEF SecretIsSet, SecretSet
  <1>4. QED  BY <1>2, <1>3

(* Before the program runs, the secrets are the seeds.                       *)
LEMMA SecretFirst ==
  ASSUME NEW p \in Seq(Statements), NEW seeds, NEW key
  PROVE  /\ SecretIsSet(p, 1, seeds, key) <=> key \in DOMAIN seeds
         /\ SecretSet(p, 1, seeds, key) = seeds[key]
  BY BeforeFirst DEF SecretIsSet, SecretSet, SecretWrites

(* Whether the event has a field, over one more statement.                   *)
LEMMA PresentNext ==
  ASSUME NEW p \in Seq(Statements), NEW k \in 1..Len(p), NEW raw, NEW f
  PROVE  Present(p, k + 1, raw, f) <=>
           CASE p[k].op = "replace" -> FALSE
             [] p[k].op \in {"assign", "get_secret"} /\ p[k].field = f -> TRUE
             [] OTHER -> Present(p, k, raw, f)
  <1> DEFINE R(n) == Before(p, n, {"replace"})
             W(n) == WritesTo(p, n, f)
  <1>1. R(k + 1) = R(k) \union (IF p[k].op = "replace" THEN {k} ELSE {})
    BY BeforeNext
  <1>2. W(k + 1) = W(k) \union
          (IF p[k].op \in {"assign", "get_secret"} /\ p[k].field = f THEN {k} ELSE {})
    BY BeforeNext DEF WritesTo
  <1>3. R(k) \subseteq 1..k - 1 /\ W(k) \subseteq 1..k - 1
    BY DEF WritesTo, Before
  <1>4. \A n : Present(p, n, raw, f) <=>
                 \/ \E w \in W(n) : \A r \in R(n) : r < w
                 \/ R(n) = {} /\ f \in DOMAIN EventOf(raw)
    BY DEF Present
  <1> HIDE DEF R, W
  <1>5. CASE p[k].op = "replace"
    <2>1. k \in R(k + 1) /\ \A w \in W(k + 1) : ~(k < w)
      BY <1>1, <1>2, <1>3, <1>5
    <2>2. QED  BY <2>1, <1>4, <1>5
  <1>6. CASE p[k].op \in {"assign", "get_secret"} /\ p[k].field = f
    <2>1. k \in W(k + 1) /\ \A r \in R(k + 1) : r < k
      BY <1>1, <1>2, <1>3, <1>6
    <2>2. QED  BY <2>1, <1>4, <1>6
  <1>7. CASE ~(p[k].op = "replace") /\
             ~(p[k].op \in {"assign", "get_secret"} /\ p[k].field = f)
    <2>1. R(k + 1) = R(k) /\ W(k + 1) = W(k)
      BY <1>1, <1>2, <1>7
    <2>2. QED  BY <2>1, <1>4, <1>7
  <1>8. QED  BY <1>5, <1>6, <1>7

(* Before the program runs, the event has the fields it came with.           *)
LEMMA PresentFirst ==
  ASSUME NEW p \in Seq(Statements), NEW raw, NEW f
  PROVE  Present(p, 1, raw, f) <=> f \in DOMAIN EventOf(raw)
  BY BeforeFirst DEF Present, WritesTo

(* The statement at which nothing has stopped the program before, and which  *)
(* stops it or is past its end, is the one at which it ends.                 *)
LEMMA EndIs ==
  ASSUME NEW p \in Seq(Statements), NEW raw, Decodes(raw),
         NEW k \in 1..Len(p) + 1,
         \A j \in 1..k - 1 : ~Stops(p, j, raw),
         k <= Len(p) => Stops(p, k, raw)
  PROVE  End(p, raw) = k
  <1> DEFINE Is(n) == /\ \A j \in 1..n - 1 : ~Stops(p, j, raw)
                      /\ n <= Len(p) => Stops(p, n, raw)
  <1>1. \A n \in 1..Len(p) + 1 : Is(n) => n = k
    <2> SUFFICES ASSUME NEW n \in 1..Len(p) + 1, Is(n) PROVE n = k
      OBVIOUS
    <2>1. ~(n < k)
      <3> SUFFICES ASSUME n < k PROVE FALSE
        OBVIOUS
      <3>1. n \in 1..k - 1 /\ n <= Len(p)
        OBVIOUS
      <3>2. QED  BY <3>1
    <2>2. ~(k < n)
      <3> SUFFICES ASSUME k < n PROVE FALSE
        OBVIOUS
      <3>1. k \in 1..n - 1 /\ k <= Len(p)
        OBVIOUS
      <3>2. QED  BY <3>1
    <2>3. QED  BY <2>1, <2>2
  <1>2. Is(k)
    OBVIOUS
  <1>3. End(p, raw) = CHOOSE n \in 1..Len(p) + 1 : Is(n)
    BY DEF End
  <1> HIDE DEF Is
  <1>4. QED  BY <1>1, <1>2, <1>3

-----------------------------------------------------------------------------
(* The inductive invariant, in parts: the arguments are what a caller may    *)
(* pass, ...                                                                 *)
CallOK ==
  /\ call.program \in Seq(Statements)
  /\ Len(call.inputs) \in Nat /\ DOMAIN call.inputs = 1..Len(call.inputs)
  /\ \A i \in 1..Len(call.inputs) : IsRawEvent(call.inputs[i])
  /\ \A k \in DOMAIN call.seeds : call.seeds[k] \in Texts
  /\ call.times \in Nat

(* ... the closure is in its slot until its host enters it, and a caller     *)
(* that is past the join finds it ended, ...                                 *)
Once ==
  /\ slot <=> work = "ready"
  /\ work = "ready" => ran = 0
  /\ work = "none" => ran = 0
  /\ work \notin {"none", "ready"} => ran = 1
  /\ work # "nothing"
  /\ pc = "spawn" => work = "ready" /\ host = "none"
  /\ pc = "join" => work # "none"
  /\ pc = "attach" => work \in Ends
  /\ pc = "python" => work \in Ends \union {"none"}

(* ... it resolves one event after the other, up to the number it was asked  *)
(* for, ...                                                                  *)
Asked == Len(call.inputs) * call.times

Counting ==
  /\ done <= TotalEvents(call)
  /\ work = "resolve" => done < TotalEvents(call)
  /\ work = "done" => done = TotalEvents(call)
  /\ \E S : outcomes \in Seq(S)
  /\ Len(outcomes) = IF call.api = "performance" THEN 0 ELSE done
  /\ call.api = "performance" /\ work # "none" =>
       Asked <= MaxTotal /\ TotalEvents(call) = Asked
  /\ reply.kind = "metrics" =>
       /\ pc = "python" /\ work = "done" /\ call.api = "performance"
       /\ reply.total = TotalEvents(call)
  /\ reply.kind = "refused" => Asked > MaxTotal

(* ... and while a program runs, the target is what its text makes of the    *)
(* event and the seeds.                                                      *)
Shape == DOMAIN target = {"object", "fields", "secrets"}

Follows ==
  work = "resolve" =>
    LET p   == call.program
        raw == Input(done)
    IN  /\ next \in 1..Len(p) + 1
        /\ Decodes(raw)
        /\ \A j \in 1..next - 1 : ~Stops(p, j, raw)
        /\ \A f : f \in DOMAIN target.fields <=> Present(p, next, raw, f)
        /\ \A key :
             /\ key \in DOMAIN target.secrets <=>
                  SecretIsSet(p, next, call.seeds, key)
             /\ key \in DOMAIN target.secrets =>
                  target.secrets[key] = SecretSet(p, next, call.seeds, key)

IInv ==
  /\ TypeOK /\ CallOK /\ Once /\ Counting
  /\ Shape /\ Follows /\ OutcomesAreTheEventsOwn

(* The product that saturates is below a limit exactly when the true one is. *)
LEMMA Saturation ==
  ASSUME NEW a \in Nat, NEW b \in Nat
  PROVE  /\ a * b \in Nat
         /\ SaturatingProduct(a, b) \in Nat
         /\ SaturatingProduct(a, b) > MaxTotal => a * b > MaxTotal
         /\ SaturatingProduct(a, b) <= MaxTotal =>
              a * b <= MaxTotal /\ SaturatingProduct(a, b) = a * b
  <1>1. a * b \in Nat
    OBVIOUS
  <1>2. QED  BY <1>1, EventRunAssumption DEF SaturatingProduct

(* The number of events to resolve is a number.                              *)
LEMMA TotalIsNat ==
  ASSUME CallOK
  PROVE  TotalEvents(call) \in Nat
  BY Saturation DEF CallOK, TotalEvents

(* Initially nothing has been called.                                        *)
LEMMA InitIInv == Init => IInv
  <1> SUFFICES ASSUME Init PROVE IInv
    OBVIOUS
  <1> USE EventRunAssumption DEF Init, NoCall, NoTarget, NoFields, NoReply, Reply
  <1>1. TypeOK
    <2>1. DOMAIN outcomes = {} /\ DOMAIN target.fields = {} /\ DOMAIN target.secrets = {}
      OBVIOUS
    <2>2. QED  BY <2>1 DEF TypeOK
  <1>2. CallOK
    BY DEF CallOK
  <1>3. Once
    BY DEF Once
  <1>4. Counting
    <2>1. <<>> \in Seq({}) /\ Len(<<>>) = 0
      OBVIOUS
    <2>2. TotalEvents(call) = 0
      BY <2>1 DEF TotalEvents
    <2>3. QED  BY <2>1, <2>2 DEF Counting
  <1>5. Shape
    BY DEF Shape
  <1>6. Follows
    BY DEF Follows
  <1>7. OutcomesAreTheEventsOwn
    BY DEF OutcomesAreTheEventsOwn
  <1>8. QED  BY <1>1, <1>2, <1>3, <1>4, <1>5, <1>6, <1>7 DEF IInv

(* A call begins with arguments a caller may pass.                           *)
LEMMA BeginWith ==
  ASSUME Execute \/ Validate \/ Performance
  PROVE  \E c : /\ Begin(c)
                /\ c.program \in Seq(Statements)
                /\ Len(c.inputs) \in Nat /\ DOMAIN c.inputs = 1..Len(c.inputs)
                /\ \A i \in 1..Len(c.inputs) : IsRawEvent(c.inputs[i])
                /\ \A k \in DOMAIN c.seeds : c.seeds[k] \in Texts
                /\ c.times \in Nat
  <1> USE EventRunAssumption DEF NoCall, NoTarget, NoFields
  <1>1. CASE Execute
    <2>1. PICK api \in {"execute", "with_secrets"}, p \in Programs,
               b \in Batches, s \in Seeds :
            Begin([NoCall EXCEPT !.api = api, !.program = p, !.inputs = b,
                                 !.seeds = s])
      BY <1>1 DEF Execute
    <2>2. WITNESS [NoCall EXCEPT !.api = api, !.program = p, !.inputs = b,
                                 !.seeds = s]
    <2>3. QED  BY <2>1
  <1>2. CASE Validate
    <2>1. PICK p \in Programs :
            Begin([NoCall EXCEPT !.api = "validate", !.program = p])
      BY <1>2 DEF Validate
    <2>2. WITNESS [NoCall EXCEPT !.api = "validate", !.program = p]
    <2>3. QED  BY <2>1
  <1>3. CASE Performance
    <2>1. PICK p \in Programs, b \in Batches, n \in Iterations :
            Begin([NoCall EXCEPT !.api = "performance", !.program = p,
                                 !.inputs = b, !.times = n])
      BY <1>3 DEF Performance
    <2>2. WITNESS [NoCall EXCEPT !.api = "performance", !.program = p,
                                 !.inputs = b, !.times = n]
    <2>3. QED  BY <2>1
  <1>4. QED  BY <1>1, <1>2, <1>3

(* A call that begins has the invariant: nothing of an earlier one is left.  *)
LEMMA BeginIInv ==
  ASSUME IInv, Execute \/ Validate \/ Performance
  PROVE  IInv'
  <1>1. PICK c : /\ Begin(c)
                 /\ c.program \in Seq(Statements)
                 /\ Len(c.inputs) \in Nat /\ DOMAIN c.inputs = 1..Len(c.inputs)
                 /\ \A i \in 1..Len(c.inputs) : IsRawEvent(c.inputs[i])
                 /\ \A k \in DOMAIN c.seeds : c.seeds[k] \in Texts
                 /\ c.times \in Nat
    BY BeginWith
  <1>2. call' = c /\ outcomes' = <<>> /\ target' = NoTarget
        /\ ran' = 0 /\ done' = 0 /\ next' = 1 /\ host' = "none"
    BY <1>1 DEF Begin
  <1>3. \/ /\ c.api = "performance" /\ TotalEvents(c) > MaxTotal
           /\ reply' = Reply("refused", <<>>, 0)
           /\ work' = "none" /\ slot' = FALSE /\ pc' = "python"
        \/ /\ ~(c.api = "performance" /\ TotalEvents(c) > MaxTotal)
           /\ reply' = NoReply
           /\ work' = "ready" /\ slot' = TRUE /\ pc' = "spawn"
    BY <1>1 DEF Begin
  <1>4. CallOK'
    BY <1>1, <1>2 DEF CallOK, IsRawEvent
  <1>5. TypeOK'
    <2>1. DOMAIN outcomes' = {} /\ DOMAIN target'.fields = {}
          /\ DOMAIN target'.secrets = {}
      BY <1>2 DEF NoTarget, NoFields
    <2>2. QED  BY <1>2, <1>3, <2>1 DEF TypeOK
  <1>6. Once'
    BY <1>2, <1>3 DEF Once, Ends
  <1>7. Counting'
    <2>1. TotalEvents(call)' = TotalEvents(c) /\ TotalEvents(c) \in Nat
      BY <1>1, <1>2, Saturation DEF TotalEvents
    <2>2. <<>> \in Seq({}) /\ Len(<<>>) = 0
      OBVIOUS
    <2>3. c.api = "performance" =>
            /\ TotalEvents(c) = SaturatingProduct(Len(c.inputs), c.times)
            /\ TotalEvents(c) > MaxTotal => Asked' > MaxTotal
            /\ ~(TotalEvents(c) > MaxTotal) =>
                 Asked' <= MaxTotal /\ TotalEvents(c) = Asked'
      <3>1. SUFFICES ASSUME c.api = "performance"
                     PROVE  /\ TotalEvents(c)
                                  = SaturatingProduct(Len(c.inputs), c.times)
                            /\ TotalEvents(c) > MaxTotal => Asked' > MaxTotal
                            /\ ~(TotalEvents(c) > MaxTotal) =>
                                 Asked' <= MaxTotal /\ TotalEvents(c) = Asked'
        OBVIOUS
      <3>2. TotalEvents(c) = SaturatingProduct(Len(c.inputs), c.times)
        BY <3>1 DEF TotalEvents
      <3>3. Asked' = Len(c.inputs) * c.times
        BY <1>2 DEF Asked
      <3>4. Len(c.inputs) \in Nat /\ c.times \in Nat
        BY <1>1
      <3>5. /\ TotalEvents(c) \in Nat
            /\ TotalEvents(c) > MaxTotal => Asked' > MaxTotal
            /\ TotalEvents(c) <= MaxTotal =>
                 Asked' <= MaxTotal /\ TotalEvents(c) = Asked'
        BY <3>2, <3>3, <3>4, Saturation
      <3>6. QED
        BY <3>2, <3>5, EventRunAssumption
    <2>4. QED
      BY <1>2, <1>3, <2>1, <2>2, <2>3 DEF Counting, Reply, NoReply
  <1>8. Shape' /\ Follows' /\ OutcomesAreTheEventsOwn'
    BY <1>2, <1>3 DEF Shape, NoTarget, Follows, OutcomesAreTheEventsOwn
  <1>9. QED  BY <1>4, <1>5, <1>6, <1>7, <1>8 DEF IInv

(* A step that leaves the event alone leaves what is known of it.            *)
LEMMA EventKept ==
  ASSUME IInv, UNCHANGED <<call, done, next, target, outcomes>>,
         work' = work \/ work' # "resolve"
  PROVE  CallOK' /\ Shape' /\ Follows' /\ OutcomesAreTheEventsOwn'
  <1> USE DEF IInv
  <1>1. CallOK'
    BY DEF CallOK, IsRawEvent
  <1>2. Shape'
    BY DEF Shape
  <1>3. Follows'
    BY DEF Follows, Input
  <1>4. OutcomesAreTheEventsOwn'
    BY DEF OutcomesAreTheEventsOwn, OwnOutcome
  <1>5. QED  BY <1>1, <1>2, <1>3, <1>4

(* The caller's steps.                                                       *)
LEMMA CallerIInv ==
  ASSUME IInv, Caller
  PROVE  IInv'
  <1> USE DEF IInv, vars
  <1>1. UNCHANGED <<call, work, done, next, target, outcomes>>
    BY DEF Caller, SpawnThread, SpawnFails, Join, Deliver, Raise, ConversionFails,
           Answer
  <1>2. CallOK' /\ Shape' /\ Follows' /\ OutcomesAreTheEventsOwn'
    BY <1>1, EventKept
  <1>3. CASE SpawnThread \/ SpawnFails \/ Join
    <2>1. TypeOK'
      BY <1>3 DEF TypeOK, SpawnThread, SpawnFails, Join
    <2>2. Once'
      BY <1>3 DEF Once, SpawnThread, SpawnFails, Join
    <2>3. Counting'
      BY <1>3 DEF Counting, Asked, SpawnThread, SpawnFails, Join
    <2>4. QED  BY <1>2, <2>1, <2>2, <2>3
  <1>4. CASE Deliver \/ Raise \/ ConversionFails
    <2>1. UNCHANGED <<slot, host, ran>> /\ pc = "attach" /\ pc' = "python"
      BY <1>4 DEF Deliver, Raise, ConversionFails, Answer
    <2>2. TypeOK'
      BY <1>1, <2>1 DEF TypeOK
    <2>3. Once'
      BY <1>1, <2>1 DEF Once
    <2>4. /\ reply'.kind = "metrics" =>
               /\ work = "done" /\ call.api = "performance"
               /\ reply'.total = TotalEvents(call)
          /\ reply'.kind # "refused"
      <3>1. CASE Deliver
        BY <3>1 DEF Deliver, Answer, Reply
      <3>2. CASE Raise
        BY <3>2, <2>1 DEF Raise, Answer, Reply, Once, Ends
      <3>3. CASE ConversionFails
        BY <3>3 DEF ConversionFails, Answer, Reply
      <3>4. QED  BY <1>4, <3>1, <3>2, <3>3
    <2>5. Counting'
      BY <1>1, <2>1, <2>4 DEF Counting, Asked
    <2>6. QED  BY <1>2, <2>2, <2>3, <2>5
  <1>5. QED  BY <1>3, <1>4 DEF Caller

(* The closure's steps that leave the event alone.                           *)
LEMMA WorkIInv ==
  ASSUME IInv, TakeWork \/ Compile \/ Panics \/ AllResolved
  PROVE  IInv'
  <1> USE DEF IInv
  <1>1. UNCHANGED <<pc, call, host, done, next, target, outcomes, reply>>
    BY DEF TakeWork, Compile, Panics, AllResolved
  <1>2. /\ work' \in {"compile", "events", "compile_error", "panic", "done"}
        /\ slot' = FALSE /\ ran' = 1 /\ work # "none"
        /\ pc \in {"spawn", "python", "attach"} => FALSE
        /\ work \notin {"done", "resolve"} \/ work' = "panic"
        /\ work' = "done" => done >= TotalEvents(call)
    <2>1. CASE TakeWork
      BY <2>1 DEF TakeWork, Once, Ends, TypeOK
    <2>2. CASE Compile
      BY <2>2 DEF Compile, Once, Ends
    <2>3. CASE Panics
      BY <2>3 DEF Panics, Pending, Resolving, Once, Ends
    <2>4. CASE AllResolved
      BY <2>4 DEF AllResolved, Once, Ends
    <2>5. QED  BY <2>1, <2>2, <2>3, <2>4
  <1>3. CallOK' /\ Shape' /\ Follows' /\ OutcomesAreTheEventsOwn'
    BY <1>1, <1>2, EventKept
  <1>4. TypeOK'
    BY <1>1, <1>2 DEF TypeOK, Ends
  <1>5. Once'
    BY <1>1, <1>2 DEF Once, TypeOK
  <1>6. Counting'
    <2>1. done \in Nat /\ TotalEvents(call) \in Nat
      BY TotalIsNat DEF TypeOK
    <2>2. QED  BY <1>1, <1>2, <2>1 DEF Counting, Asked
  <1>7. QED  BY <1>3, <1>4, <1>5, <1>6

(* The remainder is in range, and is the number itself below the divisor.    *)
LEMMA Remainder ==
  ASSUME NEW a \in Nat, NEW b \in Nat \ {0}
  PROVE  a % b \in 0..b - 1 /\ (a < b => a % b = a)
  OBVIOUS

(* While an event is left, cycling over the batch finds one; outside         *)
(* get_vrl_performance it is the next of the batch.                          *)
LEMMA InputIs ==
  ASSUME CallOK, done \in Nat, done < TotalEvents(call)
  PROVE  /\ IsRawEvent(Input(done))
         /\ call.api # "performance" =>
              /\ done + 1 \in DOMAIN call.inputs
              /\ Input(done) = call.inputs[done + 1]
  <1> DEFINE n == Len(call.inputs)
  <1>1. n \in Nat /\ call.times \in Nat
    BY DEF CallOK
  <1>2. n # 0
    <2> SUFFICES ASSUME n = 0 PROVE FALSE
      OBVIOUS
    <2>1. n * call.times = 0
      BY <1>1
    <2>2. TotalEvents(call) = 0
      BY <2>1, EventRunAssumption DEF TotalEvents, SaturatingProduct
    <2>3. QED  BY <2>2
  <1>3. done % n \in 0..n - 1 /\ (done < n => done % n = done)
    <2> HIDE DEF n
    <2>1. QED  BY <1>1, <1>2, Remainder
  <1>4. call.api # "performance" => done < n /\ done % n = done
    <2> SUFFICES ASSUME call.api # "performance" PROVE done < n /\ done % n = done
      OBVIOUS
    <2>1. TotalEvents(call) \in {0, n}
      BY DEF TotalEvents
    <2> HIDE DEF n
    <2>2. QED  BY <1>1, <1>3, <2>1
  <1>5. (done % n) + 1 \in 1..n
    <2> HIDE DEF n
    <2>1. QED  BY <1>1, <1>2, <1>3
  <1>6. Input(done) = call.inputs[(done % n) + 1]
    BY DEF Input
  <1>7. \A i \in 1..n : IsRawEvent(call.inputs[i]) /\ i \in DOMAIN call.inputs
    BY DEF CallOK
  <1> HIDE DEF n
  <1>8. QED  BY <1>4, <1>5, <1>6, <1>7

(* What json_to_vrl_value makes of a value is one VRL has a form for.        *)
LEMMA FromJsonValue ==
  ASSUME NEW v \in JsonValue
  PROVE  FromJson(v) \in Value
  BY DEF FromJson, JsonValue, Value, Nest, JsonLeaf, MadeLeaf, OverLeaves

(* The program starts on an event: nothing of the one before is left.        *)
LEMMA StartIInv ==
  ASSUME IInv, StartEvent
  PROVE  IInv'
  <1> USE DEF IInv, StartEvent, Pending
  <1>1. /\ UNCHANGED <<pc, call, slot, host, ran, done, outcomes, reply>>
        /\ work = "events" /\ work' = "resolve" /\ next' = 1
        /\ done < TotalEvents(call) /\ Decodes(Input(done))
        /\ target' = [object |-> TRUE, fields |-> EventOf(Input(done)),
                      secrets |-> call.seeds]
    BY DEF SeedStore
  <1>2. IsRawEvent(Input(done))
    BY <1>1, InputIs DEF TypeOK
  <1>3. CallOK'
    BY <1>1 DEF CallOK, IsRawEvent
  <1>4. TypeOK'
    <2>1. \A f \in DOMAIN EventOf(Input(done)) :
            f \in Fields /\ EventOf(Input(done))[f] \in Value
      <3>1. CASE Input(done).json
        <4>1. ASSUME NEW f \in DOMAIN Input(done).fields
              PROVE  FromJson(Input(done).fields[f]) \in Value
          <5>1. Input(done).fields[f] \in JsonValue
            BY <1>2 DEF IsRawEvent
          <5>2. QED  BY <5>1, FromJsonValue
        <4>2. QED  BY <1>2, <3>1, <4>1 DEF EventOf, IsRawEvent
      <3>2. CASE ~Input(done).json
        <4>1. EventOf(Input(done)) = [message |-> Scalar(Input(done).text)]
          BY <3>2 DEF EventOf
        <4>2. Scalar(Input(done).text) \in Value
          BY <1>2 DEF IsRawEvent, Value, Nest, MadeLeaf, Scalar
        <4>3. QED  BY <4>1, <4>2, EventRunAssumption
      <3>3. QED  BY <3>1, <3>2
    <2>2. \A k \in DOMAIN call.seeds : call.seeds[k] \in Texts
      BY DEF CallOK
    <2>3. QED  BY <1>1, <2>1, <2>2 DEF TypeOK
  <1>5. Once'
    BY <1>1 DEF Once, Ends
  <1>6. Counting'
    BY <1>1 DEF Counting, Asked
  <1>7. Shape'
    BY <1>1 DEF Shape
  <1>8. Follows'
    <2>1. call.program \in Seq(Statements) /\ Len(call.program) \in Nat
      BY DEF CallOK
    <2>2. Input(done)' = Input(done)
      BY <1>1 DEF Input
    <2>3. QED
      BY <1>1, <2>1, <2>2, SecretFirst, PresentFirst DEF Follows
  <1>9. OutcomesAreTheEventsOwn'
    BY <1>1 DEF OutcomesAreTheEventsOwn, OwnOutcome
  <1>10. QED  BY <1>3, <1>4, <1>5, <1>6, <1>7, <1>8, <1>9

(* A statement stops the program exactly when its text says so.              *)
LEMMA TerminatesIs ==
  ASSUME IInv, Resolving
  PROVE  /\ next \in 1..Len(call.program)
         /\ call.program[next] \in Statements
         /\ Terminates(call.program[next], target) <=>
              Stops(call.program, next, Input(done))
  <1>1. /\ call.program \in Seq(Statements) /\ next \in Nat
        /\ next \in 1..Len(call.program)
    BY DEF IInv, CallOK, TypeOK, Follows, Resolving
  <1>2. \A f : f \in DOMAIN target.fields <=>
               Present(call.program, next, Input(done), f)
    BY DEF IInv, Follows, Resolving
  <1>3. QED  BY <1>1, <1>2 DEF Terminates, Stops

(* One more statement: the target moves on as the text does.                 *)
LEMMA StatementIInv ==
  ASSUME IInv, Statement
  PROVE  IInv'
  <1> DEFINE p   == call.program
             s   == p[next]
             raw == Input(done)
  <1>1. /\ UNCHANGED <<pc, call, slot, host, ran, work, done, outcomes, reply>>
        /\ work = "resolve" /\ Resolving /\ next' = next + 1
        /\ target' = After(s, target) /\ ~Terminates(s, target)
    BY DEF Statement, Resolving
  <1>2. next \in 1..Len(p) /\ s \in Statements /\ p \in Seq(Statements)
        /\ ~Stops(p, next, raw)
    BY <1>1, TerminatesIs DEF IInv, CallOK
  <1>3. DOMAIN target = {"object", "fields", "secrets"}
    BY DEF IInv, Shape
  <1>4. /\ DOMAIN target' = {"object", "fields", "secrets"}
        /\ target'.fields =
             CASE s.op = "replace" -> NoFields
               [] s.op = "assign" -> Put(target.fields, s.field, s.value)
               [] s.op = "get_secret" ->
                    Put(target.fields, s.field, Secret(target.secrets, s.key))
               [] OTHER -> target.fields
        /\ target'.secrets =
             CASE s.op = "set_secret" -> Put(target.secrets, s.key, s.text)
               [] s.op = "remove_secret" ->
                    Restrict(target.secrets, DOMAIN target.secrets \ {s.key})
               [] OTHER -> target.secrets
    BY <1>1, <1>3 DEF After, PutField, GetSecret, SetSecret, RemoveSecret
  <1>5. /\ s.text \in Texts /\ s.field \in Fields /\ s.value \in Value
    BY <1>2 DEF Statements, Nest, Value
  <1>6. /\ \A f \in DOMAIN target.fields : f \in Fields /\ target.fields[f] \in Value
        /\ \A k \in DOMAIN target.secrets : target.secrets[k] \in Texts
    BY DEF IInv, TypeOK
  <1>7. TypeOK'
    <2>1. Secret(target.secrets, s.key) \in Value
      BY <1>6 DEF Secret, Scalar, Value, Nest, MadeLeaf
    <2>2. \A f \in DOMAIN target'.fields : f \in Fields /\ target'.fields[f] \in Value
      BY <1>4, <1>5, <1>6, <2>1 DEF Put, NoFields
    <2>3. \A k \in DOMAIN target'.secrets : target'.secrets[k] \in Texts
      BY <1>4, <1>5, <1>6 DEF Put, Restrict
    <2>4. QED  BY <1>1, <1>2, <2>2, <2>3 DEF IInv, TypeOK
  <1>8. CallOK' /\ Once' /\ Counting' /\ Shape' /\ OutcomesAreTheEventsOwn'
    BY <1>1, <1>4 DEF IInv, CallOK, IsRawEvent, Once, Counting, Asked, Shape,
                      OutcomesAreTheEventsOwn, OwnOutcome
  <1>9. Follows'
    <2>1. raw' = raw
      BY <1>1 DEF Input
    <2>2. next' \in 1..Len(p) + 1 /\ Decodes(raw)
      BY <1>1, <1>2 DEF IInv, Follows
    <2>3. \A j \in 1..next' - 1 : ~Stops(p, j, raw)
      BY <1>1, <1>2 DEF IInv, Follows
    <2>4. \A f : f \in DOMAIN target'.fields <=> Present(p, next + 1, raw, f)
      <3> SUFFICES ASSUME NEW f
                   PROVE  f \in DOMAIN target'.fields <=> Present(p, next + 1, raw, f)
        OBVIOUS
      <3>1. f \in DOMAIN target.fields <=> Present(p, next, raw, f)
        BY <1>1 DEF IInv, Follows
      <3>2. f \in DOMAIN target'.fields <=>
              CASE s.op = "replace" -> FALSE
                [] s.op \in {"assign", "get_secret"} /\ s.field = f -> TRUE
                [] OTHER -> f \in DOMAIN target.fields
        BY <1>4 DEF Put, NoFields
      <3>3. QED  BY <1>2, <3>1, <3>2, PresentNext
    <2>5. \A key :
            /\ key \in DOMAIN target'.secrets <=>
                 SecretIsSet(p, next + 1, call.seeds, key)
            /\ key \in DOMAIN target'.secrets =>
                 target'.secrets[key] = SecretSet(p, next + 1, call.seeds, key)
      <3> SUFFICES ASSUME NEW key
                   PROVE  /\ key \in DOMAIN target'.secrets <=>
                               SecretIsSet(p, next + 1, call.seeds, key)
                          /\ key \in DOMAIN target'.secrets =>
                               target'.secrets[key] =
                                 SecretSet(p, next + 1, call.seeds, key)
        OBVIOUS
      <3>1. /\ key \in DOMAIN target.secrets <=> SecretIsSet(p, next, call.seeds, key)
            /\ key \in DOMAIN target.secrets =>
                 target.secrets[key] = SecretSet(p, next, call.seeds, key)
        BY <1>1 DEF IInv, Follows
      <3>2. IF s.op \in {"set_secret", "remove_secret"} /\ s.key = key
            THEN /\ key \in DOMAIN target'.secrets <=> s.op = "set_secret"
                 /\ s.op = "set_secret" => target'.secrets[key] = s.text
            ELSE /\ key \in DOMAIN target'.secrets <=> key \in DOMAIN target.secrets
                 /\ key \in DOMAIN target.secrets =>
                      target'.secrets[key] = target.secrets[key]
        BY <1>4 DEF Put, Restrict
      <3>3. QED  BY <1>2, <3>1, <3>2, SecretNext
    <2>6. QED  BY <1>1, <2>1, <2>2, <2>3, <2>4, <2>5 DEF Follows
  <1>10. QED  BY <1>7, <1>8, <1>9 DEF IInv

(* An event ends: its outcome, when it is the event's own, takes the next    *)
(* place in the batch.                                                       *)
LEMMA EndEventIInv ==
  ASSUME IInv, NEW result, NEW event, NEW store,
         EndEvent(result, event, store),
         work \in {"events", "resolve"}, done < TotalEvents(call),
         result \in {"ok", "out_of_range", "terminated", "infinite",
                    "not_an_object"},
         OwnOutcome(Outcome(result, event, store), Input(done))
  PROVE  IInv'
  <1>1. /\ UNCHANGED <<pc, call, slot, host, ran, next, target, reply>>
        /\ work' = "events" /\ done' = done + 1 /\ done \in Nat
        /\ outcomes' = IF call.api = "performance" THEN outcomes
                       ELSE Append(outcomes, Outcome(result, event, store))
    BY DEF EndEvent, IInv, TypeOK
  <1>2. PICK S : outcomes \in Seq(S)
    BY DEF IInv, Counting
  <1>3. /\ call.api # "performance" =>
             /\ Len(outcomes) = done /\ Len(outcomes') = done + 1
             /\ \A i \in 1..done : outcomes'[i] = outcomes[i]
             /\ outcomes'[done + 1] = Outcome(result, event, store)
        /\ call.api = "performance" => outcomes' = outcomes /\ Len(outcomes) = 0
        /\ outcomes' \in Seq(S \union {Outcome(result, event, store)})
        /\ DOMAIN outcomes = 1..Len(outcomes)
        /\ DOMAIN outcomes' = 1..Len(outcomes')
    BY <1>1, <1>2 DEF IInv, Counting
  <1>4. \A i \in DOMAIN outcomes' :
           \/ i \in DOMAIN outcomes /\ outcomes'[i] = outcomes[i]
           \/ /\ i = done + 1 /\ call.api # "performance"
              /\ outcomes'[i] = Outcome(result, event, store)
    <2>1. CASE call.api = "performance"
      BY <1>3, <2>1
    <2>2. CASE call.api # "performance"
      <3>1. \A i \in 1..done + 1 : i \in 1..done \/ i = done + 1
        BY <1>1
      <3>2. QED  BY <1>3, <2>2, <3>1
    <2>3. QED  BY <2>1, <2>2
  <1>5. CallOK' /\ Shape' /\ Follows'
    BY <1>1 DEF IInv, CallOK, IsRawEvent, Shape, Follows
  <1>6. TypeOK'
    <2>1. \A i \in DOMAIN outcomes' :
            outcomes'[i].result \in {"ok", "out_of_range", "terminated", "infinite",
                                    "not_an_object"}
      BY <1>4 DEF IInv, TypeOK, Outcome
    <2>2. QED  BY <1>1, <2>1 DEF IInv, TypeOK
  <1>7. Once'
    BY <1>1 DEF IInv, Once, Ends
  <1>8. Counting'
    <2>1. TotalEvents(call) \in Nat
      BY TotalIsNat DEF IInv
    <2>2. QED  BY <1>1, <1>3, <2>1 DEF IInv, Counting, Asked
  <1>9. OutcomesAreTheEventsOwn'
    <2>1. \A i \in DOMAIN outcomes : OwnOutcome(outcomes[i], call.inputs[i])
      BY DEF IInv, OutcomesAreTheEventsOwn
    <2>2. call.api # "performance" => Input(done) = call.inputs[done + 1]
      BY <1>1, InputIs DEF IInv
    <2>3. \A i \in DOMAIN outcomes' : OwnOutcome(outcomes'[i], call.inputs[i])
      BY <1>4, <2>1, <2>2
    <2>4. QED  BY <1>1, <2>3 DEF OutcomesAreTheEventsOwn, OwnOutcome
  <1>10. QED  BY <1>5, <1>6, <1>7, <1>8, <1>9 DEF IInv

(* The three ways an event ends give it an outcome of its own.               *)
LEMMA EndingIInv ==
  ASSUME IInv, RefuseEvent \/ Terminate \/ Resolved
  PROVE  IInv'
  <1> DEFINE p   == call.program
             raw == Input(done)
  <1>1. p \in Seq(Statements) /\ Len(p) \in Nat
    BY DEF IInv, CallOK
  <1>2. CASE RefuseEvent
    <2>1. ~Decodes(raw) /\ End(p, raw) = 1 /\ work = "events"
          /\ done < TotalEvents(call)
          /\ EndEvent("out_of_range", NoFields, call.seeds)
      BY <1>2 DEF RefuseEvent, Pending, SeedStore, End
    <2>2. OwnOutcome(Outcome("out_of_range", NoFields, call.seeds), raw)
      BY <1>1, <2>1, SecretFirst DEF OwnOutcome, Outcome
    <2>3. QED  BY <2>1, <2>2, EndEventIInv
  <1>3. ASSUME work = "resolve"
        PROVE  /\ next \in 1..Len(p) + 1 /\ Decodes(raw)
               /\ done < TotalEvents(call)
               /\ \A j \in 1..next - 1 : ~Stops(p, j, raw)
               /\ \A key :
                    /\ key \in DOMAIN target.secrets <=>
                         SecretIsSet(p, next, call.seeds, key)
                    /\ key \in DOMAIN target.secrets =>
                         target.secrets[key] = SecretSet(p, next, call.seeds, key)
    BY <1>3 DEF IInv, Follows, Counting
  <1>4. CASE Terminate
    <2>1. work = "resolve" /\ Resolving /\ Terminates(p[next], target)
          /\ EndEvent("terminated", NoFields, target.secrets)
      BY <1>4 DEF Terminate, Resolving
    <2>2. next \in 1..Len(p) /\ Stops(p, next, raw)
      BY <2>1, TerminatesIs
    <2>3. End(p, raw) = next
      BY <1>1, <1>3, <2>1, <2>2, EndIs
    <2>4. OwnOutcome(Outcome("terminated", NoFields, target.secrets), raw)
      BY <1>1, <1>3, <2>1, <2>2, <2>3 DEF OwnOutcome, Outcome
    <2>5. QED  BY <1>3, <2>1, <2>4, EndEventIInv
  <1>5. CASE Resolved
    <2> DEFINE result == ResultOf(target)
               event  == IF result = "ok" THEN target.fields ELSE NoFields
    <2>1. work = "resolve" /\ next > Len(p)
          /\ EndEvent(result, event, target.secrets)
      BY <1>5 DEF Resolved
    <2>2. result \in {"not_an_object", "infinite", "ok"}
      BY DEF ResultOf
    <2>3. End(p, raw) = next
      BY <1>1, <1>3, <2>1, EndIs
    <2>4. OwnOutcome(Outcome(result, event, target.secrets), raw)
      <3> HIDE DEF result, event
      <3>1. QED  BY <1>1, <1>3, <2>1, <2>2, <2>3 DEF OwnOutcome, Outcome
    <2>5. QED
      <3> HIDE DEF result, event
      <3>1. QED  BY <1>3, <2>1, <2>2, <2>4, EndEventIInv
  <1>6. QED  BY <1>2, <1>4, <1>5

-----------------------------------------------------------------------------
(* Every step keeps the invariant.                                           *)
LEMMA NextIInv == IInv /\ [Next]_vars => IInv'
  <1> SUFFICES ASSUME IInv, [Next]_vars PROVE IInv'
    OBVIOUS
  <1>1. CASE Execute \/ Validate \/ Performance
    BY <1>1, BeginIInv
  <1>2. CASE Caller
    BY <1>2, CallerIInv
  <1>3. CASE OnVrlStack
    BY <1>3, WorkIInv, StartIInv, StatementIInv, EndingIInv DEF OnVrlStack
  <1>4. CASE UNCHANGED vars
    <2>1. CallOK' /\ Shape' /\ Follows' /\ OutcomesAreTheEventsOwn'
      BY <1>4, EventKept DEF vars
    <2>2. TypeOK' /\ Once' /\ Counting'
      BY <1>4 DEF vars, IInv, TypeOK, Once, Counting, Asked
    <2>3. QED  BY <2>1, <2>2 DEF IInv
  <1>5. QED  BY <1>1, <1>2, <1>3, <1>4 DEF Next

(* IInv is an inductive invariant of EventRun.                               *)
THEOREM EventRunInvariance == Spec => []IInv
  BY InitIInv, NextIInv, PTL DEF Spec

(* Every variable keeps its type; no event under a program holds an integer  *)
(* that VRL has no form for.                                                 *)
THEOREM EventRunTypeCorrect == Spec => []TypeOK
  <1>1. IInv => TypeOK
    BY DEF IInv
  <1>2. QED  BY EventRunInvariance, <1>1, PTL

(* The `expect` of on_vrl_stack never fails, whether or not the thread can   *)
(* be created and wherever the work panics.                                  *)
THEOREM WorkAlwaysRunsOnce == Spec => []WorkRunsOnce
  <1>1. IInv => WorkRunsOnce
    BY DEF IInv, Once, WorkRunsOnce, Ends, TypeOK
  <1>2. QED  BY EventRunInvariance, <1>1, PTL

(* get_vrl_performance's numbers: for any limit and any usize, metrics for   *)
(* exactly the events asked for, a refusal only beyond the limit.            *)
THEOREM MetricsAlwaysCountTheWork == Spec => []MetricsCountTheWork
  <1>1. IInv => MetricsCountTheWork
    BY DEF IInv, Counting, Asked, MetricsCountTheWork
  <1>2. QED  BY EventRunInvariance, <1>1, PTL

(* Secrets are per event: for every program, batch and seed map, an          *)
(* outcome's secrets are the seeds with the writes the program makes before  *)
(* it ends on that very event, and nothing of the events before it.          *)
THEOREM OutcomesAreAlwaysTheEventsOwn == Spec => []OutcomesAreTheEventsOwn
  <1>1. IInv => OutcomesAreTheEventsOwn
    BY DEF IInv
  <1>2. QED  BY EventRunInvariance, <1>1, PTL

-----------------------------------------------------------------------------
(* The values of an event, read off the program's text in the same way.      *)
Arrives(p, k, raw, f) ==
  IF WritesTo(p, k, f) = {} THEN EventOf(raw)[f]
  ELSE LET s == p[Latest(WritesTo(p, k, f))]
           w == Latest(WritesTo(p, k, f))
       IN  IF s.op = "assign" THEN s.value
           ELSE IF SecretIsSet(p, w, call.seeds, s.key)
           THEN Scalar(SecretSet(p, w, call.seeds, s.key))
           ELSE Scalar("null")

(* The last write to a field, over one more statement.                       *)
LEMMA WritesNext ==
  ASSUME NEW p \in Seq(Statements), NEW k \in 1..Len(p), NEW f
  PROVE  IF p[k].op \in {"assign", "get_secret"} /\ p[k].field = f
         THEN WritesTo(p, k + 1, f) # {} /\ Latest(WritesTo(p, k + 1, f)) = k
         ELSE WritesTo(p, k + 1, f) = WritesTo(p, k, f)
  <1> DEFINE V   == WritesTo(p, k + 1, f)
             W   == WritesTo(p, k, f)
             hit == p[k].op \in {"assign", "get_secret"} /\ p[k].field = f
  <1>1. V = W \union (IF hit THEN {k} ELSE {}) /\ W \subseteq 1..k - 1
    <2>1. Before(p, k + 1, {"assign", "get_secret"}) =
            Before(p, k, {"assign", "get_secret"}) \union
              (IF p[k].op \in {"assign", "get_secret"} THEN {k} ELSE {})
      BY BeforeNext
    <2>2. Before(p, k, {"assign", "get_secret"}) \subseteq 1..k - 1
      BY DEF Before
    <2>3. QED  BY <2>1, <2>2 DEF WritesTo
  <1>2. CASE hit
    <2>1. V \in SUBSET Nat /\ k \in V /\ \A i \in V : i <= k
      BY <1>1, <1>2
    <2> HIDE DEF V
    <2>2. V # {} /\ Latest(V) = k
      BY <2>1, LatestIs
    <2>3. QED  BY <1>2, <2>2 DEF V
  <1>3. CASE ~hit
    BY <1>1, <1>3
  <1>4. QED  BY <1>2, <1>3

(* A field's value, over one more statement.                                 *)
LEMMA ArrivesNext ==
  ASSUME NEW p \in Seq(Statements), NEW k \in 1..Len(p), NEW raw, NEW f
  PROVE  Arrives(p, k + 1, raw, f) =
           IF p[k].op \in {"assign", "get_secret"} /\ p[k].field = f
           THEN IF p[k].op = "assign" THEN p[k].value
                ELSE IF SecretIsSet(p, k, call.seeds, p[k].key)
                THEN Scalar(SecretSet(p, k, call.seeds, p[k].key))
                ELSE Scalar("null")
           ELSE Arrives(p, k, raw, f)
  BY WritesNext DEF Arrives

(* What the last write to a field wrote is what a program can write.         *)
OfProgram(p, k, f) ==
  WritesTo(p, k, f) # {} =>
    LET s == p[Latest(WritesTo(p, k, f))]
        w == Latest(WritesTo(p, k, f))
    IN  /\ s.op = "assign" => s.value \in Nest(MadeLeaf)
        /\ s.op # "assign" /\ SecretIsSet(p, w, call.seeds, s.key) =>
             SecretSet(p, w, call.seeds, s.key) \in Texts

(* What held of a field before a statement holds after it.                   *)
LEMMA OfProgramNext ==
  ASSUME NEW p \in Seq(Statements), NEW k \in 1..Len(p), NEW f,
         OfProgram(p, k, f),
         SecretIsSet(p, k, call.seeds, p[k].key) =>
           SecretSet(p, k, call.seeds, p[k].key) \in Texts
  PROVE  OfProgram(p, k + 1, f)
  <1>1. p[k] \in Statements
    OBVIOUS
  <1>2. p[k].value \in Nest(MadeLeaf)
    BY <1>1 DEF Statements
  <1>3. CASE p[k].op \in {"assign", "get_secret"} /\ p[k].field = f
    <2>1. Latest(WritesTo(p, k + 1, f)) = k
      BY <1>3, WritesNext
    <2>2. QED  BY <1>2, <2>1 DEF OfProgram
  <1>4. CASE ~(p[k].op \in {"assign", "get_secret"} /\ p[k].field = f)
    <2>1. WritesTo(p, k + 1, f) = WritesTo(p, k, f)
      BY <1>4, WritesNext
    <2>2. QED  BY <2>1 DEF OfProgram
  <1>5. QED  BY <1>3, <1>4

Unreplaced(p, k) == Before(p, k, {"replace"}) = {}

(* A program that has replaced nothing after a statement had not before it.  *)
LEMMA UnreplacedNext ==
  ASSUME NEW p \in Seq(Statements), NEW k \in 1..Len(p), Unreplaced(p, k + 1)
  PROVE  Unreplaced(p, k) /\ p[k].op # "replace"
  <1>1. Before(p, k + 1, {"replace"}) =
          Before(p, k, {"replace"}) \union (IF p[k].op \in {"replace"} THEN {k} ELSE {})
    BY BeforeNext
  <1>2. QED  BY <1>1 DEF Unreplaced

OwnFields(o, raw) ==
  LET k == Len(call.program) + 1
  IN  \A f : /\ f \in DOMAIN o.fields <=> Present(call.program, k, raw, f)
             /\ OfProgram(call.program, k, f)
             /\ f \in DOMAIN o.fields =>
                  /\ o.fields[f] \in Value /\ "inf" \notin o.fields[f].leaves
                  /\ Unreplaced(call.program, k) =>
                       o.fields[f] = Arrives(call.program, k, raw, f)

(* What the target, the outcomes and the dicts hold.                         *)
TargetValues ==
  work = "resolve" =>
    /\ \A f : OfProgram(call.program, next, f)
    /\ \A f \in DOMAIN target.fields :
         Unreplaced(call.program, next) =>
           target.fields[f] = Arrives(call.program, next, Input(done), f)

OutcomeValues ==
  \A i \in DOMAIN outcomes :
    outcomes[i].result = "ok" => OwnFields(outcomes[i], call.inputs[i])

ReplyValues ==
  \A i \in DOMAIN reply.entries :
    /\ work = "done" /\ i \in DOMAIN outcomes
    /\ reply.entries[i].event = DictOf(outcomes[i], call.inputs[i])

Values == TargetValues /\ OutcomeValues /\ ReplyValues

(* The values are kept by what leaves the event and the reply alone.         *)
LEMMA ValuesKept ==
  ASSUME IInv, Values, UNCHANGED <<call, done, next, target, outcomes, reply>>,
         work' = work \/ (work' # "resolve" /\ work # "done")
  PROVE  Values'
  <1>1. /\ \A p, k, raw, f : Arrives(p, k, raw, f)' = Arrives(p, k, raw, f)
        /\ \A p, k, f : OfProgram(p, k, f)' = OfProgram(p, k, f)
    BY DEF Arrives, OfProgram
  <1>2. TargetValues'
    BY <1>1 DEF Values, TargetValues, Input
  <1>3. OutcomeValues'
    BY <1>1 DEF Values, OutcomeValues, OwnFields
  <1>4. ReplyValues'
    BY DEF Values, ReplyValues
  <1>5. QED  BY <1>2, <1>3, <1>4 DEF Values

(* A new call starts with none, and the caller hands out what there is.      *)
LEMMA CallerValues ==
  ASSUME IInv, Values, Execute \/ Validate \/ Performance \/ Caller
  PROVE  Values'
  <1>1. CASE Execute \/ Validate \/ Performance
    <2>1. PICK c : Begin(c)
      BY <1>1, BeginWith
    <2>2. outcomes' = <<>> /\ reply'.entries = <<>> /\ work' # "resolve"
      BY <2>1 DEF Begin, Reply, NoReply
    <2>3. QED  BY <2>2 DEF Values, TargetValues, OutcomeValues, ReplyValues
  <1>2. CASE SpawnThread \/ SpawnFails \/ Join
    <2>1. UNCHANGED <<call, work, done, next, target, outcomes, reply>>
      BY <1>2 DEF SpawnThread, SpawnFails, Join
    <2>2. QED  BY <2>1, ValuesKept
  <1>3. CASE Deliver \/ Raise \/ ConversionFails
    <2>1. UNCHANGED <<call, work, done, next, target, outcomes>>
      BY <1>3 DEF Deliver, Raise, ConversionFails, Answer
    <2>2. \/ reply'.entries = <<>>
          \/ work = "done" /\ reply'.entries = [j \in DOMAIN outcomes |-> Entry(j)]
      <3>1. CASE Deliver
        <4>1. CASE call.api \in {"validate", "performance"}
          BY <1>3, <3>1, <4>1 DEF Deliver, Answer, Reply
        <4>2. CASE call.api \notin {"validate", "performance"}
          BY <3>1, <4>2 DEF Deliver, Answer, Reply
        <4>3. QED  BY <4>1, <4>2
      <3>2. CASE Raise
        BY <3>2 DEF Raise, Answer, Reply
      <3>3. CASE ConversionFails
        BY <3>3 DEF ConversionFails, Answer, Reply
      <3>4. QED  BY <1>3, <3>1, <3>2, <3>3
    <2>3. ReplyValues'
      <3>1. CASE reply'.entries = <<>>
        BY <3>1 DEF ReplyValues
      <3>2. CASE work = "done" /\ reply'.entries = [j \in DOMAIN outcomes |-> Entry(j)]
        <4>1. \A j \in DOMAIN outcomes :
                reply'.entries[j].event = DictOf(outcomes[j], call.inputs[j])
          BY <3>2 DEF Entry
        <4>2. \A outcome, raw : DictOf(outcome, raw)' = DictOf(outcome, raw)
          BY DEF DictOf
        <4>3. QED  BY <2>1, <3>2, <4>1 DEF ReplyValues, DictOf
      <3>3. QED  BY <2>2, <3>1, <3>2
    <2>4. TargetValues' /\ OutcomeValues'
      BY <2>1 DEF Values, TargetValues, Input, OutcomeValues, OwnFields, Arrives,
                      OfProgram
    <2>5. QED  BY <2>3, <2>4 DEF Values
  <1>4. QED  BY <1>1, <1>2, <1>3 DEF Caller

(* While an event is at work nothing has been handed out.                    *)
LEMMA NothingOut ==
  ASSUME Values, work # "done", UNCHANGED reply
  PROVE  ReplyValues'
  BY DEF Values, ReplyValues

(* The program starts on the event as it came.                               *)
LEMMA StartValues ==
  ASSUME IInv, Values, StartEvent
  PROVE  Values'
  <1>1. /\ UNCHANGED <<call, done, outcomes, reply>> /\ work # "done"
        /\ next' = 1 /\ target'.fields = EventOf(Input(done))
    BY DEF StartEvent, Pending
  <1>2. call.program \in Seq(Statements)
    BY DEF IInv, CallOK
  <1>3. \A f : Arrives(call.program, 1, Input(done), f) = EventOf(Input(done))[f]
    BY <1>2, BeforeFirst DEF Arrives, WritesTo
  <1>9. \A f : OfProgram(call.program, 1, f)
    BY <1>2, BeforeFirst DEF OfProgram, WritesTo
  <1>4. TargetValues'
    BY <1>1, <1>3, <1>9 DEF TargetValues, Input, Arrives, OfProgram
  <1>5. OutcomeValues'
    BY <1>1 DEF Values, OutcomeValues, OwnFields, Arrives, OfProgram
  <1>6. QED  BY <1>1, <1>4, <1>5, NothingOut DEF Values

(* One more statement makes of a value what its text says.                   *)
LEMMA StatementValues ==
  ASSUME IInv, Values, Statement
  PROVE  Values'
  <1> DEFINE p   == call.program
             s   == p[next]
             raw == Input(done)
  <1>1. /\ UNCHANGED <<call, done, outcomes, reply>> /\ work = "resolve" /\ Resolving
        /\ next' = next + 1 /\ target' = After(s, target)
    BY DEF Statement, Resolving
  <1>2. next \in 1..Len(p) /\ s \in Statements /\ p \in Seq(Statements)
    BY <1>1, TerminatesIs DEF IInv, CallOK
  <1>3. DOMAIN target = {"object", "fields", "secrets"}
    BY DEF IInv, Shape
  <1>4. target'.fields =
          CASE s.op = "replace" -> NoFields
            [] s.op = "assign" -> Put(target.fields, s.field, s.value)
            [] s.op = "get_secret" ->
                 Put(target.fields, s.field, Secret(target.secrets, s.key))
            [] OTHER -> target.fields
    BY <1>1, <1>3 DEF After, PutField, GetSecret, SetSecret, RemoveSecret
  <1>5. Secret(target.secrets, s.key) =
          IF SecretIsSet(p, next, call.seeds, s.key)
          THEN Scalar(SecretSet(p, next, call.seeds, s.key)) ELSE Scalar("null")
    BY <1>1 DEF IInv, Follows, Secret
  <1>6. Unreplaced(p, next + 1) => Unreplaced(p, next) /\ s.op # "replace"
    BY <1>2, UnreplacedNext
  <1>7. \A f \in DOMAIN target.fields :
          Unreplaced(p, next) => target.fields[f] = Arrives(p, next, raw, f)
    BY <1>1 DEF Values, TargetValues
  <1>8. ASSUME NEW f \in DOMAIN target'.fields, Unreplaced(p, next + 1)
        PROVE  target'.fields[f] = Arrives(p, next + 1, raw, f)
    <2>1. CASE s.op \in {"assign", "get_secret"} /\ s.field = f
      <3>1. Arrives(p, next + 1, raw, f) =
              IF s.op = "assign" THEN s.value
              ELSE IF SecretIsSet(p, next, call.seeds, s.key)
              THEN Scalar(SecretSet(p, next, call.seeds, s.key)) ELSE Scalar("null")
        BY <1>2, <2>1, ArrivesNext
      <3>2. CASE s.op = "assign"
        BY <1>4, <2>1, <3>1, <3>2 DEF Put
      <3>3. CASE s.op = "get_secret"
        BY <1>4, <1>5, <2>1, <3>1, <3>3 DEF Put
      <3>4. QED  BY <2>1, <3>2, <3>3
    <2>2. CASE ~(s.op \in {"assign", "get_secret"} /\ s.field = f)
      <3>1. Arrives(p, next + 1, raw, f) = Arrives(p, next, raw, f)
        BY <1>2, <2>2, ArrivesNext
      <3>2. f \in DOMAIN target.fields /\ target'.fields[f] = target.fields[f]
        BY <1>4, <1>6, <1>8, <2>2 DEF Put
      <3>3. QED  BY <1>6, <1>7, <1>8, <3>1, <3>2
    <2>3. QED  BY <2>1, <2>2
  <1>12. \A f : OfProgram(p, next + 1, f)
    <2>1. SecretIsSet(p, next, call.seeds, s.key) =>
            SecretSet(p, next, call.seeds, s.key) \in Texts
      BY <1>1 DEF IInv, Follows, TypeOK
    <2>2. \A f : OfProgram(p, next, f)
      BY <1>1 DEF Values, TargetValues
    <2>3. QED  BY <1>2, <2>1, <2>2, OfProgramNext
  <1>9. TargetValues'
    BY <1>1, <1>8, <1>12 DEF TargetValues, Input, Arrives, Unreplaced, OfProgram
  <1>10. OutcomeValues'
    BY <1>1 DEF Values, OutcomeValues, OwnFields, Arrives, OfProgram
  <1>11. QED  BY <1>1, <1>9, <1>10, NothingOut DEF Values

(* An event that ends well hands on what it holds; one that fails nothing.   *)
LEMMA EndingValues ==
  ASSUME IInv, Values, RefuseEvent \/ Terminate \/ Resolved
  PROVE  Values'
  <1> DEFINE p   == call.program
             raw == Input(done)
  <1>1. PICK result, event, store :
          /\ EndEvent(result, event, store)
          /\ work \in {"events", "resolve"}
          /\ result = "ok" => OwnFields(Outcome(result, event, store), raw)
    <2>1. CASE RefuseEvent
      BY <2>1 DEF RefuseEvent, Pending
    <2>2. CASE Terminate
      BY <2>2 DEF Terminate, Resolving
    <2>3. CASE Resolved
      <3> DEFINE result == ResultOf(target)
                 event  == IF result = "ok" THEN target.fields ELSE NoFields
      <3>1. work = "resolve" /\ next > Len(p) /\ EndEvent(result, event, target.secrets)
        BY <2>3 DEF Resolved
      <3>2. /\ next = Len(p) + 1
            /\ \A f : f \in DOMAIN target.fields <=> Present(p, next, raw, f)
        BY <3>1 DEF IInv, Follows, CallOK
      <3>3. ASSUME result = "ok" PROVE OwnFields(Outcome(result, event, target.secrets), raw)
        <4>1. ~Holds(target.fields, "inf")
          BY <3>3 DEF ResultOf, InfiniteFloat
        <4>2. \A f \in DOMAIN target.fields :
                target.fields[f] \in Value /\ "inf" \notin target.fields[f].leaves
          BY <4>1 DEF IInv, TypeOK, Holds
        <4>3. \A f \in DOMAIN target.fields :
                Unreplaced(p, next) => target.fields[f] = Arrives(p, next, raw, f)
          BY <3>1 DEF Values, TargetValues
        <4>4. Outcome(result, event, target.secrets).fields = target.fields
          BY <3>3 DEF Outcome
        <4>6. \A f : OfProgram(p, next, f)
          BY <3>1 DEF Values, TargetValues
        <4>5. QED  BY <3>2, <4>2, <4>3, <4>4, <4>6 DEF OwnFields
      <3> HIDE DEF result, event
      <3>4. QED  BY <3>1, <3>3
    <2>4. QED  BY <2>1, <2>2, <2>3
  <1>2. /\ UNCHANGED <<call, reply>> /\ work' = "events"
        /\ outcomes' = IF call.api = "performance" THEN outcomes
                       ELSE Append(outcomes, Outcome(result, event, store))
    BY <1>1 DEF EndEvent
  <1>3. PICK S : outcomes \in Seq(S)
    BY DEF IInv, Counting
  <1>4. ASSUME NEW i \in DOMAIN outcomes', outcomes'[i].result = "ok"
        PROVE  OwnFields(outcomes'[i], call.inputs[i])
    <2>1. CASE i \in DOMAIN outcomes /\ outcomes'[i] = outcomes[i]
      BY <1>4, <2>1 DEF Values, OutcomeValues
    <2>2. CASE ~(i \in DOMAIN outcomes /\ outcomes'[i] = outcomes[i])
      <3>1. /\ call.api # "performance" /\ i = Len(outcomes) + 1
            /\ outcomes'[i] = Outcome(result, event, store)
        <4> DEFINE o == Outcome(result, event, store)
        <4> HIDE DEF o
        <4>1. CASE call.api = "performance"
          BY <1>2, <1>4, <2>2, <4>1
        <4>2. CASE call.api # "performance"
          <5>1. outcomes' = Append(outcomes, o)
            BY <1>2, <4>2 DEF o
          <5>2. /\ Len(outcomes) \in Nat /\ DOMAIN outcomes = 1..Len(outcomes)
                /\ DOMAIN outcomes' = 1..Len(outcomes) + 1
                /\ outcomes'[Len(outcomes) + 1] = o
                /\ \A j \in 1..Len(outcomes) : outcomes'[j] = outcomes[j]
            BY <1>3, <5>1
          <5>3. i = Len(outcomes) + 1
            BY <1>4, <2>2, <5>2
          <5>4. QED  BY <4>2, <5>2, <5>3 DEF o
        <4>3. QED  BY <4>1, <4>2
      <3>2. Len(outcomes) = done /\ done < TotalEvents(call)
        <4>1. done < TotalEvents(call)
          BY DEF RefuseEvent, Terminate, Resolved, Pending, Resolving, IInv, Counting
        <4>2. QED  BY <3>1, <4>1 DEF IInv, Counting
      <3>3. raw = call.inputs[i]
        BY <3>1, <3>2, InputIs DEF IInv, TypeOK
      <3>4. result = "ok"
        BY <1>4, <3>1 DEF Outcome
      <3>5. QED  BY <1>1, <3>1, <3>3, <3>4
    <2>3. QED  BY <2>1, <2>2
  <1>5. OutcomeValues'
    BY <1>2, <1>4 DEF OutcomeValues, OwnFields, Arrives, OfProgram
  <1>6. TargetValues'
    BY <1>2 DEF TargetValues
  <1>7. QED  BY <1>1, <1>2, <1>5, <1>6, NothingOut DEF Values

(* No event is answered at the start.                                        *)
LEMMA ValuesInit == Init => Values
  BY DEF Init, NoReply, Reply, Values, TargetValues, OutcomeValues, ReplyValues

(* Every step keeps the values as the text of the program has them,          *)
LEMMA ValuesNext == IInv /\ Values /\ [Next]_vars => Values'
  <1> SUFFICES ASSUME IInv, Values, [Next]_vars PROVE Values'
    OBVIOUS
  <1>1. CASE Execute \/ Validate \/ Performance \/ Caller
    BY <1>1, CallerValues
  <1>2. CASE TakeWork \/ Compile \/ Panics \/ AllResolved
    <2>1. /\ UNCHANGED <<call, done, next, target, outcomes, reply>>
          /\ work' = work \/ (work' # "resolve" /\ work # "done")
      BY <1>2 DEF TakeWork, Compile, Panics, AllResolved, Pending, Resolving
    <2>2. QED  BY <2>1, ValuesKept
  <1>3. CASE StartEvent
    BY <1>3, StartValues
  <1>4. CASE Statement
    BY <1>4, StatementValues
  <1>5. CASE RefuseEvent \/ Terminate \/ Resolved
    BY <1>5, EndingValues
  <1>6. CASE UNCHANGED vars
    BY <1>6, ValuesKept DEF vars
  <1>7. QED  BY <1>1, <1>2, <1>3, <1>4, <1>5, <1>6 DEF Next, OnVrlStack

(* An answer with events has one for each that was submitted: the closure    *)
(* only ends well when all are resolved, each with its outcome.              *)
Answered == reply.kind = "events" => DOMAIN reply.entries = DOMAIN call.inputs

(* and gives each event of the input its answer.                             *)
LEMMA AnsweredNext == IInv /\ Answered /\ [Next]_vars => Answered'
  <1> SUFFICES ASSUME IInv, Answered, [Next]_vars PROVE Answered'
    OBVIOUS
  <1>1. CASE Execute \/ Validate \/ Performance
    <2>1. PICK c : Begin(c)
      BY <1>1, BeginWith
    <2>2. reply'.kind \in {"refused", "none"}
      BY <2>1 DEF Begin, Reply, NoReply
    <2>3. QED  BY <2>2 DEF Answered
  <1>2. CASE Deliver
    <2>1. CASE call.api \in {"validate", "performance"}
      <3>1. reply'.kind # "events"
        BY <1>2, <2>1 DEF Deliver, Answer, Reply
      <3>2. QED  BY <3>1 DEF Answered
    <2>2. CASE call.api \notin {"validate", "performance"}
      <3>1. /\ work = "done" /\ UNCHANGED call
            /\ reply'.entries = [i \in DOMAIN outcomes |-> Entry(i)]
        BY <1>2, <2>2 DEF Deliver, Answer, Reply
      <3>2. DOMAIN outcomes = 1..Len(call.inputs)
        <4>1. Len(outcomes) = Len(call.inputs)
          BY <2>2, <3>1 DEF IInv, Counting, TotalEvents
        <4>2. PICK S : outcomes \in Seq(S)
          BY DEF IInv, Counting
        <4>3. QED  BY <4>1, <4>2
      <3>3. QED  BY <3>1, <3>2 DEF Answered, IInv, CallOK
    <2>3. QED  BY <2>1, <2>2
  <1>3. CASE Raise \/ ConversionFails
    <2>1. /\ work \in Ends
          /\ reply' \in {Reply("invalid", <<>>, 0), Reply(work, <<>>, 0),
                        Reply("conversion_error", <<>>, 0)}
      BY <1>3 DEF Raise, ConversionFails, Answer, IInv, Once
    <2>2. reply'.kind # "events"
      BY <2>1 DEF Reply, Ends
    <2>3. QED  BY <2>2 DEF Answered
  <1>4. CASE \/ SpawnThread \/ SpawnFails \/ Join \/ OnVrlStack \/ UNCHANGED vars
    <2>1. UNCHANGED <<call, reply>>
      BY <1>4 DEF SpawnThread, SpawnFails, Join, OnVrlStack, TakeWork, Compile,
                  StartEvent, RefuseEvent, Statement, Terminate, Resolved, EndEvent,
                  Panics, AllResolved, vars
    <2>2. QED  BY <2>1 DEF Answered
  <1>5. QED  BY <1>1, <1>2, <1>3, <1>4 DEF Next, Caller

(* There are no more outcomes than inputs.                                   *)
LEMMA OutcomesFit ==
  ASSUME IInv
  PROVE  DOMAIN outcomes \subseteq 1..Len(call.inputs)
  <1>1. Len(call.inputs) \in Nat /\ done \in Nat
    BY DEF IInv, CallOK, TypeOK
  <1>2. Len(outcomes) <= Len(call.inputs)
    <2>1. CASE call.api = "performance"
      BY <1>1, <2>1 DEF IInv, Counting
    <2>2. CASE call.api # "performance"
      <3>1. TotalEvents(call) \in {0, Len(call.inputs)}
        BY <2>2 DEF TotalEvents
      <3>2. QED  BY <1>1, <2>2, <3>1 DEF IInv, Counting
    <2>3. QED  BY <2>1, <2>2
  <1>3. PICK S : outcomes \in Seq(S)
    BY DEF IInv, Counting
  <1>4. QED  BY <1>1, <1>2, <1>3

(* What json_to_vrl_value and vrl_value_to_json together make of a value     *)
(* that was accepted is that value with the known losses.                    *)
LEMMA ArrivedFromJson ==
  ASSUME NEW v \in JsonValue, "over" \notin v.leaves,
         "inf" \notin FromJson(v).leaves
  PROVE  Arrived(ToPython(FromJson(v)), v)
  <1>1. Texts \intersect Kinds = {}
    BY EventRunAssumption
  <1>2. ToPython(FromJson(v)).leaves =
          {ToJson(IF x \in OverLeaves THEN "rounded" ELSE x) : x \in v.leaves}
    BY DEF ToPython, FromJson, JsonValue, Nest
  <1>3. ToPython(FromJson(v)).nested = v.nested
    BY DEF ToPython, FromJson, JsonValue, Nest
  <1>4. v.leaves \subseteq Texts \union {"null", "beyond"}
    BY DEF JsonValue, JsonLeaf, Nest
  <1>5. \A x \in Texts \union {"null"} :
          ToJson(IF x \in OverLeaves THEN "rounded" ELSE x) = x
    BY <1>1 DEF ToJson, OverLeaves, Kinds
  <1>6. ToJson(IF "beyond" \in OverLeaves THEN "rounded" ELSE "beyond") = "rounded"
    BY DEF ToJson, OverLeaves
  <1>7. QED
    BY <1>1, <1>2, <1>3, <1>4, <1>5, <1>6 DEF Arrived, Kinds

(* A value a program assigned suffers the known losses only.                 *)
LEMMA ArrivedMade ==
  ASSUME NEW v \in Nest(MadeLeaf), "inf" \notin v.leaves
  PROVE  Arrived(ToPython(v), v)
  <1>1. Texts \intersect Kinds = {}
    BY EventRunAssumption
  <1>2. /\ ToPython(v).leaves = {ToJson(x) : x \in v.leaves}
        /\ ToPython(v).nested = v.nested
    BY DEF ToPython, Nest
  <1>3. v.leaves \subseteq Texts \union {"null", "bytes", "stamp"}
    BY DEF MadeLeaf, Nest
  <1>4. \A x \in Texts \union {"null"} : ToJson(x) = x
    BY <1>1 DEF ToJson, Kinds
  <1>5. ToJson("bytes") = "lossy" /\ ToJson("stamp") = "written"
    BY DEF ToJson
  <1>6. QED
    BY <1>1, <1>2, <1>3, <1>4, <1>5 DEF Arrived, Kinds

(* A scalar text or null arrives as it is.                                   *)
LEMMA ScalarArrives ==
  ASSUME NEW x \in Texts \union {"null"}
  PROVE  ToPython(Scalar(x)) = Scalar(x) /\ Arrived(Scalar(x), Scalar(x))
  <1>1. Texts \intersect Kinds = {}
    BY EventRunAssumption
  <1>2. ToJson(x) = x
    BY <1>1 DEF ToJson, Kinds
  <1>3. {ToJson(y) : y \in {x}} = {x}
    BY <1>2
  <1>4. ToPython(Scalar(x)) = Scalar(x)
    <2> DEFINE s == Scalar(x)
    <2>1. s = [nested |-> FALSE, leaves |-> {x}]
      BY DEF Scalar
    <2>2. s.leaves = {x} /\ s.nested = FALSE /\ s \in [nested : BOOLEAN, leaves : {{x}}]
      BY <2>1
    <2> HIDE DEF s
    <2>3. /\ ToPython(s) \in [nested : BOOLEAN, leaves : {{x}}]
          /\ ToPython(s).nested = FALSE
      BY <1>2, <2>2 DEF ToPython
    <2>4. ToPython(s) = s
      BY <2>2, <2>3
    <2> QED
      BY <2>4 DEF s
  <1>5. QED  BY <1>1, <1>4 DEF Arrived, Scalar, Kinds

(* The losses the code admits are the only ones between an input or a        *)
(* statement and the dict of an event that did not fail, for every program   *)
(* and every event.                                                          *)
THEOREM LossesAreAlwaysKnown == Spec => []OnlyKnownLosses
  <1>1. ASSUME IInv, Values, Answered PROVE OnlyKnownLosses
    <2>1. SUFFICES ASSUME NEW i \in DOMAIN reply.entries, outcomes[i].result = "ok",
                          NEW f \in Fields
                   PROVE  LET p    == call.program
                              raw  == call.inputs[i]
                              dict == reply.entries[i].event
                              k    == Len(p) + 1
                          IN  /\ f \in DOMAIN dict <=> Present(p, k, raw, f)
                              /\ Before(p, k, {"replace"}) = {} /\ f \in DOMAIN dict =>
                                   IF WritesTo(p, k, f) = {}
                                   THEN Arrived(dict[f], SentAs(raw, f))
                                   ELSE LET s == p[Latest(WritesTo(p, k, f))]
                                            w == Latest(WritesTo(p, k, f))
                                        IN  IF s.op = "assign"
                                            THEN Arrived(dict[f], s.value)
                                            ELSE dict[f] =
                                              IF SecretIsSet(p, w, call.seeds, s.key)
                                              THEN Scalar(SecretSet(p, w, call.seeds,
                                                                    s.key))
                                              ELSE Scalar("null")
      BY <1>1 DEF OnlyKnownLosses, Answered
    <2> DEFINE p    == call.program
               raw  == call.inputs[i]
               dict == reply.entries[i].event
               k    == Len(p) + 1
               W    == WritesTo(p, k, f)
               w    == Latest(W)
               s    == p[w]
               set  == SecretIsSet(p, w, call.seeds, s.key)
               text == SecretSet(p, w, call.seeds, s.key)
    <2>2. /\ dict = [g \in DOMAIN outcomes[i].fields |->
                      ToPython(outcomes[i].fields[g])]
          /\ OwnFields(outcomes[i], raw)
      BY <1>1, <2>1 DEF Values, ReplyValues, OutcomeValues, DictOf
    <2>3. f \in DOMAIN dict <=> Present(p, k, raw, f)
      BY <2>2 DEF OwnFields
    <2>4. ASSUME Unreplaced(p, k), f \in DOMAIN dict
          PROVE  /\ dict[f] = ToPython(Arrives(p, k, raw, f))
                 /\ "inf" \notin Arrives(p, k, raw, f).leaves
                 /\ Arrives(p, k, raw, f) \in Value
                 /\ Present(p, k, raw, f)
      BY <2>2, <2>4 DEF OwnFields
    <2>5. /\ i \in DOMAIN call.inputs /\ IsRawEvent(raw) /\ Decodes(raw)
          /\ p \in Seq(Statements)
      <3>1. i \in DOMAIN outcomes
        BY <1>1, <2>1 DEF Values, ReplyValues
      <3>2. OwnOutcome(outcomes[i], raw)
        BY <1>1, <3>1 DEF IInv, OutcomesAreTheEventsOwn
      <3>3. i \in 1..Len(call.inputs)
        BY <1>1, <3>1, OutcomesFit
      <3>4. QED  BY <1>1, <2>1, <3>2, <3>3 DEF IInv, CallOK, OwnOutcome
    <2>6. ASSUME Unreplaced(p, k), f \in DOMAIN dict, W = {}
          PROVE  Arrived(dict[f], SentAs(raw, f))
      <3>1. Arrives(p, k, raw, f) = EventOf(raw)[f]
        BY <2>6 DEF Arrives
      <3>2. f \in DOMAIN EventOf(raw)
        BY <2>4, <2>6 DEF Present
      <3>3. CASE raw.json
        <4>1. /\ EventOf(raw)[f] = FromJson(raw.fields[f])
              /\ f \in DOMAIN raw.fields
          BY <3>2, <3>3 DEF EventOf
        <4>2. raw.fields[f] \in JsonValue /\ "over" \notin raw.fields[f].leaves
          BY <2>5, <3>3, <4>1 DEF IsRawEvent, Decodes, Holds
        <4>3. QED  BY <2>4, <2>6, <3>1, <3>3, <4>1, <4>2, ArrivedFromJson DEF SentAs
      <3>4. CASE ~raw.json
        <4>1. f = "message" /\ EventOf(raw)[f] = Scalar(raw.text)
          BY <3>2, <3>4 DEF EventOf
        <4>2. raw.text \in Texts
          BY <2>5 DEF IsRawEvent
        <4>3. QED  BY <2>4, <2>6, <3>1, <3>4, <4>1, <4>2, ScalarArrives DEF SentAs
      <3>5. QED  BY <3>3, <3>4
    <2>7. ASSUME Unreplaced(p, k), f \in DOMAIN dict, W # {}
          PROVE  /\ s.op = "assign" => Arrived(dict[f], s.value)
                 /\ s.op # "assign" => dict[f] = IF set THEN Scalar(text) ELSE Scalar("null")
      <3>1. Arrives(p, k, raw, f) =
              IF s.op = "assign" THEN s.value
              ELSE IF set THEN Scalar(text) ELSE Scalar("null")
        BY <2>7 DEF Arrives
      <3>2. CASE s.op = "assign"
        <4>1. s.value \in Nest(MadeLeaf)
          BY <2>2, <2>7, <3>2 DEF OwnFields, OfProgram
        <4>2. QED  BY <2>4, <2>7, <3>1, <3>2, <4>1, ArrivedMade
      <3>3. CASE s.op # "assign"
        <4>1. ASSUME set PROVE text \in Texts
          BY <2>2, <2>7, <3>3, <4>1 DEF OwnFields, OfProgram
        <4>2. QED  BY <2>4, <2>7, <3>1, <3>3, <4>1, ScalarArrives
      <3>4. QED  BY <3>2, <3>3
    <2> HIDE DEF dict, W, w, s, set, text
    <2>8. QED  BY <2>3, <2>6, <2>7 DEF Unreplaced, dict, W, w, s, set, text
  <1>2. Init => Answered
    BY DEF Init, NoReply, Reply, Answered
  <1>3. QED
    BY <1>1, <1>2, EventRunInvariance, ValuesInit, ValuesNext, AnsweredNext, PTL DEF Spec
=============================================================================
