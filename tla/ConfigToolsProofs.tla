------------------------- MODULE ConfigToolsProofs -------------------------
(* What the calls that take a config promise, proved for all configs, inputs *)
(* and numbers of threads and directories.                                   *)
EXTENDS ConfigTools, FiniteSetTheorems, FunctionTheorems, TLAPS

(* A walk along the inputs: it starts at the head, each transform is fed by  *)
(* the one before it, none comes twice, and if there is a chain it is the    *)
(* walk's.                                                                   *)
IsWalk(c, o) ==
  /\ AllInline(c) /\ Linear(c)
  /\ o \in Seq(DOMAIN c) /\ o # <<>>
  /\ Upstream(c, o[1]) = {}
  /\ \A i \in 2..Len(o) : Feeds(c, o[i - 1], o[i])
  /\ \A i, j \in 1..Len(o) : o[i] = o[j] => i = j
  /\ \A q \in [1..Cardinality(DOMAIN c) -> DOMAIN c] :
       IsChain(c, q) =>
         /\ Len(o) <= Cardinality(DOMAIN c)
         /\ \A i \in 1..Len(o) : o[i] = q[i]

-----------------------------------------------------------------------------
(* What feeds a transform is unique in a linear config, both ways.           *)
LEMMA FeedsOnce ==
  ASSUME NEW c, Linear(c), NEW x \in DOMAIN c, NEW y \in DOMAIN c, NEW z \in DOMAIN c
  PROVE  /\ Feeds(c, x, z) /\ Feeds(c, y, z) => x = y
         /\ Feeds(c, z, x) /\ Feeds(c, z, y) => x = y
         /\ Feeds(c, x, z) => \E k \in DOMAIN c[z].inputs :
                                Upstream(c, z) = {k} /\ c[z].inputs[k] = x
<1>1. AtMostOne(Upstream(c, z)) /\ AtMostOne(Following(c, z))
  BY DEF Linear
<1>2. Feeds(c, x, z) /\ Feeds(c, y, z) => x = y
  BY <1>1 DEF Feeds, AtMostOne
<1>3. Feeds(c, z, x) /\ Feeds(c, z, y) => x = y
  BY <1>1 DEF Following, AtMostOne
<1>4. ASSUME Feeds(c, x, z)
      PROVE  \E k \in DOMAIN c[z].inputs : Upstream(c, z) = {k} /\ c[z].inputs[k] = x
  <2>1. PICK k \in Upstream(c, z) : c[z].inputs[k] = x
    BY <1>4 DEF Feeds
  <2>2. Upstream(c, z) = {k}
    BY <1>1, <2>1 DEF AtMostOne
  <2> QED
    BY <2>1, <2>2 DEF Upstream
<1> QED
  BY <1>2, <1>3, <1>4

(* Where a chain has a transform, the one it feeds comes next.               *)
LEMMA ChainFeeds ==
  ASSUME NEW c, NEW n \in Nat, NEW q \in [1..n -> DOMAIN c], IsChain(c, q),
         NEW x \in DOMAIN c, NEW y \in DOMAIN c, Feeds(c, x, y)
  PROVE  \E i \in 2..n : q[i] = y /\ q[i - 1] = x
<1>1. PICK i \in 1..n : q[i] = y
  BY DEF IsChain
<1>2. Upstream(c, y) # {}
  BY DEF Feeds
<1>3. i # 1
  BY <1>1, <1>2 DEF IsChain
<1>4. PICK k \in DOMAIN c[y].inputs : Upstream(c, y) = {k} /\ c[y].inputs[k] = q[i - 1]
  BY <1>1, <1>3 DEF IsChain
<1>5. q[i - 1] = x
  BY <1>4 DEF Feeds
<1> QED
  BY <1>1, <1>3, <1>5

(* A config that forms a chain passes the checks on its degrees.             *)
LEMMA ChainIsLinear ==
  ASSUME NEW c, IsFiniteSet(DOMAIN c), FormChain(c)
  PROVE  Linear(c)
<1> DEFINE n == Cardinality(DOMAIN c)
<1>1. PICK q \in [1..n -> DOMAIN c] : IsChain(c, q)
  BY DEF FormChain
<1>2. n \in Nat /\ n # 0
  BY FS_CardinalityType, FS_EmptySet DEF FormChain, AllInline
<1> HIDE DEF n
<1>3. 1 \in 1..n /\ q[1] \in DOMAIN c /\ Upstream(c, q[1]) = {}
  BY <1>1, <1>2 DEF IsChain
<1>4. ASSUME NEW x \in Heads(c) PROVE x = q[1]
  <2>1. PICK i \in 1..n : q[i] = x
    BY <1>1, <1>4 DEF IsChain, Heads
  <2>2. Upstream(c, q[i]) = {}
    BY <1>4, <2>1 DEF Heads
  <2>3. i = 1
    BY <1>1, <2>1, <2>2 DEF IsChain
  <2> QED
    BY <2>1, <2>3
<1>5. Heads(c) # {} /\ AtMostOne(Heads(c))
  BY <1>3, <1>4 DEF Heads, AtMostOne
<1>6. ASSUME NEW x \in DOMAIN c PROVE AtMostOne(Upstream(c, x))
  <2>1. PICK i \in 1..n : q[i] = x
    BY <1>1, <1>6 DEF IsChain
  <2>2. Upstream(c, x) = {} \/ \E k : Upstream(c, x) = {k}
    BY <1>1, <2>1 DEF IsChain
  <2> QED
    BY <2>2 DEF AtMostOne
<1>7. ASSUME NEW x \in DOMAIN c PROVE AtMostOne(Following(c, x))
  <2>1. ASSUME NEW w \in DOMAIN c, Feeds(c, x, w)
        PROVE  \E i \in 2..n : q[i] = w /\ q[i - 1] = x
    <3>1. n \in Nat /\ q \in [1..n -> DOMAIN c] /\ IsChain(c, q)
      BY <1>1, <1>2
    <3> QED
      BY ONLY <1>7, <2>1, <3>1, ChainFeeds
  <2>2. ASSUME NEW i \in 2..n, NEW j \in 2..n, q[i - 1] = q[j - 1] PROVE i = j
    <3>1. \A a, b \in 1..n : q[a] = q[b] => a = b
      BY <1>1 DEF IsChain
    <3>2. i - 1 \in 1..n /\ j - 1 \in 1..n
      BY <1>2
    <3>3. i - 1 = j - 1
      BY <2>2, <3>1, <3>2
    <3> QED
      BY <3>3
  <2>3. ASSUME NEW y \in Following(c, x), NEW z \in Following(c, x) PROVE y = z
    <3>1. \E i \in 2..n : q[i] = y /\ q[i - 1] = x
      BY <2>1, <2>3 DEF Following
    <3>2. \E j \in 2..n : q[j] = z /\ q[j - 1] = x
      BY <2>1, <2>3 DEF Following
    <3> QED
      BY <2>2, <3>1, <3>2
  <2> QED
    BY <2>3 DEF AtMostOne
<1> QED
  BY <1>5, <1>6, <1>7 DEF Linear

(* A head alone is a walk.                                                   *)
LEMMA HeadIsWalk ==
  ASSUME NEW c, IsFiniteSet(DOMAIN c), AllInline(c), Linear(c), NEW head \in Heads(c)
  PROVE  IsWalk(c, <<head>>)
<1> DEFINE n == Cardinality(DOMAIN c)
           o == <<head>>
<1>1. n \in Nat /\ n # 0
  BY FS_CardinalityType, FS_EmptySet DEF AllInline
<1> HIDE DEF n
<1>2. head \in DOMAIN c /\ Upstream(c, head) = {}
  BY DEF Heads
<1>3. o \in Seq(DOMAIN c) /\ o # <<>> /\ Len(o) = 1 /\ o[1] = head
  BY <1>2
<1>4. ASSUME NEW q \in [1..n -> DOMAIN c], IsChain(c, q)
      PROVE  Len(o) <= n /\ \A i \in 1..Len(o) : o[i] = q[i]
  <2>1. q[1] \in DOMAIN c /\ Upstream(c, q[1]) = {}
    BY <1>1, <1>4 DEF IsChain
  <2>2. q[1] = head
    BY <2>1 DEF Linear, Heads, AtMostOne
  <2> QED
    BY <1>1, <1>3, <2>2
<1> QED
  BY <1>2, <1>3, <1>4 DEF IsWalk, n

(* So is a walk with the transform that its last one feeds.                  *)
LEMMA NextIsWalk ==
  ASSUME NEW c, IsFiniteSet(DOMAIN c), NEW o, IsWalk(c, o),
         NEW next \in Following(c, o[Len(o)])
  PROVE  IsWalk(c, Append(o, next))
<1> DEFINE n == Cardinality(DOMAIN c)
           p == Append(o, next)
<1>1. n \in Nat
  BY FS_CardinalityType
<1> HIDE DEF n
<1>2. /\ o \in Seq(DOMAIN c) /\ Len(o) \in Nat /\ Len(o) # 0 /\ o[Len(o)] \in DOMAIN c
      /\ next \in DOMAIN c /\ Feeds(c, o[Len(o)], next)
  BY DEF IsWalk, Following
<1>3. /\ p \in Seq(DOMAIN c) /\ p # <<>> /\ Len(p) = Len(o) + 1 /\ p[Len(o) + 1] = next
      /\ \A i \in 1..Len(o) : p[i] = o[i] /\ o[i] \in DOMAIN c
  BY <1>2
<1> HIDE DEF p
<1>4. Upstream(c, p[1]) = {}
  BY <1>2, <1>3 DEF IsWalk
<1>5. ASSUME NEW i \in 2..Len(p) PROVE Feeds(c, p[i - 1], p[i])
  <2>1. CASE i = Len(o) + 1
    BY <1>2, <1>3, <2>1
  <2>2. CASE i # Len(o) + 1
    <3>1. i \in 2..Len(o) /\ i - 1 \in 1..Len(o) /\ i \in 1..Len(o)
      BY <1>2, <1>3, <2>2
    <3> QED
      BY <1>3, <3>1 DEF IsWalk
  <2> QED
    BY <2>1, <2>2
<1>6. ASSUME NEW i \in 1..Len(o) PROVE o[i] # next
  <2>1. CASE i = 1
    <3>1. Upstream(c, next) # {}
      BY <1>2 DEF Feeds
    <3> QED
      BY <2>1, <3>1 DEF IsWalk
  <2>2. CASE i # 1
    <3>1. i \in 2..Len(o) /\ i - 1 \in 1..Len(o) /\ Feeds(c, o[i - 1], o[i]) /\ Linear(c)
      BY <1>2, <2>2 DEF IsWalk
    <3>2. o[i] = next => o[i - 1] = o[Len(o)]
      BY <1>2, <1>3, <3>1, FeedsOnce
    <3>3. o[i - 1] = o[Len(o)] => i - 1 = Len(o)
      BY <1>2, <3>1 DEF IsWalk
    <3> QED
      BY <1>2, <3>2, <3>3
  <2> QED
    BY <2>1, <2>2
<1>7. ASSUME NEW i \in 1..Len(p), NEW j \in 1..Len(p), p[i] = p[j] PROVE i = j
  <2>1. (i \in 1..Len(o) \/ i = Len(o) + 1) /\ (j \in 1..Len(o) \/ j = Len(o) + 1)
    BY <1>2, <1>3
  <2> QED
    BY <1>3, <1>6, <1>7, <2>1 DEF IsWalk
<1>8. ASSUME NEW q \in [1..n -> DOMAIN c], IsChain(c, q)
      PROVE  Len(p) <= n /\ \A i \in 1..Len(p) : p[i] = q[i]
  <2>1. Len(o) <= n /\ \A i \in 1..Len(o) : o[i] = q[i]
    BY <1>8 DEF IsWalk, n
  <2>2. PICK i \in 2..n : q[i] = next /\ q[i - 1] = o[Len(o)]
    BY <1>1, <1>2, <1>8, ChainFeeds
  <2>3. q[i - 1] = q[Len(o)] /\ i - 1 \in 1..n /\ Len(o) \in 1..n
    BY <1>1, <1>2, <2>1, <2>2
  <2>4. i - 1 = Len(o)
    BY <1>8, <2>3 DEF IsChain
  <2>5. i = Len(o) + 1
    BY <1>2, <2>2, <2>4
  <2> QED
    BY <1>1, <1>2, <1>3, <2>1, <2>2, <2>5
<1> QED
  BY <1>3, <1>4, <1>5, <1>7, <1>8 DEF IsWalk, p, n

(* A walk that met every transform is a chain, although nothing looked for a *)
(* cycle.                                                                    *)
LEMMA CompleteIsChain ==
  ASSUME NEW c, IsFiniteSet(DOMAIN c), NEW o, IsWalk(c, o), Complete(c, o)
  PROVE  IsChain(c, o)
<1>1. /\ o \in Seq(DOMAIN c) /\ Len(o) \in Nat /\ o \in [1..Len(o) -> DOMAIN c]
      /\ DOMAIN o = 1..Len(o) /\ Linear(c)
  BY DEF IsWalk
<1>2. o \in Injection(1..Len(o), DOMAIN c)
  <2>1. \A i, j \in 1..Len(o) : o[i] = o[j] => i = j
    BY DEF IsWalk
  <2> QED
    BY <1>1, <2>1, Fun_IsInj
<1>3. IsFiniteSet(1..Len(o)) /\ Cardinality(1..Len(o)) = Len(o)
  <2> DEFINE n == Len(o)
  <2>1. n \in Nat /\ 1 \in Int /\ n \in Int /\ 1 <= n + 1
    BY <1>1
  <2> HIDE DEF n
  <2>2. IsFiniteSet(1..n) /\ Cardinality(1..n) = IF 1 > n THEN 0 ELSE n - 1 + 1
    BY <2>1, FS_Interval
  <2>3. Cardinality(1..n) = n
    BY <2>1, <2>2
  <2> QED
    BY <2>2, <2>3 DEF n
<1>4. o \in Surjection(1..Len(o), DOMAIN c)
  BY <1>2, <1>3, FS_Injection DEF Complete
<1>5. ASSUME NEW name \in DOMAIN c PROVE \E i \in DOMAIN o : o[i] = name
  BY <1>1, <1>4 DEF Surjection
<1>6. ASSUME NEW i \in DOMAIN o, i # 1
      PROVE  \E k \in DOMAIN c[o[i]].inputs :
               Upstream(c, o[i]) = {k} /\ c[o[i]].inputs[k] = o[i - 1]
  <2>1. i \in 2..Len(o) /\ o[i] \in DOMAIN c /\ o[i - 1] \in DOMAIN c
    BY <1>1, <1>6
  <2>2. Feeds(c, o[i - 1], o[i])
    BY <2>1 DEF IsWalk
  <2> QED
    BY <1>1, <2>1, <2>2, FeedsOnce
<1> QED
  BY <1>1, <1>5, <1>6 DEF IsChain, IsWalk

(* A walk that ends before it met every transform shows there is no chain.   *)
LEMMA PartialIsNoChain ==
  ASSUME NEW c, IsFiniteSet(DOMAIN c), NEW o, IsWalk(c, o), ~Complete(c, o),
         Following(c, o[Len(o)]) = {}
  PROVE  ~FormChain(c)
<1> DEFINE n == Cardinality(DOMAIN c)
<1> SUFFICES ASSUME FormChain(c) PROVE FALSE
  OBVIOUS
<1>1. PICK q \in [1..n -> DOMAIN c] : IsChain(c, q)
  BY DEF FormChain
<1>2. n \in Nat
  BY FS_CardinalityType
<1>3. Len(o) <= n /\ \A i \in 1..Len(o) : o[i] = q[i]
  BY <1>1 DEF IsWalk
<1>4. Len(o) \in Nat /\ Len(o) # 0 /\ Len(o) # n
  BY DEF IsWalk, Complete
<1> HIDE DEF n
<1>5. /\ Len(o) \in 1..n /\ Len(o) + 1 \in 1..n /\ Len(o) + 1 # 1
      /\ (Len(o) + 1) - 1 = Len(o) /\ q[Len(o) + 1] \in DOMAIN c
  BY <1>2, <1>3, <1>4
<1>6. Feeds(c, q[Len(o)], q[Len(o) + 1])
  BY <1>1, <1>5 DEF IsChain, Feeds
<1>7. q[Len(o)] = o[Len(o)]
  BY <1>3, <1>4
<1> QED
  BY <1>5, <1>6, <1>7 DEF Following

-----------------------------------------------------------------------------
Happened == [of : Threads, line : Nat]
Answered == [says : {"nothing", "not_a_chain", "raises", "failure", "success"},
             results : SUBSET Happened]

Types ==
  /\ tables \subseteq TableNames
  /\ stage \in [Threads -> Stages]
  /\ config \in [Threads -> Configs \union {NoConfig}]
  /\ input \in [Threads -> Inputs \union {<<>>}]
  /\ order \in [Threads -> Seq(Names)]
  /\ verdicts \in [Threads -> SUBSET [name : Names, verdict : Verdicts,
                                          seen : SUBSET TableNames]]
  /\ directory \in [Threads -> Directories \union {NoDirectory}]
  /\ DOMAIN disk \subseteq Directories /\ disk \in [DOMAIN disk -> SUBSET Happened]
  /\ vector \in [Threads -> {"none", "running", "killed", "done", "failed"}]
  /\ taken \in [Threads -> SUBSET Nat]
  /\ buffer \in [Threads -> SUBSET Nat]
  /\ answer \in [Threads -> Answered]

(* What a thread has of a call at each stage of it. *)
Running == {"start", "wait", "reap", "read", "clean"}

Standing(t) ==
  /\ stage[t] # "python" => config[t] \in Configs
  /\ stage[t] \in {"python", "check"} => order[t] = <<>>
  /\ stage[t] = "prepare" => order[t] # <<>>
  /\ verdicts[t] # {} => stage[t] \in {"check", "return"}
  /\ answer[t] # Nothing => stage[t] \in {"clean", "return"}
  /\ Runs(t) => stage[t] \in Running /\ order[t] # <<>>
  /\ stage[t] \in Running /\ order[t] # <<>> => Runs(t)

Path(t) ==
  /\ order[t] # <<>> => IsWalk(config[t], order[t])
  /\ stage[t] = "prepare" \/ Runs(t) => Complete(config[t], order[t])

(* A vector process lives while it is waited for.                            *)
Process(t) ==
  /\ vector[t] # "none" => stage[t] \in {"wait", "reap", "read"}
  /\ stage[t] = "reap" => vector[t] # "running"
  /\ stage[t] = "read" => vector[t] \in {"done", "failed"}
  /\ vector[t] \notin {"running", "killed"} => taken[t] = {} /\ buffer[t] = {}
  /\ buffer[t] \subseteq taken[t] /\ taken[t] \subseteq DOMAIN input[t]
  /\ \A n \in buffer[t] : Survives(config[t], input[t][n])

(* Each run has a directory of its own.                                      *)
Files ==
  /\ \A t \in Threads : Runs(t) => directory[t] \in DOMAIN disk
  /\ \A t, u \in Threads : Runs(t) /\ directory[t] = directory[u] => t = u

(* What vector has taken and no program aborts it holds or has written.      *)
Work(t) ==
  Runs(t) =>
    /\ Output(t) \subseteq Expected(t)
    /\ vector[t] \in {"running", "killed"} =>
         \A n \in taken[t] : Survives(config[t], input[t][n]) =>
           n \in buffer[t] \/ [of |-> t, line |-> n] \in Output(t)
    /\ vector[t] = "done" => Output(t) = Expected(t)
    /\ stage[t] = "start" => Output(t) = {}

Reply(t) ==
  /\ answer[t].results \subseteq Expected(t)
  /\ answer[t].says = "success" /\ order[t] # <<>> => answer[t].results = Expected(t)
  /\ answer[t].says = "not_a_chain" => ~FormChain(config[t])

(* What is said of a transform, when these names were registered, and of a   *)
(* whole config.                                                             *)
IsFair(verdict, transform, seen) ==
  /\ verdict = "failed" =>
       transform.wrong \/ ( /\ ~(transform.tables \subseteq seen)
                           /\ seen \intersect BrokenNames # {} )
  /\ transform.wrong /\ transform.kind = "inline" => verdict = "failed"
  /\ verdict = "ok" => ~transform.sandboxed /\ transform.tables \subseteq seen

Fair(t) ==
  /\ \A said \in verdicts[t] :
       /\ said.name \in DOMAIN config[t]
       /\ IsFair(said.verdict, config[t][said.name], said.seen)
  /\ verdicts[t] # {} /\ answer[t].says = "success" =>
       DOMAIN config[t] = Judged(t) /\ ~Failed(t)

Holds(t) == Standing(t) /\ Path(t) /\ Process(t) /\ Work(t) /\ Reply(t) /\ Fair(t)

IInv == Types /\ Files /\ \A t \in Threads : Holds(t)

-----------------------------------------------------------------------------
(* A config is a finite map from names to transforms.                        *)
LEMMA ConfigFacts ==
  ASSUME NEW c \in Configs
  PROVE  /\ DOMAIN c \subseteq Names /\ IsFiniteSet(DOMAIN c)
         /\ \A name \in DOMAIN c : c[name] \in Transforms
BY ToolsAssumption DEF IsConfig

(* No thread is in a call and no directory exists at the start.              *)
LEMMA ToolsInit == Init => IInv
<1> SUFFICES ASSUME Init PROVE IInv
  OBVIOUS
<1>1. Types
  BY DEF Init, Types, Stages, Answered, Nothing, Happened
<1>2. \A t \in Threads : ~Runs(t)
  BY DEF Init, Runs
<1>3. Files
  BY <1>2 DEF Init, Files
<1>4. ASSUME NEW t \in Threads PROVE Holds(t)
  <2>1. Standing(t)
    BY <1>2 DEF Init, Standing
  <2>2. Path(t)
    BY <1>2 DEF Init, Path
  <2>3. Process(t)
    BY DEF Init, Process
  <2>4. Work(t)
    BY <1>2 DEF Work
  <2>5. Reply(t)
    BY DEF Init, Reply, Nothing
  <2>6. Fair(t)
    BY DEF Init, Fair
  <2> QED
    BY <2>1, <2>2, <2>3, <2>4, <2>5, <2>6 DEF Holds
<1> QED
  BY <1>1, <1>3, <1>4 DEF IInv

(* A verdict is one of the five, and fair.                                   *)
LEMMA VerdictIsFair ==
  ASSUME NEW transform \in Transforms
  PROVE  /\ Verdict(transform) \in Verdicts
         /\ IsFair(Verdict(transform), transform,
                   IF transform.tables = {} THEN {} ELSE tables)
<1> DEFINE lines == ErrorLines(transform)
<1>1. /\ "left_out_function" \in lines <=> transform.sandboxed
      /\ "unknown_table" \in lines <=> ~(transform.tables \subseteq tables)
      /\ "anything_else" \in lines <=> transform.wrong \/ NameBreaks(transform)
      /\ lines \subseteq {"left_out_function", "unknown_table", "anything_else"}
  BY DEF ErrorLines
<1>2. AllExcused(lines) <=> "anything_else" \notin lines
  BY <1>1 DEF AllExcused
<1> DEFINE seen == IF transform.tables = {} THEN {} ELSE tables
<1>3. /\ transform.tables \subseteq tables <=> transform.tables \subseteq seen
      /\ NameBreaks(transform) =>
           ~(transform.tables \subseteq seen) /\ seen \intersect BrokenNames # {}
  BY DEF NameBreaks
<1> HIDE DEF lines
<1>4. /\ transform.kind = "inline" =>
           Verdict(transform) = IF lines = {} THEN "ok"
                                ELSE IF AllExcused(lines) THEN "unchecked" ELSE "failed"
      /\ transform.kind = "file" => Verdict(transform) = "skipped"
      /\ transform.kind = "not_remap" => Verdict(transform) = "not_remap"
      /\ transform.kind \in {"inline", "file", "not_remap"}
  BY DEF Verdict, lines, Transforms
<1> HIDE DEF seen
<1>5. IsFair(Verdict(transform), transform, seen) /\ Verdict(transform) \in Verdicts
  BY <1>1, <1>2, <1>3, <1>4 DEF IsFair, Verdicts
<1> QED
  BY <1>5 DEF seen

(* Every step keeps the types.                                               *)
LEMMA CallTypes ==
  ASSUME IInv, NEW t \in Threads, Call(t)
  PROVE  Types'
<1> USE DEF Stages
<1>1. Types /\ Standing(t)
  BY DEF IInv, Holds
<1>2. PICK c \in Configs :
        \/ CallCheck(t, c) \/ CallValidate(t, c)
        \/ \E lines \in Inputs :
             CallRun(t, c, lines) \/ \E name \in DOMAIN c : CallTest(t, c, name, lines)
  BY DEF Call
<1>3. CASE CallCheck(t, c)
  BY <1>1, <1>3 DEF CallCheck, Moves, Types, process
<1>4. CASE CallValidate(t, c)
  BY <1>1, <1>4 DEF CallValidate, Moves, Types, process
<1>5. ASSUME NEW lines \in Inputs, CallRun(t, c, lines) PROVE Types'
  BY <1>1, <1>5 DEF CallRun, Moves, Types, process
<1>6. ASSUME NEW lines \in Inputs, NEW name \in DOMAIN c, CallTest(t, c, name, lines)
      PROVE  Types'
  <2>1. <<name>> \in Seq(Names)
    BY ConfigFacts, <1>6
  <2> QED
    BY <1>1, <1>6, <2>1 DEF CallTest, Moves, Types, process
<1> QED
  BY <1>2, <1>3, <1>4, <1>5, <1>6

(* A step of a thread keeps the types of the variables.                      *)
LEMMA ProceedTypes ==
  ASSUME IInv, NEW t \in Threads, Proceed(t)
  PROVE  Types'
<1> USE DEF Stages, process, call
<1>1. Types /\ Standing(t) /\ Path(t) /\ Work(t) /\ Files
  BY DEF IInv, Holds
<1>2. Nothing \in Answered /\ \A d \in DOMAIN disk : disk[d] \subseteq Happened
  BY <1>1 DEF Nothing, Answered, Types
<1>3. CASE CheckTransform(t)
  <2>1. PICK name \in DOMAIN config[t] :
          verdicts' = [verdicts EXCEPT ![t] = @ \union {Judgement(t, name)}]
    BY <1>3 DEF CheckTransform
  <2>2. config[t] \in Configs
    BY <1>1, <1>3 DEF CheckTransform, Standing
  <2>3. /\ name \in Names /\ Verdict(config[t][name]) \in Verdicts
        /\ tables \subseteq TableNames
    BY <1>1, <2>2, ConfigFacts, VerdictIsFair DEF Types
  <2>4. Judgement(t, name) \in [name : Names, verdict : Verdicts, seen : SUBSET TableNames]
    BY <2>3 DEF Judgement
  <2> QED
    BY <1>1, <1>3, <2>1, <2>4 DEF CheckTransform, Types
<1>4. CASE CheckDone(t)
  BY <1>1, <1>4 DEF CheckDone, Moves, Answers, Types, Answered
<1>5. CASE StartWalk(t)
  <2>1. PICK head \in Heads(config[t]) : order' = [order EXCEPT ![t] = <<head>>]
    BY <1>5 DEF StartWalk
  <2>2. config[t] \in Configs /\ head \in DOMAIN config[t]
    BY <1>1, <1>5 DEF StartWalk, Standing, Heads
  <2>3. <<head>> \in Seq(Names)
    BY <2>2, ConfigFacts
  <2> QED
    BY <1>1, <1>5, <2>1, <2>3 DEF StartWalk, Types
<1>6. CASE Walk(t)
  <2>1. PICK name \in After(t) : order' = [order EXCEPT ![t] = Append(@, name)]
    BY <1>6 DEF Walk
  <2>2. config[t] \in Configs /\ name \in DOMAIN config[t]
    BY <1>1, <1>6 DEF Walk, Standing, After, Following
  <2>3. name \in Names
    BY <2>2, ConfigFacts
  <2>4. Append(order[t], name) \in Seq(Names)
    BY <1>1, <2>3 DEF Types
  <2> QED
    BY <1>1, <1>6, <2>1, <2>4 DEF Walk, Types
<1>7. CASE Accept(t)
  BY <1>1, <1>7 DEF Accept, Moves, Types
<1>8. CASE Refuse(t)
  BY <1>1, <1>8 DEF Refuse, Moves, Answers, Types, Answered
<1>9. CASE NoBinary(t)
  BY <1>1, <1>9 DEF NoBinary, Moves, Answers, Types, Answered
<1>10. CASE MakeDirectory(t)
  <2>1. PICK d \in Directories :
          /\ directory' = [directory EXCEPT ![t] = d]
          /\ disk' = [e \in DOMAIN disk \union {d} |->
                      IF e \in DOMAIN disk THEN disk[e] ELSE {}]
    BY <1>10 DEF MakeDirectory, NewDirectory
  <2>2. DOMAIN disk' \subseteq Directories /\ disk' \in [DOMAIN disk' -> SUBSET Happened]
    BY <1>1, <1>2, <2>1 DEF Types
  <2>3. directory' \in [Threads -> Directories \union {NoDirectory}]
    BY <1>1, <2>1 DEF Types
  <2>4. stage' \in [Threads -> Stages]
    BY <1>1, <1>10 DEF MakeDirectory, Moves, Types
  <2>5. UNCHANGED <<tables, config, input, order, verdicts, vector, taken, buffer, answer>>
    BY <1>10 DEF MakeDirectory
  <2> QED
    BY <1>1, <2>2, <2>3, <2>4, <2>5 DEF Types
<1>11. CASE OSError(t)
  <2>1. PICK says \in {"failure", "raises"} : Answers(t, says, {})
    BY <1>11 DEF OSError
  <2>2. answer' \in [Threads -> Answered]
    BY <1>1, <2>1 DEF Answers, Types, Answered
  <2> QED
    BY <1>1, <1>11, <2>2 DEF OSError, Moves, Types
<1>12. CASE Spawn(t)
  BY <1>1, <1>12 DEF Spawn, Moves, Types
<1>13. CASE Collect(t)
  BY <1>1, <1>13 DEF Collect, Moves, Types
<1>14. CASE Timeout(t)
  BY <1>1, <1>14 DEF Timeout, Moves, Types
<1>15. CASE Reap(t)
  BY <1>1, <1>15 DEF Reap, Moves, Answers, Types, Answered
<1>16. CASE Read(t)
  <2>1. Output(t) \subseteq Happened
    BY <1>1, <1>2 DEF Output, Files
  <2> DEFINE broken == {event \in Output(t) : event.line \in Undecodable(event.of)}
             says   == IF vector[t] = "done" /\ broken = {} THEN "success" ELSE "failure"
  <2>2. says \in {"success", "failure"} /\ Output(t) \ broken \subseteq Happened
    BY <2>1
  <2>3. answer' = [answer EXCEPT ![t] = [says |-> says, results |-> Output(t) \ broken]]
    BY <1>16 DEF Read, Answers
  <2> HIDE DEF broken, says
  <2>4. answer' \in [Threads -> Answered]
    BY <1>1, <2>2, <2>3 DEF Types, Answered
  <2> QED
    BY <1>1, <1>16, <2>4 DEF Read, Moves, Types
<1>17. CASE Clean(t)
  BY <1>1, <1>2, <1>17 DEF Clean, Moves, Types
<1>18. CASE Return(t)
  BY <1>1, <1>2, <1>18 DEF Return, Moves, Types
<1>19. CASE ReadFails(t)
  BY <1>1, <1>19 DEF ReadFails, Moves, Answers, Types, Answered
<1>20. CASE CleanFails(t)
  BY <1>1, <1>20 DEF CleanFails, Moves, Types
<1> QED
  BY <1>3, <1>4, <1>5, <1>6, <1>7, <1>8, <1>9, <1>10, <1>11, <1>12, <1>13, <1>14,
     <1>15, <1>16, <1>17, <1>18, <1>19, <1>20 DEF Proceed

(* So does a step of its vector process.                                     *)
LEMMA VectorTypes ==
  ASSUME IInv, NEW t \in Threads, Vector(t) \/ Die(t)
  PROVE  Types'
<1> USE DEF Stages, process, call
<1>1. Types /\ Process(t) /\ Files
  BY DEF IInv, Holds
<1>2. ASSUME NEW d \in DOMAIN disk
      PROVE  [disk EXCEPT ![d] = @ \union Events(t)] \in [DOMAIN disk -> SUBSET Happened]
  <2>1. Events(t) \subseteq Happened
    BY <1>1 DEF Events, Happened, Types
  <2> QED
    BY <1>1, <2>1 DEF Types
<1>3. CASE Take(t)
  <2>1. PICK n \in DOMAIN input[t] \ taken[t] :
          /\ taken' = [taken EXCEPT ![t] = @ \union {n}]
          /\ buffer' = [buffer EXCEPT ![t] =
                          IF Survives(config[t], input[t][n]) THEN @ \union {n} ELSE @]
    BY <1>3 DEF Take
  <2>2. n \in Nat
    <3>1. input[t] \in Seq(Lines)
      BY <1>1, ToolsAssumption DEF Types
    <3> QED
      BY <2>1, <3>1
  <2>3. taken' \in [Threads -> SUBSET Nat]
    BY <1>1, <2>1, <2>2 DEF Types
  <2>4. buffer' \in [Threads -> SUBSET Nat]
    BY <1>1, <2>1, <2>2 DEF Types
  <2> QED
    BY <1>1, <1>3, <2>3, <2>4 DEF Take, Types
<1>4. CASE Write(t)
  BY <1>1, <1>2, <1>4 DEF Write, Written, Types
<1>5. CASE End(t)
  BY <1>1, <1>2, <1>5 DEF End, Ends, Working, FileSink, Written, Files, Types
<1>6. CASE Approve(t)
  BY <1>1, <1>6 DEF Approve, Ends, Types
<1>7. CASE Fail(t)
  BY <1>1, <1>7 DEF Fail, Ends, Types
<1>8. CASE Die(t)
  BY <1>1, <1>8 DEF Die, Ends, Types
<1> QED
  BY <1>3, <1>4, <1>5, <1>6, <1>7, <1>8 DEF Vector

-----------------------------------------------------------------------------
Step(t) == Call(t) \/ Proceed(t) \/ Vector(t) \/ Die(t)

(* What a thread's step leaves to the others: all but the tables, which no   *)
(* thread's step changes, and the directories of its own.                    *)
Untouched(u) ==
  /\ UNCHANGED <<stage[u], config[u], input[u], order[u], verdicts[u]>>
  /\ UNCHANGED <<directory[u], vector[u], taken[u], buffer[u], answer[u]>>
  /\ Runs(u) => Output(u)' = Output(u)

(* A step of one thread, or of its process, leaves the others theirs.        *)
LEMMA OthersUntouched ==
  ASSUME IInv, NEW t \in Threads, Step(t), NEW u \in Threads, u # t
  PROVE  Untouched(u)
<1> USE DEF process, call, Moves, Answers
<1>1. Types /\ Files /\ Standing(t) /\ Standing(u)
  BY DEF IInv, Holds
<1>2. ASSUME UNCHANGED <<directory, disk>> PROVE Output(u)' = Output(u)
  BY <1>2 DEF Output, Runs
<1>3. CASE Call(t)
  BY <1>1, <1>2, <1>3 DEF Call, CallCheck, CallValidate, CallRun, CallTest, Types, Untouched
<1>4. CASE CheckTransform(t) \/ CheckDone(t)
  BY <1>1, <1>2, <1>4 DEF CheckTransform, CheckDone, Types, Untouched
<1>5. CASE StartWalk(t) \/ Walk(t) \/ Accept(t) \/ Refuse(t) \/ NoBinary(t)
  BY <1>1, <1>2, <1>5 DEF StartWalk, Walk, Accept, Refuse, NoBinary, Types, Untouched
<1>6. CASE MakeDirectory(t)
  <2>1. PICK d \in Directories \ DOMAIN disk :
          /\ directory' = [directory EXCEPT ![t] = d]
          /\ disk' = [e \in DOMAIN disk \union {d} |->
                      IF e \in DOMAIN disk THEN disk[e] ELSE {}]
    BY <1>6 DEF MakeDirectory, NewDirectory
  <2>2. Runs(u) => directory[u] \in DOMAIN disk
    BY <1>1 DEF Files
  <2>3. Runs(u) => Output(u)' = Output(u)
    BY <1>1, <2>1, <2>2 DEF Types, Output, Runs
  <2> QED
    BY <1>1, <1>6, <2>1, <2>3 DEF MakeDirectory, Types, Untouched
<1>7. CASE OSError(t) \/ Spawn(t) \/ Collect(t) \/ Timeout(t)
  BY <1>1, <1>2, <1>7 DEF OSError, Spawn, Collect, Timeout, Types, Untouched
<1>8. CASE Reap(t) \/ Read(t) \/ ReadFails(t) \/ Return(t)
  BY <1>1, <1>2, <1>8 DEF Reap, Read, ReadFails, Return, Types, Untouched
<1>9. CASE Clean(t)
  <2>1. Runs(u) => directory[u] \in DOMAIN disk /\ directory[u] # directory[t]
    BY <1>1 DEF Files
  <2>2. Runs(u) => Output(u)' = Output(u)
    BY <1>1, <1>9, <2>1 DEF Clean, Types, Output, Runs
  <2> QED
    BY <1>1, <1>9, <2>2 DEF Clean, Types, Untouched
<1>12. CASE CleanFails(t)
  BY <1>1, <1>12 DEF CleanFails, Types, Untouched, Output, Runs
<1>10. CASE Take(t) \/ Approve(t) \/ Fail(t) \/ Die(t)
  BY <1>1, <1>2, <1>10 DEF Take, Approve, Fail, Die, Ends, Types, Untouched
<1>11. CASE Write(t) \/ End(t)
  <2>1. Runs(t) /\ disk' = Written(t) /\ UNCHANGED directory
    BY <1>11 DEF Write, End, Working, FileSink
  <2>2. Runs(u) => directory[u] \in DOMAIN disk /\ directory[u] # directory[t]
    BY <1>1 DEF Files
  <2>3. Runs(u) => Output(u)' = Output(u)
    BY <1>1, <2>1, <2>2 DEF Written, Types, Output, Runs
  <2> QED
    BY <1>1, <1>11, <2>3 DEF Write, End, Ends, Types, Untouched
<1> QED
  BY <1>3, <1>4, <1>5, <1>6, <1>7, <1>8, <1>9, <1>10, <1>11, <1>12 DEF Step, Proceed, Vector

(* What holds of a thread goes on to hold while nothing touches it.          *)
LEMMA UntouchedHolds ==
  ASSUME NEW t \in Threads, Holds(t), Untouched(t)
  PROVE  Holds(t)'
<1> USE DEF Untouched
<1>1. Runs(t)' = Runs(t) /\ Expected(t)' = Expected(t)
  BY DEF Runs, Expected
<1>2. Standing(t)'
  BY <1>1 DEF Holds, Standing
<1>3. Path(t)'
  BY <1>1 DEF Holds, Path
<1>4. Process(t)'
  BY DEF Holds, Process
<1>5. Work(t)'
  BY <1>1 DEF Holds, Work
<1>6. Reply(t)'
  BY <1>1 DEF Holds, Reply
<1>7. Fair(t)'
  BY DEF Holds, Fair, Judged, Failed
<1> QED
  BY <1>2, <1>3, <1>4, <1>5, <1>6, <1>7 DEF Holds

-----------------------------------------------------------------------------
(* A call starts with no process and no directory.                           *)
LEMMA CallMoves ==
  ASSUME stage \in [Threads -> Stages], NEW t \in Threads, Call(t)
  PROVE  /\ stage[t] = "python" /\ stage'[t] \in {"check", "start", "chain", "prepare"}
         /\ UNCHANGED <<verdicts, directory, disk, process, answer>>
<1>1. PICK c \in Configs :
        \/ CallCheck(t, c) \/ CallValidate(t, c)
        \/ \E lines \in Inputs :
             CallRun(t, c, lines) \/ \E name \in DOMAIN c : CallTest(t, c, name, lines)
  BY DEF Call
<1>2. CASE CallCheck(t, c)
  BY <1>2 DEF CallCheck, Moves
<1>3. CASE CallValidate(t, c)
  BY <1>3 DEF CallValidate, Moves
<1>4. ASSUME NEW lines \in Inputs, CallRun(t, c, lines)
      PROVE  /\ stage[t] = "python" /\ stage'[t] = "chain"
             /\ UNCHANGED <<verdicts, directory, disk, process, answer>>
  BY <1>4 DEF CallRun, Moves
<1>5. ASSUME NEW lines \in Inputs, NEW name \in DOMAIN c, CallTest(t, c, name, lines)
      PROVE  /\ stage[t] = "python" /\ stage'[t] = "prepare"
             /\ UNCHANGED <<verdicts, directory, disk, process, answer>>
  BY <1>5 DEF CallTest, Moves
<1> QED
  BY <1>1, <1>2, <1>3, <1>4, <1>5

(* Where a thread stands after a step of its own.                           *)
LEMMA StandingSteps ==
  ASSUME IInv, NEW t \in Threads, Step(t)
  PROVE  Standing(t)'
<1> USE DEF process, call, Moves, Answers, Running, Runs, Standing
<1>1. /\ stage \in [Threads -> Stages] /\ config \in [Threads -> Configs \union {NoConfig}]
      /\ order \in [Threads -> Seq(Names)] /\ DOMAIN verdicts = Threads
      /\ DOMAIN directory = Threads /\ DOMAIN answer = Threads
      /\ Standing(t)
  BY DEF IInv, Holds, Types
<1> HIDE DEF Standing
<1>2. CASE Call(t)
  <2>1. PICK c \in Configs :
          \/ CallCheck(t, c) \/ CallValidate(t, c)
          \/ \E lines \in Inputs :
               CallRun(t, c, lines) \/ \E name \in DOMAIN c : CallTest(t, c, name, lines)
    BY <1>2 DEF Call
  <2>2. CASE CallCheck(t, c) \/ CallValidate(t, c)
    BY <1>1, <2>2 DEF CallCheck, CallValidate, Standing
  <2>3. ASSUME NEW lines \in Inputs, CallRun(t, c, lines) PROVE Standing(t)'
    BY <1>1, <2>3 DEF CallRun, Standing
  <2>4. ASSUME NEW lines \in Inputs, NEW name \in DOMAIN c, CallTest(t, c, name, lines)
        PROVE  Standing(t)'
    BY <1>1, <2>4 DEF CallTest, Standing
  <2> QED
    BY <2>1, <2>2, <2>3, <2>4
<1>3. CASE CheckTransform(t)
  BY <1>1, <1>3 DEF CheckTransform, Standing
<1>4. CASE CheckDone(t)
  BY <1>1, <1>4 DEF CheckDone, Standing
<1>5. CASE StartWalk(t)
  BY <1>1, <1>5 DEF StartWalk, Standing
<1>6. CASE Walk(t)
  BY <1>1, <1>6 DEF Walk, Standing
<1>7. CASE Accept(t)
  BY <1>1, <1>7 DEF Accept, Walked, Standing
<1>8. CASE Refuse(t)
  BY <1>1, <1>8 DEF Refuse, Standing
<1>9. CASE NoBinary(t)
  BY <1>1, <1>9 DEF NoBinary, Standing
<1>10. CASE MakeDirectory(t)
  BY <1>1, <1>10, ToolsAssumption DEF MakeDirectory, NewDirectory, Standing
<1>11. CASE OSError(t)
  BY <1>1, <1>11 DEF OSError, Standing
<1>12. CASE Spawn(t) \/ Collect(t) \/ Timeout(t)
  BY <1>1, <1>12 DEF Spawn, Collect, Timeout, Standing
<1>13. CASE Reap(t)
  BY <1>1, <1>13 DEF Reap, Standing
<1>14. CASE Read(t) \/ ReadFails(t)
  BY <1>1, <1>14 DEF Read, ReadFails, Standing
<1>15. CASE Clean(t) \/ CleanFails(t)
  BY <1>1, <1>15 DEF Clean, CleanFails, Standing
<1>16. CASE Return(t)
  BY <1>1, <1>16 DEF Return, Standing
<1>17. CASE Vector(t) \/ Die(t)
  BY <1>1, <1>17 DEF Vector, Take, Write, End, Approve, Fail, Die, Ends, Standing
<1> QED
  BY <1>2, <1>3, <1>4, <1>5, <1>6, <1>7, <1>8, <1>9, <1>10, <1>11, <1>12, <1>13, <1>14,
     <1>15, <1>16, <1>17 DEF Step, Proceed

(* The walk, step by step.                                                   *)
LEMMA PathSteps ==
  ASSUME IInv, NEW t \in Threads, Step(t)
  PROVE  Path(t)'
<1> USE DEF process, call, Moves
<1>1. /\ stage \in [Threads -> Stages] /\ config \in [Threads -> Configs \union {NoConfig}]
      /\ order \in [Threads -> Seq(Names)] /\ DOMAIN directory = Threads
      /\ Standing(t) /\ Path(t)
  BY DEF IInv, Holds, Types
<1>2. ASSUME UNCHANGED <<config, order>>, stage'[t] # "prepare", Runs(t)' => Runs(t)
      PROVE  Path(t)'
  BY <1>1, <1>2 DEF Path
<1>3. CASE Call(t)
  <2>1. stage[t] = "python" /\ order[t] = <<>> /\ ~Runs(t) /\ UNCHANGED directory
    BY <1>1, <1>3, CallMoves DEF Standing, Running
  <2>2. CASE UNCHANGED order /\ stage'[t] # "prepare"
    BY <2>1, <2>2 DEF Path, Runs
  <2>3. ASSUME NEW c \in Configs, NEW lines \in Inputs, NEW name \in DOMAIN c,
               CallTest(t, c, name, lines)
        PROVE  Path(t)'
    <3>1. /\ DOMAIN c = {name} /\ Upstream(c, name) = {} /\ c[name].kind = "inline"
          /\ config'[t] = c /\ order'[t] = <<name>>
      BY <1>1, <2>3 DEF CallTest
    <3>2. AllInline(c)
      BY <3>1 DEF AllInline
    <3>3. Heads(c) = {name} /\ Following(c, name) = {}
      BY <3>1 DEF Heads, Following, Feeds
    <3>4. Linear(c)
      BY <3>1, <3>3 DEF Linear, AtMostOne
    <3>5. IsFiniteSet(DOMAIN c)
      BY ConfigFacts
    <3>6. IsWalk(c, <<name>>)
      BY <3>2, <3>3, <3>4, <3>5, HeadIsWalk
    <3>7. Cardinality({name}) = 1
      BY FS_Singleton
    <3>8. Complete(c, <<name>>)
      BY <3>1, <3>7 DEF Complete
    <3> QED
      BY <3>1, <3>6, <3>8 DEF Path
  <2> QED
    BY <1>1, <1>3, <2>2, <2>3 DEF Call, CallCheck, CallValidate, CallRun
<1>4. CASE CheckTransform(t) \/ CheckDone(t) \/ Refuse(t) \/ NoBinary(t)
  BY <1>1, <1>2, <1>4 DEF CheckTransform, CheckDone, Refuse, NoBinary, Runs
<1>5. CASE StartWalk(t)
  <2>1. PICK head \in Heads(config[t]) : order' = [order EXCEPT ![t] = <<head>>]
    BY <1>5 DEF StartWalk
  <2>2. config[t] \in Configs /\ ~Runs(t)
    BY <1>1, <1>5 DEF StartWalk, Standing, Running
  <2>3. IsWalk(config[t], <<head>>)
    BY <1>5, <2>2, ConfigFacts, HeadIsWalk DEF StartWalk
  <2> QED
    BY <1>1, <1>5, <2>1, <2>2, <2>3 DEF StartWalk, Path, Runs
<1>6. CASE Walk(t)
  <2>1. PICK name \in After(t) : order' = [order EXCEPT ![t] = Append(@, name)]
    BY <1>6 DEF Walk
  <2>2. config[t] \in Configs /\ ~Runs(t)
    BY <1>1, <1>6 DEF Walk, Standing, Running
  <2>3. IsWalk(config[t], order[t])
    BY <1>1, <1>6 DEF Walk, Path
  <2>4. IsWalk(config[t], Append(order[t], name))
    BY <2>1, <2>2, <2>3, ConfigFacts, NextIsWalk DEF After
  <2> QED
    BY <1>1, <1>6, <2>1, <2>2, <2>4 DEF Walk, Path, Runs
<1>7. CASE Accept(t)
  BY <1>1, <1>7 DEF Accept, Path, Runs
<1>8. CASE MakeDirectory(t)
  BY <1>1, <1>8 DEF MakeDirectory, Path, Runs
<1>9. CASE OSError(t) \/ Spawn(t) \/ Collect(t) \/ Timeout(t) \/ Reap(t) \/ Read(t)
         \/ ReadFails(t)
  BY <1>1, <1>2, <1>9 DEF OSError, Spawn, Collect, Timeout, Reap, Read, ReadFails, Runs
<1>10. CASE Clean(t) \/ CleanFails(t)
  BY <1>1, <1>2, <1>10 DEF Clean, CleanFails, Runs
<1>11. CASE Return(t)
  BY <1>1, <1>11 DEF Return, Path, Runs, Standing, Running
<1>12. CASE Vector(t) \/ Die(t)
  BY <1>1, <1>12 DEF Vector, Take, Write, End, Approve, Fail, Die, Ends, Path, Runs
<1> QED
  BY <1>3, <1>4, <1>5, <1>6, <1>7, <1>8, <1>9, <1>10, <1>11, <1>12 DEF Step, Proceed

(* What the process of a thread holds.                                       *)
LEMMA ProcessSteps ==
  ASSUME IInv, NEW t \in Threads, Step(t)
  PROVE  Process(t)'
<1> USE DEF process, call, Moves
<1>1. /\ stage \in [Threads -> Stages] /\ DOMAIN config = Threads /\ DOMAIN input = Threads
      /\ vector \in [Threads -> {"none", "running", "killed", "done", "failed"}]
      /\ DOMAIN taken = Threads /\ DOMAIN buffer = Threads
      /\ Process(t)
  BY DEF IInv, Holds, Types
<1>2. CASE Call(t)
  <2>1. /\ stage[t] = "python" /\ stage'[t] # "reap" /\ stage'[t] # "read"
        /\ UNCHANGED <<vector, taken, buffer>>
    BY <1>1, <1>2, CallMoves
  <2>2. vector[t] = "none" /\ taken[t] = {} /\ buffer[t] = {}
    BY <1>1, <2>1 DEF Process
  <2> QED
    BY <2>1, <2>2 DEF Process
<1>3. CASE CheckTransform(t) \/ CheckDone(t) \/ StartWalk(t) \/ Walk(t)
  BY <1>1, <1>3 DEF CheckTransform, CheckDone, StartWalk, Walk, Process
<1>4. CASE Accept(t) \/ Refuse(t) \/ NoBinary(t) \/ MakeDirectory(t) \/ OSError(t)
  BY <1>1, <1>4 DEF Accept, Refuse, NoBinary, MakeDirectory, OSError, Process
<1>5. CASE Spawn(t)
  BY <1>1, <1>5 DEF Spawn, Process
<1>6. CASE Collect(t)
  BY <1>1, <1>6 DEF Collect, Process
<1>7. CASE Timeout(t)
  BY <1>1, <1>7 DEF Timeout, Process
<1>8. CASE Reap(t)
  BY <1>1, <1>8 DEF Reap, Dead, Process
<1>9. CASE Read(t) \/ ReadFails(t)
  BY <1>1, <1>9 DEF Read, ReadFails, Process
<1>10. CASE Clean(t) \/ CleanFails(t)
  BY <1>1, <1>10 DEF Clean, CleanFails, Process
<1>11. CASE Return(t)
  BY <1>1, <1>11 DEF Return, Process
<1>12. CASE Take(t)
  <2>1. PICK n \in DOMAIN input[t] \ taken[t] :
          /\ taken' = [taken EXCEPT ![t] = @ \union {n}]
          /\ buffer' = [buffer EXCEPT ![t] =
                          IF Survives(config[t], input[t][n]) THEN @ \union {n} ELSE @]
    BY <1>12 DEF Take
  <2>2. /\ buffer'[t] \subseteq taken'[t] /\ taken'[t] \subseteq DOMAIN input[t]
        /\ \A m \in buffer'[t] : Survives(config[t], input[t][m])
    BY <1>1, <2>1 DEF Process
  <2> QED
    BY <1>1, <1>12, <2>2 DEF Take, Working, Process
<1>13. CASE Write(t)
  BY <1>1, <1>13 DEF Write, Working, Process
<1>14. CASE End(t) \/ Approve(t) \/ Fail(t) \/ Die(t)
  BY <1>1, <1>14 DEF End, Approve, Fail, Die, Ends, Process
<1> QED
  BY <1>2, <1>3, <1>4, <1>5, <1>6, <1>7, <1>8, <1>9, <1>10, <1>11, <1>12, <1>13,
     <1>14 DEF Step, Proceed, Vector

(* What it has written.                                                      *)
LEMMA WorkSteps ==
  ASSUME IInv, NEW t \in Threads, Step(t)
  PROVE  Work(t)'
<1> USE DEF process, call, Moves
<1>1. /\ DOMAIN config = Threads /\ DOMAIN input = Threads /\ DOMAIN directory = Threads
      /\ stage \in [Threads -> Stages]
      /\ vector \in [Threads -> {"none", "running", "killed", "done", "failed"}]
      /\ DOMAIN taken = Threads /\ DOMAIN buffer = Threads /\ DOMAIN disk \subseteq Directories
      /\ Standing(t) /\ Process(t) /\ Work(t)
      /\ Runs(t) => directory[t] \in DOMAIN disk
  BY DEF IInv, Holds, Types, Files
<1>2. ASSUME ~Runs(t)' PROVE Work(t)'
  BY <1>2 DEF Work
<1>3. ASSUME UNCHANGED <<config, input, directory, disk, taken, buffer>>,
             vector'[t] \in {"running", "killed"} => vector[t] \in {"running", "killed"} \/ taken[t] = {},
             vector'[t] = "done" => vector[t] = "done", stage'[t] # "start"
      PROVE  Work(t)'
  BY <1>1, <1>3 DEF Work, Runs, Output, Expected
<1>4. CASE Call(t)
  <2>1. stage[t] = "python" /\ UNCHANGED directory
    BY <1>1, <1>4, CallMoves
  <2> QED
    BY <1>1, <1>2, <2>1 DEF Standing, Running, Runs
<1>5. CASE CheckTransform(t) \/ CheckDone(t) \/ StartWalk(t) \/ Walk(t)
  BY <1>1, <1>3, <1>5 DEF CheckTransform, CheckDone, StartWalk, Walk
<1>6. CASE Accept(t) \/ Refuse(t) \/ NoBinary(t) \/ OSError(t)
  BY <1>1, <1>3, <1>6 DEF Accept, Refuse, NoBinary, OSError
<1>7. CASE MakeDirectory(t)
  <2>1. PICK d \in Directories \ DOMAIN disk :
          /\ directory' = [directory EXCEPT ![t] = d]
          /\ disk' = [e \in DOMAIN disk \union {d} |->
                      IF e \in DOMAIN disk THEN disk[e] ELSE {}]
    BY <1>7 DEF MakeDirectory, NewDirectory
  <2>2. Output(t)' = {} /\ vector'[t] = "none"
    BY <1>1, <1>7, <2>1 DEF MakeDirectory, Process, Output, Runs
  <2> QED
    BY <2>2 DEF Work
<1>8. CASE Spawn(t)
  <2>1. taken[t] = {} /\ vector'[t] = "running" /\ stage'[t] = "wait"
    BY <1>1, <1>8 DEF Spawn, Process
  <2> QED
    BY <1>3, <1>8, <2>1 DEF Spawn
<1>9. CASE Collect(t)
  BY <1>1, <1>3, <1>9 DEF Collect
<1>10. CASE Timeout(t)
  BY <1>1, <1>3, <1>10 DEF Timeout
<1>11. CASE Reap(t) \/ Read(t) \/ ReadFails(t)
  <2>1. vector'[t] = "none" /\ stage'[t] = "clean"
    BY <1>1, <1>11 DEF Reap, Read, ReadFails, Dead
  <2> QED
    BY <1>3, <1>11, <2>1 DEF Reap, Read, ReadFails
<1>12. CASE Clean(t) \/ CleanFails(t)
  BY <1>1, <1>2, <1>12 DEF Clean, CleanFails, Runs
<1>13. CASE Return(t)
  BY <1>1, <1>2, <1>13 DEF Return, Standing, Running, Runs
<1>14. CASE Take(t)
  <2>1. PICK n \in DOMAIN input[t] \ taken[t] :
          /\ taken' = [taken EXCEPT ![t] = @ \union {n}]
          /\ buffer' = [buffer EXCEPT ![t] =
                          IF Survives(config[t], input[t][n]) THEN @ \union {n} ELSE @]
    BY <1>14 DEF Take
  <2>2. /\ UNCHANGED <<config, input, vector>>
        /\ Runs(t)' = Runs(t) /\ Output(t)' = Output(t) /\ Expected(t)' = Expected(t)
    BY <1>14 DEF Take, Runs, Output, Expected
  <2>3. vector[t] # "done" /\ Runs(t) /\ stage'[t] # "start"
    BY <1>1, <1>14 DEF Take, Working, Process
  <2>4. ASSUME NEW m \in taken'[t], Survives(config[t], input[t][m])
        PROVE  m \in buffer'[t] \/ [of |-> t, line |-> m] \in Output(t)
    BY <1>1, <1>14, <2>1, <2>3, <2>4 DEF Take, Working, Work
  <2> QED
    BY <1>1, <2>2, <2>3, <2>4 DEF Work
<1>15. CASE Write(t) \/ End(t)
  <2>1. /\ Runs(t) /\ disk' = Written(t) /\ vector[t] \in {"running", "killed"}
        /\ UNCHANGED <<config, input, directory>> /\ stage'[t] # "start"
    BY <1>1, <1>15 DEF Write, End, Working, FileSink, Process
  <2>2. Runs(t)' /\ Output(t)' = Output(t) \union Events(t) /\ Expected(t)' = Expected(t)
    BY <1>1, <2>1 DEF Runs, Output, Expected, Written
  <2>3. Events(t) \subseteq Expected(t)
    BY <1>1 DEF Events, Expected, Process
  <2>4. Output(t)' \subseteq Expected(t)
    BY <1>1, <2>1, <2>2, <2>3 DEF Work
  <2>5. ASSUME NEW n \in taken[t], Survives(config[t], input[t][n])
        PROVE  [of |-> t, line |-> n] \in Output(t)'
    BY <1>1, <2>1, <2>2, <2>5 DEF Work, Events
  <2>6. CASE Write(t)
    BY <1>1, <2>1, <2>2, <2>4, <2>5, <2>6 DEF Write, Work
  <2>7. CASE End(t)
    <3>1. taken[t] = DOMAIN input[t] /\ vector'[t] = "done"
      BY <1>1, <2>7 DEF End, Ends
    <3>2. Output(t)' = Expected(t)
      BY <2>4, <2>5, <3>1 DEF Expected
    <3> QED
      BY <2>1, <2>2, <3>1, <3>2 DEF Work
  <2> QED
    BY <1>15, <2>6, <2>7
<1>16. CASE Approve(t)
  BY <1>2, <1>16 DEF Approve, Runs
<1>17. CASE Fail(t) \/ Die(t)
  <2>1. /\ vector'[t] \in {"failed", "none"} /\ stage'[t] # "start"
        /\ UNCHANGED <<config, input, directory, disk>>
    BY <1>1, <1>17 DEF Fail, Die, Ends, Process
  <2> QED
    BY <1>1, <2>1 DEF Work, Runs, Output, Expected
<1> QED
  BY <1>4, <1>5, <1>6, <1>7, <1>8, <1>9, <1>10, <1>11, <1>12, <1>13, <1>14, <1>15,
     <1>16, <1>17 DEF Step, Proceed, Vector

(* What a call says of it.                                                   *)
LEMMA ReplySteps ==
  ASSUME IInv, NEW t \in Threads, Step(t)
  PROVE  Reply(t)'
<1> USE DEF process, call, Moves
<1>1. /\ DOMAIN config = Threads /\ DOMAIN input = Threads /\ DOMAIN answer = Threads
      /\ Standing(t) /\ Path(t) /\ Process(t) /\ Work(t) /\ Reply(t)
  BY DEF IInv, Holds, Types
<1>2. ASSUME UNCHANGED <<config, input, order, answer>> PROVE Reply(t)'
  BY <1>1, <1>2 DEF Reply, Expected
<1>3. ASSUME answer[t] = Nothing, UNCHANGED answer PROVE Reply(t)'
  BY <1>3 DEF Reply, Nothing
<1>4. ASSUME UNCHANGED <<config, input, order>>,
             answer'[t].results = {}, answer'[t].says \in {"failure", "raises"}
      PROVE  Reply(t)'
  BY <1>4 DEF Reply
<1>5. CASE Call(t) \/ CheckTransform(t) \/ StartWalk(t) \/ Walk(t)
  BY <1>1, <1>3, <1>5 DEF Call, CallCheck, CallValidate, CallRun, CallTest, CheckTransform,
     StartWalk, Walk, Standing
<1>6. CASE CheckDone(t)
  <2>1. /\ order'[t] = <<>> /\ answer'[t].results = {}
        /\ answer'[t].says \in {"failure", "success"}
    BY <1>1, <1>6 DEF CheckDone, Answers, Standing
  <2> QED
    BY <2>1 DEF Reply
<1>7. CASE Refuse(t)
  <2>1. /\ answer'[t].results = {} /\ answer'[t].says = "not_a_chain"
        /\ UNCHANGED <<config, input, order>> /\ config[t] \in Configs
    BY <1>1, <1>7 DEF Refuse, Answers, Standing
  <2>2. IsFiniteSet(DOMAIN config[t])
    BY <2>1, ConfigFacts
  <2>3. CASE order[t] = <<>> /\ ~(AllInline(config[t]) /\ Linear(config[t]))
    BY <2>1, <2>2, <2>3, ChainIsLinear DEF Reply, FormChain
  <2>4. CASE Walked(t) /\ ~Complete(config[t], order[t])
    <3>1. IsWalk(config[t], order[t]) /\ Following(config[t], order[t][Len(order[t])]) = {}
      BY <1>1, <2>4 DEF Walked, After, Path
    <3>2. ~FormChain(config[t])
      BY <2>2, <2>4, <3>1, PartialIsNoChain
    <3> QED
      BY <2>1, <3>2 DEF Reply
  <2> QED
    BY <1>7, <2>3, <2>4 DEF Refuse
<1>8. CASE Accept(t) \/ MakeDirectory(t) \/ Spawn(t) \/ Collect(t) \/ Timeout(t)
         \/ Clean(t) \/ CleanFails(t)
  BY <1>2, <1>8 DEF Accept, MakeDirectory, Spawn, Collect, Timeout, Clean, CleanFails
<1>9. CASE NoBinary(t) \/ OSError(t) \/ Reap(t) \/ ReadFails(t)
  BY <1>1, <1>4, <1>9 DEF NoBinary, OSError, Reap, ReadFails, Answers
<1>10. CASE Read(t)
  <2> DEFINE broken == {event \in Output(t) : event.line \in Undecodable(event.of)}
             fine   == vector[t] = "done" /\ broken = {}
  <2>1. /\ answer'[t].results = Output(t) \ broken
        /\ answer'[t].says = IF fine THEN "success" ELSE "failure"
        /\ UNCHANGED <<config, input, order>>
    BY <1>1, <1>10 DEF Read, Answers
  <2>2. Expected(t)' = Expected(t)
    BY <2>1 DEF Expected
  <2>3. Output(t) \subseteq Expected(t)
    BY <1>1 DEF Work, Output
  <2>4. ASSUME fine, order[t] # <<>> PROVE Output(t) \ broken = Expected(t)
    <3>1. Runs(t)
      BY <1>1, <1>10, <2>4 DEF Read, Standing, Running
    <3> QED
      BY <1>1, <2>4, <3>1 DEF Work
  <2> HIDE DEF broken, fine
  <2> QED
    BY <2>1, <2>2, <2>3, <2>4 DEF Reply
<1>11. CASE Return(t)
  BY <1>1, <1>11 DEF Return, Reply, Nothing
<1>12. CASE Vector(t) \/ Die(t)
  BY <1>2, <1>12 DEF Vector, Take, Write, End, Approve, Fail, Die, Ends
<1> QED
  BY <1>5, <1>6, <1>7, <1>8, <1>9, <1>10, <1>11, <1>12 DEF Step, Proceed

(* What validate_config says.                                                *)
LEMMA FairSteps ==
  ASSUME IInv, NEW t \in Threads, Step(t)
  PROVE  Fair(t)'
<1> USE DEF process, call, Moves
<1>1. /\ DOMAIN config = Threads /\ DOMAIN verdicts = Threads /\ DOMAIN answer = Threads
      /\ stage \in [Threads -> Stages] /\ Standing(t) /\ Fair(t)
  BY DEF IInv, Holds, Types
<1>2. ASSUME UNCHANGED <<config, verdicts, answer>> PROVE Fair(t)'
  BY <1>1, <1>2 DEF Fair, Judged, Failed
<1>3. ASSUME verdicts'[t] = {} PROVE Fair(t)'
  BY <1>3 DEF Fair
<1>4. CASE Call(t)
  BY <1>1, <1>3, <1>4, CallMoves DEF Standing
<1>5. CASE CheckTransform(t)
  <2>1. PICK name \in DOMAIN config[t] :
          verdicts' = [verdicts EXCEPT ![t] = @ \union {Judgement(t, name)}]
    BY <1>5 DEF CheckTransform
  <2>2. config[t] \in Configs /\ UNCHANGED <<config, answer>> /\ answer[t].says = "nothing"
    BY <1>1, <1>5 DEF CheckTransform, Standing, Nothing
  <2>3. IsFair(Judgement(t, name).verdict, config[t][name], Judgement(t, name).seen)
    BY <2>2, ConfigFacts, VerdictIsFair DEF Judgement
  <2>4. ASSUME NEW said \in verdicts'[t]
        PROVE  /\ said.name \in DOMAIN config[t]
               /\ IsFair(said.verdict, config[t][said.name], said.seen)
    <3>1. CASE said \in verdicts[t]
      BY <1>1, <3>1 DEF Fair
    <3>2. CASE said = Judgement(t, name)
      BY <2>3, <3>2 DEF Judgement
    <3> QED
      BY <1>1, <2>1, <3>1, <3>2
  <2> QED
    BY <2>2, <2>4 DEF Fair, IsFair
<1>6. CASE CheckDone(t)
  <2>1. /\ UNCHANGED <<config, verdicts>> /\ DOMAIN config[t] = Judged(t)
        /\ answer'[t].says = IF Failed(t) THEN "failure" ELSE "success"
    BY <1>1, <1>6 DEF CheckDone, Answers
  <2> QED
    BY <1>1, <2>1 DEF Fair, Judged, Failed
<1>7. CASE StartWalk(t) \/ Walk(t) \/ Accept(t) \/ Clean(t) \/ CleanFails(t)
  BY <1>2, <1>7 DEF StartWalk, Walk, Accept, Clean, CleanFails
<1>8. CASE MakeDirectory(t) \/ Spawn(t) \/ Collect(t) \/ Timeout(t)
  BY <1>2, <1>8 DEF MakeDirectory, Spawn, Collect, Timeout
<1>9. CASE Refuse(t) \/ NoBinary(t) \/ OSError(t) \/ Reap(t) \/ Read(t) \/ ReadFails(t)
  BY <1>1, <1>3, <1>9 DEF Refuse, NoBinary, OSError, Reap, Read, ReadFails, Standing
<1>10. CASE Return(t)
  BY <1>1, <1>3, <1>10 DEF Return
<1>11. CASE Vector(t) \/ Die(t)
  BY <1>2, <1>11 DEF Vector, Take, Write, End, Approve, Fail, Die, Ends
<1> QED
  BY <1>4, <1>5, <1>6, <1>7, <1>8, <1>9, <1>10, <1>11 DEF Step, Proceed

(* Directories come and go with their runs.                                  *)
LEMMA FilesSteps ==
  ASSUME IInv, NEW t \in Threads, Step(t)
  PROVE  Files'
<1> USE DEF process, call, Moves
<1>1. /\ directory \in [Threads -> Directories \union {NoDirectory}]
      /\ DOMAIN disk \subseteq Directories /\ Files /\ Standing(t)
  BY DEF IInv, Holds, Types
<1>2. ASSUME UNCHANGED directory, DOMAIN disk' = DOMAIN disk PROVE Files'
  BY <1>1, <1>2 DEF Files, Runs
<1>3. CASE Call(t) \/ CheckTransform(t) \/ CheckDone(t) \/ StartWalk(t) \/ Walk(t)
  BY <1>2, <1>3 DEF Call, CallCheck, CallValidate, CallRun, CallTest, CheckTransform,
     CheckDone, StartWalk, Walk
<1>4. CASE Accept(t) \/ Refuse(t) \/ NoBinary(t) \/ OSError(t) \/ Spawn(t) \/ Collect(t)
  BY <1>2, <1>4 DEF Accept, Refuse, NoBinary, OSError, Spawn, Collect
<1>5. CASE Timeout(t) \/ Reap(t) \/ Read(t) \/ ReadFails(t) \/ Return(t)
  BY <1>2, <1>5 DEF Timeout, Reap, Read, ReadFails, Return
<1>6. CASE MakeDirectory(t)
  <2>1. PICK d \in Directories \ DOMAIN disk :
          /\ directory' = [directory EXCEPT ![t] = d]
          /\ disk' = [e \in DOMAIN disk \union {d} |->
                      IF e \in DOMAIN disk THEN disk[e] ELSE {}]
    BY <1>6 DEF MakeDirectory, NewDirectory
  <2>2. ~Runs(t) /\ d # NoDirectory
    BY <1>1, <1>6, ToolsAssumption DEF MakeDirectory, Standing, Running
  <2>3. \A u \in Threads : Runs(u)' <=> Runs(u) \/ u = t
    BY <1>1, <2>1, <2>2 DEF Runs
  <2>4. \A u \in Threads : u # t => directory'[u] = directory[u] /\ directory[u] # d
    BY <1>1, <2>1, <2>2 DEF Files, Runs
  <2>5. directory'[t] = d /\ DOMAIN disk' = DOMAIN disk \union {d}
    BY <1>1, <2>1
  <2>6. \A u \in Threads : Runs(u)' => directory'[u] \in DOMAIN disk'
    BY <1>1, <2>3, <2>4, <2>5 DEF Files
  <2>7. \A u, v \in Threads : Runs(u)' /\ directory'[u] = directory'[v] => u = v
    BY <1>1, <2>3, <2>4, <2>5 DEF Files
  <2> QED
    BY <2>6, <2>7 DEF Files
<1>7. CASE Clean(t) \/ CleanFails(t)
  <2>1. /\ directory' = [directory EXCEPT ![t] = NoDirectory]
        /\ DOMAIN disk \ {directory[t]} \subseteq DOMAIN disk'
    BY <1>7 DEF Clean, CleanFails
  <2>2. \A u \in Threads : Runs(u)' <=> Runs(u) /\ u # t
    BY <1>1, <2>1 DEF Runs
  <2>3. \A u \in Threads : u # t => directory'[u] = directory[u]
    BY <1>1, <2>1
  <2>4. \A u \in Threads : Runs(u) /\ u # t => directory[u] # directory[t]
    BY <1>1 DEF Files
  <2>5. \A u \in Threads : Runs(u)' => directory'[u] \in DOMAIN disk'
    BY <1>1, <2>1, <2>2, <2>3, <2>4 DEF Files
  <2>6. \A u, v \in Threads : Runs(u)' /\ directory'[u] = directory'[v] => u = v
    BY <1>1, <2>1, <2>2, <2>3 DEF Files, Runs
  <2> QED
    BY <2>5, <2>6 DEF Files
<1>8. CASE Write(t) \/ End(t)
  <2>1. UNCHANGED directory /\ DOMAIN disk' = DOMAIN disk
    BY <1>8 DEF Write, End, FileSink, Written
  <2> QED
    BY <1>2, <2>1
<1>9. CASE Take(t) \/ Approve(t) \/ Fail(t) \/ Die(t)
  BY <1>2, <1>9 DEF Take, Approve, Fail, Die
<1> QED
  BY <1>3, <1>4, <1>5, <1>6, <1>7, <1>8, <1>9 DEF Step, Proceed, Vector

-----------------------------------------------------------------------------
(* The invariant is inductive.                                               *)
LEMMA ToolsNext == IInv /\ [Next]_vars => IInv'
<1> SUFFICES ASSUME IInv, [Next]_vars PROVE IInv'
  OBVIOUS
<1>1. ASSUME UNCHANGED <<stage, call, order, verdicts, directory, disk, process, answer>>,
             tables' \subseteq TableNames
      PROVE  IInv'
  <2> USE DEF call, process
  <2>1. Types'
    BY <1>1 DEF IInv, Types, Stages
  <2>2. Files'
    BY <1>1 DEF IInv, Files, Runs
  <2>3. ASSUME NEW t \in Threads PROVE Holds(t)'
    <3>1. Untouched(t)
      BY <1>1 DEF Untouched, Output, Runs
    <3> QED
      BY <3>1, UntouchedHolds DEF IInv
  <2> QED
    BY <2>1, <2>2, <2>3 DEF IInv
<1>2. CASE UNCHANGED vars
  BY <1>1, <1>2 DEF vars, IInv, Types
<1>3. CASE OtherTables
  BY <1>1, <1>3 DEF OtherTables, IInv, Types
<1>4. ASSUME NEW t \in Threads, Step(t) PROVE IInv'
  <2>1. Types'
    BY <1>4, CallTypes, ProceedTypes, VectorTypes DEF Step
  <2>2. Files'
    BY <1>4, FilesSteps
  <2>3. ASSUME NEW u \in Threads, u # t PROVE Holds(u)'
    BY <1>4, <2>3, OthersUntouched, UntouchedHolds DEF IInv
  <2>4. Holds(t)'
    BY <1>4, StandingSteps, PathSteps, ProcessSteps, WorkSteps, ReplySteps, FairSteps DEF Holds
  <2> QED
    BY <2>1, <2>2, <2>3, <2>4 DEF IInv
<1> QED
  BY <1>2, <1>3, <1>4 DEF Next, Step

(* The inductive invariant of the calls.                                     *)
LEMMA ToolsInvariant == Spec => []IInv
BY ToolsInit, ToolsNext, PTL DEF Spec

(* Every thread's state is of its type, and what a vector process holds is   *)
(* of the input of the call it belongs to.                                   *)
THEOREM ToolsTypeCorrect == Spec => []TypeOK
<1>1. IInv => TypeOK
  BY DEF IInv, Types, Holds, Process, Fair, TypeOK
<1> QED
  BY <1>1, ToolsInvariant, PTL

(* remap_chain accepts the chains and nothing else, however many transforms  *)
(* there are, although it counts inputs only and walks from the head.        *)
THEOREM AlwaysExactlyChains == Spec => []ExactlyChainsRun
<1>1. ASSUME IInv PROVE ExactlyChainsRun
  <2>1. SUFFICES ASSUME NEW t \in Threads
                 PROVE  /\ Runs(t) => AllInline(config[t]) /\ IsChain(config[t], order[t])
                        /\ answer[t].says = "not_a_chain" => ~FormChain(config[t])
    BY DEF ExactlyChainsRun
  <2>2. Standing(t) /\ Path(t) /\ Reply(t)
    BY <1>1 DEF IInv, Holds
  <2>3. ASSUME Runs(t) PROVE AllInline(config[t]) /\ IsChain(config[t], order[t])
    <3>1. IsWalk(config[t], order[t]) /\ Complete(config[t], order[t])
      BY <2>2, <2>3 DEF Standing, Path
    <3>2. IsFiniteSet(DOMAIN config[t])
      BY <2>2, <2>3, ConfigFacts DEF Standing, Running
    <3>3. IsChain(config[t], order[t])
      BY <3>1, <3>2, CompleteIsChain
    <3> QED
      BY <3>1, <3>3 DEF IsWalk
  <2> QED
    BY <2>2, <2>3 DEF Reply
<1> QED
  BY <1>1, ToolsInvariant, PTL

(* A successful run loses no event, and no run ever gives another's.         *)
THEOREM SuccessAlwaysComplete == Spec => []SuccessIsEveryEvent
<1>1. IInv => SuccessIsEveryEvent
  BY DEF IInv, Holds, Reply, SuccessIsEveryEvent
<1> QED
  BY <1>1, ToolsInvariant, PTL

(* No process outlives its call, no call leaves without having tried to     *)
(* remove its directory, and none ever works in one that another run made,   *)
(* however many of them could not be removed.                                *)
THEOREM NothingEverOutlives == Spec => []NothingOutlivesItsCall
<1>1. ASSUME IInv PROVE NothingOutlivesItsCall
  <2>1. ASSUME NEW t \in Threads, vector[t] \in {"running", "killed"}
        PROVE  stage[t] \in {"wait", "reap"}
    BY <1>1, <2>1 DEF IInv, Holds, Process
  <2>2. ASSUME NEW t \in Threads, Runs(t)
        PROVE  /\ stage[t] \in {"start", "wait", "reap", "read", "clean"}
               /\ stage[t] = "start" => Output(t) = {}
    BY <1>1, <2>2 DEF IInv, Holds, Standing, Running, Work
  <2> QED
    BY <1>1, <2>1, <2>2 DEF IInv, Files, NothingOutlivesItsCall
<1> QED
  BY <1>1, ToolsInvariant, PTL

(* A program is reported as broken only when it is, or when its lookup fails *)
(* beside a registered name with a line break, and no config with a wrong    *)
(* program passes, whatever is registered and cleared meanwhile.             *)
THEOREM VerdictsAlwaysFair == Spec => []VerdictsAreFair
<1>1. ASSUME IInv PROVE VerdictsAreFair
  <2>1. SUFFICES ASSUME NEW t \in Threads
                 PROVE  /\ \A said \in verdicts[t] :
                             IsFair(said.verdict, config[t][said.name], said.seen)
                        /\ verdicts[t] # {} /\ answer[t].says = "success" =>
                             \A name \in DOMAIN config[t] :
                               config[t][name].wrong => config[t][name].kind # "inline"
    BY DEF VerdictsAreFair, IsFair
  <2>2. Fair(t)
    BY <1>1 DEF IInv, Holds
  <2>3. ASSUME verdicts[t] # {}, answer[t].says = "success",
               NEW name \in DOMAIN config[t], config[t][name].wrong
        PROVE  config[t][name].kind # "inline"
    <3>1. PICK said \in verdicts[t] : said.name = name
      BY <2>2, <2>3 DEF Fair, Judged
    <3>2. said.verdict # "failed"
      BY <2>2, <2>3 DEF Fair, Failed
    <3> QED
      BY <2>2, <2>3, <3>1, <3>2 DEF Fair, IsFair
  <2> QED
    BY <2>2, <2>3 DEF Fair
<1> QED
  BY <1>1, ToolsInvariant, PTL
=============================================================================
