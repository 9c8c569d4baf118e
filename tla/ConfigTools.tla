---------------------------- MODULE ConfigTools ----------------------------
(* The calls of vector_vrl that take a whole Vector config: validate_config  *)
(* and validate_config_with_vector of config_check.py, and                   *)
(* execute_vector_pipeline and the VectorTestRunner under it.  Threads make  *)
(* them at the same time.  The first compiles here, against the tables that  *)
(* are registered while it goes from transform to transform; the others      *)
(* start a vector process and wait for it, not longer than their timeout.    *)
(* That process reads, works, writes and ends, or hangs, on its own.         *)
EXTENDS RemapChain

CONSTANTS
  Threads,
  Configs,      \* the configs a caller may have
  Inputs,       \* what it may feed: sequences of lines
  Separators,   \* lines with a break that str.splitlines alone sees
  BrokenNames,  \* table names with a line break in them
  Directories,  \* what mkdtemp may create
  NoDirectory,
  NoConfig

ASSUME ToolsAssumption ==
  /\ \A config \in Configs : IsConfig(config)
  /\ Inputs \subseteq Seq(Lines) /\ Separators \subseteq Lines
  /\ BrokenNames \subseteq TableNames
  /\ NoDirectory \notin Directories /\ NoConfig \notin Configs

VARIABLES
  tables,     \* the names registered in this process
  stage,      \* where each thread stands in its call
  config,     \* the config it was called with
  input,      \* the lines it feeds
  order,      \* remap_chain: the transforms walked so far
  verdicts,   \* validate_config: what it has said of each transform, and the
              \* names registered when it compiled one that looks tables up
  directory,  \* the test_dir of a run
  disk,       \* directories that exist, those an earlier run left among them,
              \* and the lines whose events are in the output file of each
  vector,     \* the vector process of each thread
  taken,      \* lines that process has read
  buffer,     \* those whose events it has not yet written
  answer      \* what the call is about to return or raise

call    == <<config, input>>
process == <<vector, taken, buffer>>
vars    == <<tables, stage, call, order, verdicts, directory, disk, process, answer>>

Nothing == [says |-> "nothing", results |-> {}]

Init ==
  /\ tables = {}
  /\ stage     = [t \in Threads |-> "python"]
  /\ config    = [t \in Threads |-> NoConfig]
  /\ input     = [t \in Threads |-> <<>>]
  /\ order     = [t \in Threads |-> <<>>]
  /\ verdicts  = [t \in Threads |-> {}]
  /\ directory = [t \in Threads |-> NoDirectory]
  /\ disk      = [d \in {} |-> {}]
  /\ vector    = [t \in Threads |-> "none"]
  /\ taken     = [t \in Threads |-> {}]
  /\ buffer    = [t \in Threads |-> {}]
  /\ answer    = [t \in Threads |-> Nothing]

Moves(t, from, to) == stage[t] = from /\ stage' = [stage EXCEPT ![t] = to]

Answers(t, says, results) ==
  answer' = [answer EXCEPT ![t] = [says |-> says, results |-> results]]

(* Another thread registers a table, or clears them all. *)
OtherTables ==
  /\ \/ \E name \in TableNames : tables' = tables \union {name}
     \/ tables' = {}
  /\ UNCHANGED <<stage, call, order, verdicts, directory, disk, process, answer>>

-----------------------------------------------------------------------------
(* validate_config: transform after transform, in whatever order the config  *)
(* has them.                                                                 *)
CallCheck(t, c) ==
  /\ Moves(t, "python", "check")
  /\ config' = [config EXCEPT ![t] = c]
  /\ UNCHANGED <<tables, input, order, verdicts, directory, disk, process, answer>>

(* The lines of the error validate_vrl gives for a program.  An unknown      *)
(* table's diagnostic lists the registered names as they are.                *)
NameBreaks(transform) ==
  ~(transform.tables \subseteq tables) /\ tables \intersect BrokenNames # {}

ErrorLines(transform) ==
  {line \in {"left_out_function", "unknown_table", "anything_else"} :
     \/ line = "left_out_function" /\ transform.sandboxed
     \/ line = "unknown_table" /\ ~(transform.tables \subseteq tables)
     \/ line = "anything_else" /\ (transform.wrong \/ NameBreaks(transform))}

OnlyLeftOut(lines) == lines \subseteq {"left_out_function"}
AllExcused(lines)  == lines \subseteq {"left_out_function", "unknown_table"}

Verdict(transform) ==
  LET lines == ErrorLines(transform)
  IN  CASE transform.kind = "file" -> "skipped"
        [] transform.kind = "inline" ->
             IF lines = {} THEN "ok"
             ELSE IF AllExcused(lines) THEN "unchecked" ELSE "failed"
        [] transform.kind = "not_remap" -> "not_remap"

Judged(t) == {said.name : said \in verdicts[t]}

Judgement(t, name) ==
  [name |-> name, verdict |-> Verdict(config[t][name]),
   seen |-> IF config[t][name].tables = {} THEN {} ELSE tables]

CheckTransform(t) ==
  /\ stage[t] = "check"
  /\ \E name \in DOMAIN config[t] \ Judged(t) :
       verdicts' = [verdicts EXCEPT ![t] = @ \union {Judgement(t, name)}]
  /\ UNCHANGED <<tables, stage, call, order, directory, disk, process, answer>>

Failed(t) == \E said \in verdicts[t] : said.verdict = "failed"

CheckDone(t) ==
  /\ Moves(t, "check", "return")
  /\ DOMAIN config[t] = Judged(t)
  /\ Answers(t, IF Failed(t) THEN "failure" ELSE "success", {})
  /\ UNCHANGED <<tables, call, order, verdicts, directory, disk, process>>

-----------------------------------------------------------------------------
(* execute_vector_pipeline: remap_chain first.  test_vrl_with_vector makes a *)
(* chain of the one program it is given.                                     *)
CallRun(t, c, lines) ==
  /\ Moves(t, "python", "chain")
  /\ config' = [config EXCEPT ![t] = c]
  /\ input' = [input EXCEPT ![t] = lines]
  /\ UNCHANGED <<tables, order, verdicts, directory, disk, process, answer>>

CallTest(t, c, name, lines) ==
  /\ Moves(t, "python", "prepare")
  /\ DOMAIN c = {name} /\ c[name].kind = "inline" /\ Upstream(c, name) = {}
  /\ config' = [config EXCEPT ![t] = c]
  /\ input' = [input EXCEPT ![t] = lines]
  /\ order' = [order EXCEPT ![t] = <<name>>]
  /\ UNCHANGED <<tables, verdicts, directory, disk, process, answer>>

After(t)  == Following(config[t], order[t][Len(order[t])])
Walked(t) == order[t] # <<>> /\ After(t) = {}

StartWalk(t) ==
  /\ stage[t] = "chain" /\ order[t] = <<>>
  /\ AllInline(config[t]) /\ Linear(config[t])
  /\ \E head \in Heads(config[t]) : order' = [order EXCEPT ![t] = <<head>>]
  /\ UNCHANGED <<tables, stage, call, verdicts, directory, disk, process, answer>>

Walk(t) ==
  /\ stage[t] = "chain" /\ order[t] # <<>>
  /\ \E name \in After(t) : order' = [order EXCEPT ![t] = Append(@, name)]
  /\ UNCHANGED <<tables, stage, call, verdicts, directory, disk, process, answer>>

Accept(t) ==
  /\ Moves(t, "chain", "prepare")
  /\ Walked(t) /\ Complete(config[t], order[t])
  /\ UNCHANGED <<tables, call, order, verdicts, directory, disk, process, answer>>

Refuse(t) ==
  /\ Moves(t, "chain", "return")
  /\ \/ order[t] = <<>> /\ ~(AllInline(config[t]) /\ Linear(config[t]))
     \/ Walked(t) /\ ~Complete(config[t], order[t])
  /\ Answers(t, "not_a_chain", {})
  /\ UNCHANGED <<tables, call, order, verdicts, directory, disk, process>>

(* VectorTestRunner finds no binary, or mkdtemp can make no directory. *)
NoBinary(t) ==
  /\ Moves(t, "prepare", "return")
  /\ Answers(t, "raises", {})
  /\ UNCHANGED <<tables, call, order, verdicts, directory, disk, process>>

(* mkdtemp, and the config of the run: the chain between a stdin source and  *)
(* a file sink, and nothing else of the caller's config.                     *)
SharedDirectory == Directories
NewDirectory    == Directories \ DOMAIN disk

MakeDirectory(t) ==
  /\ Moves(t, "prepare", "start")
  /\ \E d \in NewDirectory :
       /\ directory' = [directory EXCEPT ![t] = d]
       /\ disk' = [e \in DOMAIN disk \union {d} |->
                    IF e \in DOMAIN disk THEN disk[e] ELSE {}]
  /\ UNCHANGED <<tables, call, order, verdicts, process, answer>>

-----------------------------------------------------------------------------
(* validate_config_with_vector hands vector the config as it is. *)
CallValidate(t, c) ==
  /\ Moves(t, "python", "start")
  /\ config' = [config EXCEPT ![t] = c]
  /\ UNCHANGED <<tables, input, order, verdicts, directory, disk, process, answer>>

Runs(t) == directory[t] # NoDirectory

(* subprocess.run, of a binary that does not start, which a run answers and  *)
(* the config's file, when that cannot be written, does not ..               *)
OSError(t) ==
  /\ Moves(t, "start", "clean")
  /\ \/ Runs(t) /\ Answers(t, "failure", {})
     \/ Answers(t, "raises", {})
  /\ UNCHANGED <<tables, call, order, verdicts, directory, disk, process>>

(* .. and of one that does. *)
Spawn(t) ==
  /\ Moves(t, "start", "wait")
  /\ vector' = [vector EXCEPT ![t] = "running"]
  /\ UNCHANGED <<tables, call, order, verdicts, directory, disk, taken, buffer, answer>>

Collect(t) ==
  /\ Moves(t, "wait", "read")
  /\ vector[t] \in {"done", "failed"}
  /\ UNCHANGED <<tables, call, order, verdicts, directory, disk, process, answer>>

(* The timeout may run out at any time, even as the process ends. *)
NoTimeout(t) == FALSE
TimeIsUp(t)  == TRUE

Timeout(t) ==
  /\ Moves(t, "wait", "reap")
  /\ TimeIsUp(t)
  /\ vector' = [vector EXCEPT ![t] = IF @ = "running" THEN "killed" ELSE @]
  /\ UNCHANGED <<tables, call, order, verdicts, directory, disk, taken, buffer, answer>>

(* A process that was killed is waited for, however long it takes to die. *)
Dead(t) == vector[t] # "killed"

Reap(t) ==
  /\ Moves(t, "reap", "clean")
  /\ Dead(t)
  /\ Answers(t, IF Runs(t) THEN "failure" ELSE "raises", {})
  /\ vector' = [vector EXCEPT ![t] = IF @ = "killed" THEN @ ELSE "none"]
  /\ UNCHANGED <<tables, call, order, verdicts, directory, disk, taken, buffer>>

(* A line of the output that str.splitlines breaks is no JSON. *)
Undecodable(t) == {n \in DOMAIN input[t] : input[t][n] \in Separators}
Output(t)      == IF Runs(t) THEN disk[directory[t]] ELSE {}

Read(t) ==
  /\ Moves(t, "read", "clean")
  /\ LET broken == {event \in Output(t) : event.line \in Undecodable(event.of)}
         fine   == vector[t] = "done" /\ broken = {}
     IN  Answers(t, IF fine THEN "success" ELSE "failure", Output(t) \ broken)
  /\ vector' = [vector EXCEPT ![t] = "none"]
  /\ UNCHANGED <<tables, call, order, verdicts, directory, disk, taken, buffer>>

(* The output file is there and cannot be read. *)
ReadFails(t) ==
  /\ Moves(t, "read", "clean")
  /\ Runs(t) /\ Output(t) # {}
  /\ Answers(t, "raises", {})
  /\ vector' = [vector EXCEPT ![t] = "none"]
  /\ UNCHANGED <<tables, call, order, verdicts, directory, disk, taken, buffer>>

(* The finally of run_remap_chain.  A removal that fails says nothing and    *)
(* leaves the directory, at worst as it is.                                  *)
Clean(t) ==
  /\ Moves(t, "clean", "return")
  /\ disk' = [d \in DOMAIN disk \ {directory[t]} |-> disk[d]]
  /\ directory' = [directory EXCEPT ![t] = NoDirectory]
  /\ UNCHANGED <<tables, call, order, verdicts, process, answer>>

CleanFails(t) ==
  /\ Moves(t, "clean", "return")
  /\ Runs(t)
  /\ directory' = [directory EXCEPT ![t] = NoDirectory]
  /\ UNCHANGED <<tables, call, order, verdicts, disk, process, answer>>

Return(t) ==
  /\ Moves(t, "return", "python")
  /\ config'   = [config EXCEPT ![t] = NoConfig]
  /\ input'    = [input EXCEPT ![t] = <<>>]
  /\ order'    = [order EXCEPT ![t] = <<>>]
  /\ verdicts' = [verdicts EXCEPT ![t] = {}]
  /\ answer'   = [answer EXCEPT ![t] = Nothing]
  /\ UNCHANGED <<tables, directory, disk, process>>

-----------------------------------------------------------------------------
(* The vector process.  A run's config declares no enrichment table, so a    *)
(* program that looks one up does not compile in it.                         *)
Refused(t) ==
  \E name \in DOMAIN config[t] :
    \/ config[t][name].wrong
    \/ Runs(t) /\ config[t][name].tables # {}

Working(t) == vector[t] \in {"running", "killed"} /\ Runs(t) /\ ~Refused(t)

Take(t) ==
  /\ Working(t)
  /\ \E n \in DOMAIN input[t] \ taken[t] :
       /\ taken' = [taken EXCEPT ![t] = @ \union {n}]
       /\ buffer' = [buffer EXCEPT ![t] =
                       IF Survives(config[t], input[t][n]) THEN @ \union {n} ELSE @]
  /\ UNCHANGED <<tables, stage, call, order, verdicts, directory, disk, vector, answer>>

Events(t) == {[of |-> t, line |-> n] : n \in buffer[t]}

Written(t) == [disk EXCEPT ![directory[t]] = @ \union Events(t)]

Write(t) ==
  /\ Working(t) /\ buffer[t] # {} /\ directory[t] \in DOMAIN disk
  /\ disk' = Written(t)
  /\ buffer' = [buffer EXCEPT ![t] = {}]
  /\ UNCHANGED <<tables, stage, call, order, verdicts, directory, vector, taken, answer>>

(* What a process holds is gone with it. *)
Lingers(t, from, to) ==
  /\ vector[t] = from
  /\ vector' = [vector EXCEPT ![t] = to]
  /\ UNCHANGED <<taken, buffer>>

Ends(t, from, to) ==
  /\ vector[t] = from
  /\ vector' = [vector EXCEPT ![t] = to]
  /\ taken'  = [taken EXCEPT ![t] = {}]
  /\ buffer' = [buffer EXCEPT ![t] = {}]

(* The last write of a console sink would be lost when it has not started;   *)
(* a file sink is flushed.                                                   *)
ConsoleSink(t) == disk
FileSink(t)    == Written(t)

End(t) ==
  /\ Ends(t, "running", "done")
  /\ Working(t) /\ taken[t] = DOMAIN input[t]
  /\ disk' = FileSink(t)
  /\ UNCHANGED <<tables, stage, call, order, verdicts, directory, answer>>

Approve(t) ==
  /\ Ends(t, "running", "done")
  /\ ~Runs(t) /\ ~Refused(t)
  /\ UNCHANGED <<tables, stage, call, order, verdicts, directory, disk, answer>>

(* It refuses its config, or ends badly at any time. *)
Fail(t) ==
  /\ Ends(t, "running", "failed")
  /\ UNCHANGED <<tables, stage, call, order, verdicts, directory, disk, answer>>

Die(t) ==
  /\ Ends(t, "killed", "none")
  /\ UNCHANGED <<tables, stage, call, order, verdicts, directory, disk, answer>>

-----------------------------------------------------------------------------
Call(t) ==
  \E c \in Configs :
    \/ CallCheck(t, c) \/ CallValidate(t, c)
    \/ \E lines \in Inputs :
         CallRun(t, c, lines) \/ \E name \in DOMAIN c : CallTest(t, c, name, lines)

Proceed(t) ==
  \/ CheckTransform(t) \/ CheckDone(t)
  \/ StartWalk(t) \/ Walk(t) \/ Accept(t) \/ Refuse(t)
  \/ NoBinary(t) \/ MakeDirectory(t) \/ OSError(t) \/ Spawn(t)
  \/ Collect(t) \/ Timeout(t) \/ Reap(t) \/ Read(t) \/ ReadFails(t)
  \/ Clean(t) \/ CleanFails(t) \/ Return(t)

Vector(t) == Take(t) \/ Write(t) \/ End(t) \/ Approve(t) \/ Fail(t)

Next ==
  \/ OtherTables
  \/ \E t \in Threads : Call(t) \/ Proceed(t) \/ Vector(t) \/ Die(t)

(* A thread in a call goes on, a timeout that runs out is noticed, and the   *)
(* system ends a process it was told to kill.  Nothing is assumed of vector. *)
Fairness == \A t \in Threads : WF_vars(Proceed(t)) /\ WF_vars(Die(t))

Spec == Init /\ [][Next]_vars /\ Fairness

-----------------------------------------------------------------------------
Stages == {"python", "check", "chain", "prepare", "start", "wait", "reap",
           "read", "clean", "return"}
Verdicts == {"ok", "unchecked", "failed", "skipped", "not_remap"}

TypeOK ==
  /\ tables \subseteq TableNames
  /\ stage \in [Threads -> Stages]
  /\ config \in [Threads -> Configs \union {NoConfig}]
  /\ input \in [Threads -> Inputs \union {<<>>}]
  /\ directory \in [Threads -> Directories \union {NoDirectory}]
  /\ DOMAIN disk \subseteq Directories
  /\ vector \in [Threads -> {"none", "running", "killed", "done", "failed"}]
  /\ \A t \in Threads :
       /\ buffer[t] \subseteq taken[t] /\ taken[t] \subseteq DOMAIN input[t]
       /\ \A said \in verdicts[t] :
            said.name \in DOMAIN config[t] /\ said.verdict \in Verdicts

(* "The config's remap transforms run in the order their `inputs` chain      *)
(* them": what is run is one chain of all of them, each fed by the one       *)
(* before it alone, and a config that is refused has no such chain, although *)
(* remap_chain never looks for cycles or for transforms the walk leaves out. *)
ExactlyChainsRun ==
  \A t \in Threads :
    /\ Runs(t) => AllInline(config[t]) /\ IsChain(config[t], order[t])
    /\ answer[t].says = "not_a_chain" => ~FormChain(config[t])

(* "Vector ... exits once the file is flushed": a run reported successful    *)
(* gives the event of every line that no program aborts, and whatever a run  *)
(* gives, killed or failed or beside others, is of its own lines.            *)
Expected(t) == {[of |-> t, line |-> n] : n \in
                  {n \in DOMAIN input[t] : Survives(config[t], input[t][n])}}
SuccessIsEveryEvent ==
  \A t \in Threads :
    /\ answer[t].results \subseteq Expected(t)
    /\ answer[t].says = "success" /\ order[t] # <<>> => answer[t].results = Expected(t)

(* No vector process outlives the call that started it, timeout or not, and  *)
(* no call ends before the removal of its directory was tried.  A directory  *)
(* whose removal failed stays: none is worked in but the one its own run     *)
(* made, which is there for as long as the run is and had nothing in it.     *)
NothingOutlivesItsCall ==
  /\ \A t \in Threads :
       /\ vector[t] \in {"running", "killed"} => stage[t] \in {"wait", "reap"}
       /\ Runs(t) => /\ stage[t] \in {"start", "wait", "reap", "read", "clean"}
                     /\ directory[t] \in DOMAIN disk
                     /\ stage[t] = "start" => Output(t) = {}
  /\ \A t, u \in Threads : Runs(t) /\ directory[t] = directory[u] => t = u

(* "A valid config must never be reported as broken", nor a wrong program    *)
(* pass for one that could not be checked, or a config that has one for a    *)
(* valid one, whichever tables come and go while the transforms are          *)
(* compiled.  A lookup in a table that is not registered is called broken    *)
(* only while one is whose name has a line break in it, which makes the      *)
(* diagnostic look like two.                                                 *)
VerdictsAreFair ==
  \A t \in Threads :
    /\ \A said \in verdicts[t] :
         LET transform == config[t][said.name]
             unknown   == ~(transform.tables \subseteq said.seen)
         IN  /\ transform.wrong /\ transform.kind = "inline" => said.verdict = "failed"
             /\ said.verdict = "failed" =>
                  transform.wrong \/ (unknown /\ said.seen \intersect BrokenNames # {})
             /\ said.verdict = "ok" => ~transform.sandboxed /\ ~unknown
    /\ verdicts[t] # {} /\ answer[t].says = "success" =>
         \A name \in DOMAIN config[t] :
           config[t][name].wrong => config[t][name].kind # "inline"

(* Every call returns, though vector may hang. *)
CallsReturn == \A t \in Threads : stage[t] # "python" ~> stage[t] = "python"
=============================================================================
