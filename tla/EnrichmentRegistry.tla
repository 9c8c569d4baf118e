------------------------- MODULE EnrichmentRegistry -------------------------
(* The process-wide registry of vector-bindings/src/enrichment.rs: names to  *)
(* tables behind an RwLock, and in each table a cache of row indexes behind  *)
(* a Mutex.  Python threads register, clear and list tables and compile VRL  *)
(* programs, whose lookups capture the table their name has at compile time  *)
(* and an index on their condition fields.                                   *)
(*                                                                           *)
(* A load and a compile run without the GIL.  clear and list keep it while   *)
(* they wait for the lock.  The lock prefers writers: a reader that arrives  *)
(* while a writer waits, waits too.  A section under the write lock is one   *)
(* statement, and one step; a section under the read lock is as long as a    *)
(* lookup takes to compile, and several threads may be in theirs.            *)
EXTENDS EnrichmentTable

CONSTANTS
  Threads,      \* Python threads
  NoThread,     \* the owner of a free GIL
  Names,        \* table names
  Files,        \* the tables a path may hold
  Programs,     \* the programs a thread may compile: sequences of lookups
  MaxWrites     \* bound: calls of register and clear

Lookups == [name : Names, fields : SUBSET Fields, caseSensitive : BOOLEAN]

ASSUME RegistryAssumption ==
  /\ NoThread \notin Threads
  /\ \A table \in Files : Loaded(table)
  /\ Programs \subseteq Seq(Lookups)
  /\ MaxWrites \in Nat

VARIABLES
  gil,        \* the thread that holds the GIL
  reading,    \* threads that hold a read guard of the registry
  registry,   \* name -> the number in `heap` of its table, 0 for no table
  heap,       \* every table ever registered, and its cache of indexes
  pc,         \* where each thread stands in the function it called
  fresh,      \* register: the name, and the table loaded for it
  program,    \* compile: the program
  captured,   \* compile: the lookups compiled so far; version 0 is a failure
  writes      \* calls of register and clear so far

shared == <<registry, heap>>
locals == <<fresh, program, captured>>
vars   == <<gil, reading, shared, pc, locals, writes>>

NoTable    == [name |-> "none", table |-> [kind |-> "none", columns |-> {}, rows |-> <<>>]]
EmptyCache == <<>>

Init ==
  /\ gil = NoThread
  /\ reading = {}
  /\ registry = [name \in Names |-> 0]
  /\ heap = <<>>
  /\ pc       = [t \in Threads |-> "python"]
  /\ fresh    = [t \in Threads |-> NoTable]
  /\ program  = [t \in Threads |-> <<>>]
  /\ captured = [t \in Threads |-> <<>>]
  /\ writes = 0

Moves(t, from, to) == pc[t] = from /\ pc' = [pc EXCEPT ![t] = to]

WriterWaits == \E t \in Threads : pc[t] \in {"want_write", "want_clear"}

-----------------------------------------------------------------------------
(* register_enrichment_table: the file is read before the lock is asked for. *)
CallRegister(t, name) ==
  /\ gil = NoThread /\ writes < MaxWrites
  /\ Moves(t, "python", "load")
  /\ fresh' = [fresh EXCEPT ![t].name = name]
  /\ writes' = writes + 1
  /\ UNCHANGED <<gil, reading, shared, program, captured>>

Load(t) ==
  /\ \/ /\ Moves(t, "load", "want_write")
        /\ \E file \in Files : fresh' = [fresh EXCEPT ![t].table = file]
     \/ Moves(t, "load", "attach") /\ UNCHANGED fresh
  /\ UNCHANGED <<gil, reading, shared, program, captured, writes>>

IgnoresReaders == TRUE
MayWrite       == reading = {}

(* A registration replaces the table of its name, and with it the cache.     *)
KeepsBound(name, number) ==
  [registry EXCEPT ![name] = IF @ = 0 THEN number ELSE @]
Rebinds(name, number)    == [registry EXCEPT ![name] = number]

InheritedCache(name) ==
  IF registry[name] = 0 THEN EmptyCache ELSE heap[registry[name]].cache
CacheOfNew(name)     == EmptyCache

Insert(t) ==
  /\ MayWrite
  /\ Moves(t, "want_write", "attach")
  /\ LET name == fresh[t].name
     IN  /\ heap' = Append(heap, [table |-> fresh[t].table,
                                  cache |-> CacheOfNew(name)])
         /\ registry' = Rebinds(name, Len(heap) + 1)
  /\ UNCHANGED <<gil, reading, locals, writes>>

-----------------------------------------------------------------------------
(* clear_enrichment_tables and list_enrichment_tables wait with the GIL.     *)
CallClear(t) ==
  /\ gil = NoThread /\ gil' = t /\ writes < MaxWrites
  /\ Moves(t, "python", "want_clear")
  /\ writes' = writes + 1
  /\ UNCHANGED <<reading, shared, locals>>

Clear(t) ==
  /\ MayWrite
  /\ Moves(t, "want_clear", "python")
  /\ registry' = [name \in Names |-> 0]
  /\ gil' = NoThread
  /\ UNCHANGED <<reading, heap, locals, writes>>

CallList(t) ==
  /\ gil = NoThread /\ gil' = t
  /\ Moves(t, "python", "want_list")
  /\ UNCHANGED <<reading, shared, locals, writes>>

List(t) ==
  /\ ~WriterWaits
  /\ Moves(t, "want_list", "python")
  /\ gil' = NoThread
  /\ UNCHANGED <<reading, shared, locals, writes>>

-----------------------------------------------------------------------------
(* Anything that compiles: compile_args once per lookup of the program.      *)
CallCompile(t, p) ==
  /\ gil = NoThread
  /\ Moves(t, "python", "compile")
  /\ program' = [program EXCEPT ![t] = p]
  /\ UNCHANGED <<gil, reading, shared, fresh, captured, writes>>

Compiled(t)  == Len(captured[t]) = Len(program[t])
Lookup(t)    == program[t][Len(captured[t]) + 1]
Version(t)   == registry[Lookup(t).name]
Key(t)       == IndexKey(Lookup(t).caseSensitive, Lookup(t).fields)

(* The read guard goes when compile_args returns; kept for the rest of the   *)
(* program, the next lookup would ask for it again behind a waiting writer.  *)
KeepsGuard(t)   == UNCHANGED reading
DropsGuard(t)   == reading' = reading \ {t}

ReadLock(t) ==
  /\ ~Compiled(t) /\ ~WriterWaits
  /\ Moves(t, "compile", "resolve")
  /\ reading' = reading \union {t}
  /\ UNCHANGED <<gil, shared, locals, writes>>

Abandon(t, from) ==
  /\ Moves(t, from, "attach")
  /\ program'  = [program EXCEPT ![t] = <<>>]
  /\ captured' = [captured EXCEPT ![t] = <<>>]
  /\ UNCHANGED <<gil, shared, fresh, writes>>

(* A lookup failed, or the program is wrong elsewhere: no further lookup of  *)
(* it is reached.                                                            *)
CompileFails(t) == Abandon(t, "compile") /\ UNCHANGED reading

Capture(t, version, index) ==
  /\ captured' = [captured EXCEPT ![t] =
                    Append(@, [lookup |-> Lookup(t), version |-> version,
                               index |-> index])]
  /\ DropsGuard(t)
  /\ UNCHANGED <<gil, registry, fresh, program, writes>>

(* Coming back for a table that is not registered yet, a program would never *)
(* end where no thread registers it.                                         *)
WaitsForTable(t) ==
  /\ Moves(t, "resolve", "compile")
  /\ DropsGuard(t)
  /\ UNCHANGED <<gil, shared, locals, writes>>

(* An unknown table, or an argument that is not the literal it has to be:    *)
(* the compiler notes it and goes on to the next lookup.                     *)
LookupFails(t) ==
  /\ Moves(t, "resolve", "compile")
  /\ Capture(t, 0, NoIndex)
  /\ UNCHANGED heap

Resolve(t) ==
  /\ Moves(t, "resolve", "index")
  /\ Version(t) # 0
  /\ UNCHANGED <<gil, reading, shared, locals, writes>>

NoIndexFor(t) ==
  /\ Moves(t, "index", "compile")
  /\ ~HasIndex(heap[Version(t)].table, Lookup(t).fields)
  /\ Capture(t, Version(t), NoIndex)
  /\ UNCHANGED heap

CachedIndex(t) ==
  /\ Moves(t, "index", "compile")
  /\ HasIndex(heap[Version(t)].table, Lookup(t).fields)
  /\ Key(t) \in DOMAIN heap[Version(t)].cache
  /\ Capture(t, Version(t), heap[Version(t)].cache[Key(t)])
  /\ UNCHANGED heap

(* The cache is unlocked while an index is built, so that two threads may    *)
(* build the same one; the second to finish replaces the first's.            *)
MissIndex(t) ==
  /\ Moves(t, "index", "build")
  /\ HasIndex(heap[Version(t)].table, Lookup(t).fields)
  /\ Key(t) \notin DOMAIN heap[Version(t)].cache
  /\ UNCHANGED <<gil, reading, shared, locals, writes>>

BuildIndex(t) ==
  LET v     == Version(t)
      index == RowIndex(heap[v].table, Lookup(t).caseSensitive, Lookup(t).fields)
      cache == heap[v].cache
  IN  /\ Moves(t, "build", "compile")
      /\ heap' = [heap EXCEPT ![v].cache =
                    [key \in DOMAIN cache \union {Key(t)} |->
                       IF key = Key(t) THEN index ELSE cache[key]]]
      /\ Capture(t, v, index)

(* The events are run with what was captured, and the program dropped. *)
Run(t) ==
  /\ Compiled(t) /\ Moves(t, "compile", "run")
  /\ \A i \in DOMAIN captured[t] : captured[t][i].version # 0
  /\ UNCHANGED <<gil, reading, shared, locals, writes>>

Finish(t) == Abandon(t, "run") /\ UNCHANGED reading

(* Back to Python with the results, or to raise. *)
Attach(t) ==
  /\ gil = NoThread
  /\ Moves(t, "attach", "python")
  /\ fresh' = [fresh EXCEPT ![t] = NoTable]
  /\ UNCHANGED <<gil, reading, shared, program, captured, writes>>

-----------------------------------------------------------------------------
Call(t) ==
  \/ \E name \in Names : CallRegister(t, name)
  \/ CallClear(t)
  \/ CallList(t)
  \/ \E p \in Programs : CallCompile(t, p)

Proceed(t) ==
  \/ Load(t) \/ Insert(t) \/ Clear(t) \/ List(t)
  \/ ReadLock(t) \/ CompileFails(t) \/ LookupFails(t) \/ Resolve(t)
  \/ NoIndexFor(t) \/ CachedIndex(t) \/ MissIndex(t) \/ BuildIndex(t)
  \/ Run(t) \/ Finish(t)

Next == \E t \in Threads : Call(t) \/ Proceed(t) \/ Attach(t)

(* Threads inside a call are scheduled, and the lock goes to a thread that   *)
(* can have it until it takes it; the GIL goes around (see VectorPipeline).  *)
(* Nothing is assumed of readers that find writers waiting time and again.   *)
Fairness == \A t \in Threads : WF_vars(Proceed(t)) /\ SF_vars(Attach(t))

Spec == Init /\ [][Next]_vars /\ Fairness

-----------------------------------------------------------------------------
GuardStates == {"resolve", "index", "build"}
OtherStates == {"python", "load", "want_write", "want_clear", "want_list",
                "compile", "run", "attach"}

SharedType ==
  /\ gil \in Threads \union {NoThread}
  /\ reading \subseteq Threads
  /\ registry \in [Names -> 0..Len(heap)]
  /\ \A v \in DOMAIN heap :
       /\ heap[v].table \in Files
       /\ DOMAIN heap[v].cache \subseteq BOOLEAN \X SUBSET Fields
LocalType ==
  /\ pc \in [Threads -> GuardStates \union OtherStates]
  /\ program \in [Threads -> Seq(Lookups)]
  /\ \A t \in Threads :
       /\ pc[t] = "want_write" => fresh[t].name \in Names /\ fresh[t].table \in Files
       /\ \A i \in DOMAIN captured[t] : captured[t][i].version \in 0..Len(heap)
  /\ writes \in 0..MaxWrites

(* The type invariant: in particular every number the registry or a compiled *)
(* program holds is that of a table.                                         *)
TypeOK == SharedType /\ LocalType

(* While a lookup is compiled, from the moment its name is resolved to the   *)
(* moment its index is captured, the table it found stays the registered     *)
(* one: no registration and no clear comes between (the read guard that      *)
(* compile_args holds to its end).                                           *)
ResolvedStaysRegistered ==
  [][\A t \in Threads :
       (pc[t] \in {"index", "build"} /\ pc'[t] = pc[t])
         => Version(t)' = Version(t)]_vars

Conditions(fields) == [fields -> Texts \union {NotScalar}]

Holds(Property(_, _, _, _)) ==
  \A t \in Threads : \A i \in DOMAIN captured[t] :
    LET c == captured[t][i]
    IN  c.version # 0 => \A condition \in Conditions(c.lookup.fields) :
          Property(heap[c.version].table, c.index, condition,
                   c.lookup.caseSensitive)

(* Whichever thread built the index a lookup captured, and whatever was      *)
(* registered or cleared since, find_enrichment_table_records returns for    *)
(* every condition the rows a scan of the captured table finds: "programs    *)
(* already compiled keep the table data they captured".                      *)
FindsAreScans == Holds(FindIsScan)

(* get_enrichment_table_record returns the one row a scan finds, and tells   *)
(* no row from several although it copies out at most two.                   *)
GetsAreScans == Holds(GetIsScan)

(* A lookup compiled with a field the table has no column for is an error    *)
(* when it is run, and only then.                                            *)
UnknownFieldsFail == Holds(UnknownFieldFails)

(* "Every call that compiles or runs VRL releases the GIL while the VRL      *)
(* works, so other Python threads keep running" (the Python API reference):  *)
(* no thread that has the GIL is kept waiting by one that compiles.          *)
OtherThreadsKeepRunning ==
  \A t \in Threads : (gil = t /\ pc[t] = "want_clear") => reading = {}

(* For whom a thread waits: a writer for the readers, who asks for a guard   *)
(* for the writers that wait, and who is or wants to be in Python for the    *)
(* owner of the GIL.                                                         *)
WaitsFor(t, u) ==
  \/ pc[t] \in {"want_write", "want_clear"} /\ u \in reading
  \/ /\ pc[t] = "want_list" \/ (pc[t] = "compile" /\ ~Compiled(t))
     /\ pc[u] \in {"want_write", "want_clear"}
  \/ pc[t] \in {"attach", "python"} /\ u = gil

(* No threads wait for each other in a ring, not even while others go on: in *)
(* every set of threads there is one that waits for none of the set, though  *)
(* clear and list wait for the lock with the GIL, a waiting writer stops new *)
(* readers, and a program of several lookups asks for the lock several times.*)
NoRingOfWaits ==
  \A S \in (SUBSET Threads) \ {{}} : \E t \in S : \A u \in S : ~WaitsFor(t, u)

(* A bound on the steps a call still has: four for each lookup left to       *)
(* compile, and those of the way out.                                        *)
WayOut == [python |-> 0, attach |-> 1, want_list |-> 1, want_clear |-> 1, run |-> 2,
           want_write |-> 2, load |-> 3, compile |-> 3, resolve |-> 2, index |-> 1,
           build |-> 0]

StepsLeft(t) ==
  IF pc[t] \in GuardStates \union {"compile"}
  THEN WayOut[pc[t]] + 4 * (Len(program[t]) - Len(captured[t]))
  ELSE WayOut[pc[t]]

(* No call goes in circles, and none sends another back: every step but the  *)
(* first of a call brings one thread nearer to its return and leaves the     *)
(* others where they are, whatever table was replaced or index lost under    *)
(* them.  With NoRingOfWaits: once no more calls are made, all return.       *)
EveryStepLeadsBack ==
  [][\E t \in Threads :
       /\ pc[t] = "python" \/ StepsLeft(t)' < StepsLeft(t)
       /\ \A u \in Threads \ {t} : StepsLeft(u)' = StepsLeft(u)]_vars

(* The call a thread at this place is in, as a user of the store sees it.    *)
CallAt(place) ==
  CASE place = "python"     -> "none"
    [] place = "load"       -> "register"
    [] place = "want_write" -> "loaded"
    [] place = "want_clear" -> "clear"
    [] place = "want_list"  -> "list"
    [] place = "run"        -> "run"
    [] place = "attach"     -> "ended"
    [] place \in GuardStates \union {"compile"} -> "compile"

TableOf(version) == IF version = 0 THEN NoTable.table ELSE heap[version].table

BoundTables == [name \in Names |-> TableOf(registry[name])]
CallsOf     == [t \in Threads |-> CallAt(pc[t])]
FoundOf     == [t \in Threads |->
                  [i \in 1..Len(captured[t]) |->
                     [lookup |-> captured[t][i].lookup,
                      table  |-> TableOf(captured[t][i].version)]]]

Store == INSTANCE TableStore WITH
  Tables <- Files, NoTable <- NoTable.table, Nothing <- NoTable,
  store <- BoundTables, call <- CallsOf, entry <- fresh, found <- FoundOf

(* Two threads that register one name, or register and clear, while a third  *)
(* compiles: although files are read before the lock is taken, and every     *)
(* lookup takes it for itself, each call acts at one moment between its call *)
(* and its return, each lookup of a program at one of its own, one after the *)
(* other, and a table once found is not lost or changed.                     *)
ImplementsTableStore == Store!Spec

(* Every call ends: no thread waits forever for the lock or for the GIL,     *)
(* though clear waits for the lock with the GIL and compiling threads have   *)
(* the one and will want the other.                                          *)
CallsReturn == \A t \in Threads : pc[t] # "python" ~> pc[t] = "python"
=============================================================================
