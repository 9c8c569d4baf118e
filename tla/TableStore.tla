----------------------------- MODULE TableStore -----------------------------
(* What the enrichment registry promises, with no lock, guard, cache or      *)
(* index: a store of named tables on which every call acts at once, at some  *)
(* moment between its call and its return.  A registration has two such      *)
(* moments, of reading its file and of entering it under its name; a compile *)
(* has one for each lookup of its program, one after the other, and not one  *)
(* for all of them.  What a lookup has found stays found.                    *)
EXTENDS Naturals, Sequences

CONSTANTS
  Threads,
  Names,
  Tables,     \* what a file may hold when it is registered
  NoTable,    \* what a name without a table stands for
  Nothing,    \* the registration of a thread that is in none
  Programs    \* sequences of lookups, each with the name it looks in

VARIABLES
  store,      \* the table each name has now
  call,       \* what each thread has called, and how far it is
  entry,      \* the name it registers, and the table it has read for it
  program,    \* the program it compiles or runs
  found       \* the lookups compiled so far, each with its table

vars == <<store, call, entry, program, found>>

Init ==
  /\ store = [name \in Names |-> NoTable]
  /\ call = [t \in Threads |-> "none"]
  /\ entry = [t \in Threads |-> Nothing]
  /\ program = [t \in Threads |-> <<>>]
  /\ found = [t \in Threads |-> <<>>]

Moves(t, from, to) == call[t] = from /\ call' = [call EXCEPT ![t] = to]

CallRegister(t, name) ==
  /\ Moves(t, "none", "register")
  /\ entry' = [entry EXCEPT ![t].name = name]
  /\ UNCHANGED <<store, program, found>>

ReadFile(t) ==
  /\ Moves(t, "register", "loaded")
  /\ \E table \in Tables : entry' = [entry EXCEPT ![t].table = table]
  /\ UNCHANGED <<store, program, found>>

(* Its name has the table it has read, whatever it has had before, and       *)
(* though another registration read its file later and was entered earlier.  *)
Register(t) ==
  /\ Moves(t, "loaded", "ended")
  /\ store' = [store EXCEPT ![entry[t].name] = entry[t].table]
  /\ UNCHANGED <<entry, program, found>>

Call(t, operation) ==
  /\ Moves(t, "none", operation)
  /\ UNCHANGED <<store, entry, program, found>>

Clear(t) ==
  /\ Moves(t, "clear", "none")
  /\ store' = [name \in Names |-> NoTable]
  /\ UNCHANGED <<entry, program, found>>

List(t) ==
  /\ Moves(t, "list", "none")
  /\ UNCHANGED <<store, entry, program, found>>

CallCompile(t, p) ==
  /\ Moves(t, "none", "compile")
  /\ program' = [program EXCEPT ![t] = p]
  /\ UNCHANGED <<store, entry, found>>

(* The next lookup finds the table its name has now; one that is wrong in    *)
(* itself finds none.                                                        *)
Find(t) ==
  /\ call[t] = "compile" /\ Len(found[t]) < Len(program[t])
  /\ LET lookup == program[t][Len(found[t]) + 1]
     IN  \E table \in {store[lookup.name], NoTable} :
           found' = [found EXCEPT ![t] =
                       Append(@, [lookup |-> lookup, table |-> table])]
  /\ UNCHANGED <<store, call, entry, program>>

(* Only a program all of whose lookups found their tables is run. *)
Run(t) ==
  /\ Moves(t, "compile", "run")
  /\ Len(found[t]) = Len(program[t])
  /\ \A i \in DOMAIN found[t] : found[t][i].table # NoTable
  /\ UNCHANGED <<store, entry, program, found>>

(* A file that does not load. *)
Raise(t) ==
  /\ Moves(t, "register", "ended")
  /\ UNCHANGED <<store, entry, program, found>>

(* A program that does not compile, or that has been run. *)
End(t, from) ==
  /\ Moves(t, from, "ended")
  /\ program' = [program EXCEPT ![t] = <<>>]
  /\ found' = [found EXCEPT ![t] = <<>>]
  /\ UNCHANGED <<store, entry>>

Return(t) ==
  /\ Moves(t, "ended", "none")
  /\ entry' = [entry EXCEPT ![t] = Nothing]
  /\ UNCHANGED <<store, program, found>>

Next ==
  \E t \in Threads :
    \/ \E name \in Names : CallRegister(t, name)
    \/ \E operation \in {"clear", "list"} : Call(t, operation)
    \/ \E p \in Programs : CallCompile(t, p)
    \/ ReadFile(t) \/ Raise(t) \/ Register(t) \/ Clear(t) \/ List(t)
    \/ Find(t) \/ Run(t) \/ \E from \in {"compile", "run"} : End(t, from)
    \/ Return(t)

Spec == Init /\ [][Next]_vars
=============================================================================
