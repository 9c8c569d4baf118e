---------------------------- MODULE MCConfigTools ----------------------------
(* Two threads with configs that are chains, in their inputs' order or not,  *)
(* and configs that are not: a fan-out, a chain beside a cycle, none; with   *)
(* programs that are wrong, left out of the build, look a table up or abort. *)
EXTENDS ConfigTools, TLC

Remap(inputs, drops) ==
  [kind |-> "inline", inputs |-> inputs, drops |-> drops, tables |-> {},
   sandboxed |-> FALSE, wrong |-> FALSE]

With(c, name, transform) ==
  [n \in DOMAIN c \union {name} |-> IF n = name THEN transform ELSE c[n]]

Single(transform) == [n \in {"a"} |-> transform]
Chain  == With(Single(Remap(<<"b", "in">>, {})), "b", Remap(<<"in">>, {"bad"}))
Ring   == With(With(Single(Remap(<<"in">>, {})), "b", Remap(<<"c">>, {})), "c", Remap(<<"b">>, {}))
FanOut == With(With(Single(Remap(<<"in">>, {})), "b", Remap(<<"a">>, {})), "c", Remap(<<"a">>, {}))
Faulty ==
  With(With(Single([Remap(<<>>, {}) EXCEPT !.sandboxed = TRUE, !.wrong = TRUE]),
            "b", [Remap(<<"a">>, {}) EXCEPT !.tables = {"users"}]),
       "c", [Remap(<<"b">>, {}) EXCEPT !.kind = "file"])
Lookup == Single([Remap(<<>>, {}) EXCEPT !.tables = {"users"}, !.sandboxed = TRUE])

MCConfigs == {Chain, Ring, FanOut, Faulty, Lookup}

MCRun == {Chain, FanOut, Lookup}

MCInputs == {<<"good", "bad">>, <<"odd">>}

(* For the runs that check no liveness: no thread and no directory differs   *)
(* from another.                                                             *)
Symmetry == Permutations(Threads) \union Permutations(Directories)
=============================================================================
