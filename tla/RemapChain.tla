----------------------------- MODULE RemapChain -----------------------------
(* The remap transforms of a Vector config as vector_test_utils.py and       *)
(* config_check.py read them: a config maps the names of its transforms to   *)
(* what they say.  A program is what can be said of it before it runs: the   *)
(* tables it looks up, and whether it calls a function this build leaves     *)
(* out or is wrong.                                                          *)
EXTENDS Naturals, Sequences, FiniteSets

CONSTANTS
  Names,       \* what an input may name: transforms and sources
  TableNames,  \* enrichment tables
  Lines        \* lines of input

Transforms ==
  [kind      : {"inline", "file", "not_remap"},
   inputs    : Seq(Names),
   drops     : SUBSET Lines,       \* events the program aborts
   tables    : SUBSET TableNames,
   sandboxed : BOOLEAN,
   wrong     : BOOLEAN]

IsConfig(config) ==
  /\ DOMAIN config \subseteq Names /\ IsFiniteSet(DOMAIN config)
  /\ config \in [DOMAIN config -> Transforms]

(* Which of its inputs are transforms; any other is a source. *)
Upstream(config, name) ==
  {i \in DOMAIN config[name].inputs : config[name].inputs[i] \in DOMAIN config}

Feeds(config, name, next) ==
  \E i \in Upstream(config, next) : config[next].inputs[i] = name

Heads(config) == {name \in DOMAIN config : Upstream(config, name) = {}}

Following(config, name) == {next \in DOMAIN config : Feeds(config, name, next)}

AllInline(config) ==
  DOMAIN config # {} /\ \A name \in DOMAIN config : config[name].kind = "inline"

AtMostOne(set) == \A x, y \in set : x = y

Linear(config) ==
  /\ Heads(config) # {} /\ AtMostOne(Heads(config))
  /\ \A name \in DOMAIN config :
       AtMostOne(Upstream(config, name)) /\ AtMostOne(Following(config, name))

(* The walk from the head has met every transform; one it has not met is on  *)
(* a cycle of its own.                                                       *)
AnyOrder(config, order) == TRUE
Complete(config, order) == Len(order) = Cardinality(DOMAIN config)

-----------------------------------------------------------------------------
(* What "one chain" means: an order of all the transforms, none twice, in    *)
(* which each is fed by the one before it and by no other.                   *)
IsChain(config, order) ==
  /\ order \in Seq(DOMAIN config)
  /\ \A name \in DOMAIN config : \E i \in DOMAIN order : order[i] = name
  /\ \A i, j \in DOMAIN order : order[i] = order[j] => i = j
  /\ \A i \in DOMAIN order :
       IF i = 1 THEN Upstream(config, order[i]) = {}
       ELSE \E k \in DOMAIN config[order[i]].inputs :
              /\ Upstream(config, order[i]) = {k}
              /\ config[order[i]].inputs[k] = order[i - 1]

FormChain(config) ==
  /\ AllInline(config)
  /\ \E order \in [1..Cardinality(DOMAIN config) -> DOMAIN config] :
       IsChain(config, order)

Survives(config, line) ==
  \A name \in DOMAIN config : line \notin config[name].drops
=============================================================================
