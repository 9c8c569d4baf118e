----------------------------- MODULE MCEventRun -----------------------------
(* Batches of up to two events of every kind - parsed, text, with an integer *)
(* only u64 holds, with one beyond it - and programs that set, remove and    *)
(* read secrets, replace the event, make infinite floats, broken UTF-8 and   *)
(* timestamps, and fail on one event of a batch.                             *)
EXTENDS EventRun, TLC

MCFields == {"message", "id", "error"}
MCTexts  == {"{id}", "line", "{over}", "{error}", "{huge}", "1", "s", "u", ""}

Raw(text, json, fields) == [text |-> text, json |-> json, fields |-> fields]
Parsed  == Raw("{id}", TRUE, "id" :> Scalar("1"))
Line    == Raw("line", FALSE, NoFields)
TooBig  == Raw("{over}", TRUE,
               "id" :> [nested |-> TRUE, leaves |-> {"1", "over"}])
ErrorIn == Raw("{error}", TRUE, "error" :> Scalar("s"))
Huge    == Raw("{huge}", TRUE,
               "id" :> [nested |-> TRUE, leaves |-> {"1", "null", "beyond"}])
MCBatches ==
  {<<>>, <<Parsed>>, <<Parsed, Line>>, <<Line, Parsed>>, <<TooBig, Parsed>>,
   <<ErrorIn, TooBig>>, <<Huge, Line>>}

Idle == [op |-> "abort", key |-> "", text |-> "", field |-> "id",
         value |-> Scalar("null")]
Set(k, x)    == [Idle EXCEPT !.op = "set_secret", !.key = k, !.text = x]
Remove(k)    == [Idle EXCEPT !.op = "remove_secret", !.key = k]
Get(k, f)    == [Idle EXCEPT !.op = "get_secret", !.key = k, !.field = f]
Assign(f, v) == [Idle EXCEPT !.op = "assign", !.field = f, !.value = v]
Require(f)   == [Idle EXCEPT !.op = "require", !.field = f]
Replace      == [Idle EXCEPT !.op = "replace"]
Abort        == Idle
Infinite     == [nested |-> TRUE, leaves |-> {"inf", "1"}]

Opaque       == [nested |-> TRUE, leaves |-> {"bytes", "stamp"}]

MCPrograms ==
  {<<>>,
   <<Get("k", "message"), Set("k", "u")>>,
   <<Set("k", "u"), Require("id"), Remove("k")>>,
   <<Remove("k"), Set("m", "s"), Abort>>,
   <<Assign("id", Infinite), Require("message"), Assign("id", Scalar("1"))>>,
   <<Set("m", "s"), Assign("message", Infinite)>>,
   <<Assign("message", Opaque)>>,
   <<Set("k", "s"), Replace>>,
   <<Replace, Get("k", "id"), Require("message")>>}

MCSeeds == {[k \in {} |-> ""], "k" :> "s"}
MCIterations == 0..3

=============================================================================
