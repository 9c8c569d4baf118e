------------------------ MODULE MCEnrichmentRegistry ------------------------
(* Two threads that share a registry of one name.  The files differ in       *)
(* columns and rows and have cells that differ only by case, so that a stale *)
(* index, or one built for the other case setting, answers differently.      *)
EXTENDS EnrichmentRegistry

MCTexts == {"a", "A", "b"}
MCLower == [text \in MCTexts |-> IF text = "A" THEN "a" ELSE text]

Csv(columns, rows) == [kind |-> "file", columns |-> columns, rows |-> rows]
Pair(x, y)         == [id |-> x, team |-> y]

MCGeoip ==
  {[kind |-> "geoip", columns |-> {}, broken |-> {"b"},
    rows |-> [address \in {"a"} |-> [id |-> "b"]]]}

MCFiles ==
  {Csv({"id", "team"}, <<Pair("a", "b"), Pair("A", "b"), Pair("a", "b")>>),
   Csv({"id"}, <<>>),
   Csv({"team"}, <<[team |-> "a"], [team |-> "A"]>>)} \union MCGeoip

On(fields, caseSensitive) ==
  [name |-> "users", fields |-> fields, caseSensitive |-> caseSensitive]

MCPrograms ==
  {<<On({"id"}, FALSE), On({"id"}, TRUE)>>, <<On({"id", "team"}, TRUE)>>}

MCOneFile == {Csv({"id"}, <<[id |-> "a"]>>)}
MCTwice   == {<<On({"id"}, FALSE), On({"id"}, FALSE)>>}
=============================================================================
