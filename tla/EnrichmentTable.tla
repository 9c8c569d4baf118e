--------------------------- MODULE EnrichmentTable ---------------------------
(* One enrichment table of vector-bindings/src/enrichment.rs and the lookups *)
(* a compiled VRL program makes on it.  A table never changes once loaded.   *)
(* A condition maps field names to values; BTreeMap hands its fields out in  *)
(* one order, so a set of fields stands for the Vec of them.  A row is named *)
(* by its number, in a file, or its address, in a geoip database.            *)
EXTENDS Integers, Sequences, FiniteSets

CONSTANTS
  Fields,     \* column names, and field names a condition may use
  Texts,      \* cells, and condition values rendered as text
  Lower,      \* str::to_lowercase
  Addresses,  \* the texts that parse as an IP address
  NotScalar,  \* a condition value no cell can equal: an object, an array, ..
  NoIndex,    \* Option::None of the index a lookup was compiled with
  NoSelect    \* Option::None of its `select`

ASSUME TableAssumption ==
  /\ Lower \in [Texts -> Texts]
  /\ Addresses \subseteq Texts
  /\ NotScalar \notin Texts
  /\ \A fields \in SUBSET Fields : \A keys \in SUBSET [fields -> Texts] :
       NoIndex \notin [keys -> SUBSET Nat]
  /\ \A fields \in SUBSET Fields : NoSelect # fields

(* FileTable::load: the first record names the columns, a later one that is  *)
(* longer or shorter fails the load, so that every row has every column.     *)
LoadedFile(table) ==
  /\ table.kind = "file"
  /\ table.columns \subseteq Fields
  /\ table.rows \in Seq([table.columns -> Texts])

(* GeoipTable: the records of the addresses the database knows; two records  *)
(* need not have the same fields.  Of the addresses in `broken` the lookup   *)
(* or its decoding fails, an integer of the record has no form in VRL, or it *)
(* is no object.                                                             *)
OpenedGeoip(table) ==
  /\ table.kind = "geoip"
  /\ DOMAIN table.rows \subseteq Addresses \ table.broken
  /\ \A address \in DOMAIN table.rows : DOMAIN table.rows[address] \subseteq Fields

Loaded(table) == LoadedFile(table) \/ OpenedGeoip(table)

-----------------------------------------------------------------------------
(* The rows a lookup copies out, and the fields of each; NoSelect is all.    *)
Copied(rows, select) == [error |-> "none", rows |-> rows, fields |-> select]
Found(rows)          == Copied(rows, NoSelect)
Failed(why)          == [error |-> why, rows |-> {}, fields |-> NoSelect]

(* comparable_text and comparable_key; only NotScalar has no text.           *)
Comparable(text, caseSensitive) ==
  IF caseSensitive THEN text ELSE Lower[text]

KeyOf(cells, fields, caseSensitive) ==
  [f \in fields |-> Comparable(cells[f], caseSensitive)]

(* The key a row index of a table is cached under. *)
KeyWithoutCase(caseSensitive, fields) == <<fields>>
IndexKey(caseSensitive, fields)       == <<caseSensitive, fields>>

(* Row numbers by key; a row without one of the fields is left out.          *)
RowIndex(table, caseSensitive, fields) ==
  LET indexed == {n \in DOMAIN table.rows : fields \subseteq DOMAIN table.rows[n]}
      key(n)  == KeyOf(table.rows[n], fields, caseSensitive)
  IN  [values \in {key(n) : n \in indexed} |-> {n \in indexed : key(n) = values}]

(* EnrichmentTable::index_for: a geoip table has no index, nor have fields   *)
(* that are not all columns.                                                 *)
IsFile(table, fields)   == table.kind = "file"
HasIndex(table, fields) == table.kind = "file" /\ fields \subseteq table.columns

(* Wanted::limit: a second row is enough to tell that a match is ambiguous.  *)
FirstRowOnly == [One |-> 1, All |-> -1]
Limit        == [One |-> 2, All |-> -1]

Take(rows, wanted) ==
  IF wanted = "All" THEN rows
  ELSE {n \in rows : Cardinality({m \in rows : m < n}) < Limit[wanted]}

(* apply_select on every row; one that lacks a selected field fails them all.*)
Select(table, rows, select) ==
  IF select # NoSelect /\ \E n \in rows : ~(select \subseteq DOMAIN table.rows[n])
  THEN Failed("unknown_select")
  ELSE Copied(rows, select)

FindInFile(table, index, condition, caseSensitive, select, wanted) ==
  LET fields == DOMAIN condition
      key    == KeyOf(condition, fields, caseSensitive)
  IN  IF index = NoIndex
      THEN IF table.rows # <<>> THEN Failed("unknown_field") ELSE Found({})
      ELSE IF \E f \in fields : condition[f] = NotScalar
      THEN Failed("not_scalar")
      ELSE IF key \in DOMAIN index
      THEN Select(table, Take(index[key], wanted), select)
      ELSE Found({})

(* A geoip lookup takes one condition, whose value is the IP address. *)
FindInGeoip(table, condition, select) ==
  LET addresses == {condition[f] : f \in DOMAIN condition}
  IN  IF Cardinality(DOMAIN condition) # 1 THEN Failed("one_condition")
      ELSE IF addresses = {NotScalar} THEN Failed("not_scalar")
      ELSE IF ~(addresses \subseteq Addresses) THEN Failed("not_an_address")
      ELSE IF addresses \subseteq table.broken THEN Failed("unreadable")
      ELSE Select(table, addresses \intersect DOMAIN table.rows, select)

FindRows(table, index, condition, caseSensitive, select, wanted) ==
  IF table.kind = "file"
  THEN FindInFile(table, index, condition, caseSensitive, select, wanted)
  ELSE FindInGeoip(table, condition, select)

(* The two VRL functions. *)
FindRecords(table, index, condition, caseSensitive, select) ==
  FindRows(table, index, condition, caseSensitive, select, "All")

GetRecord(table, index, condition, caseSensitive, select) ==
  LET found == FindRows(table, index, condition, caseSensitive, select, "One")
  IN  IF found.error # "none" THEN found
      ELSE IF Cardinality(found.rows) > 1 THEN Failed("several_rows")
      ELSE IF found.rows = {} THEN Failed("no_row")
      ELSE found

-----------------------------------------------------------------------------
(* What a lookup means, with no index: scan the rows for those whose every   *)
(* condition field equals the condition's value.                             *)
Matches(row, condition, caseSensitive) ==
  \A f \in DOMAIN condition :
    Comparable(row[f], caseSensitive) = Comparable(condition[f], caseSensitive)

Scan(table, condition, caseSensitive) ==
  {n \in DOMAIN table.rows : Matches(table.rows[n], condition, caseSensitive)}

Scannable(table, condition) ==
  /\ table.kind = "file"
  /\ DOMAIN condition \subseteq table.columns
  /\ \A f \in DOMAIN condition : condition[f] # NotScalar

(* A lookup that can be scanned for gives the scan's rows ..                *)
FindIsScan(table, index, condition, caseSensitive) ==
  Scannable(table, condition) =>
    FindRecords(table, index, condition, caseSensitive, NoSelect)
      = Found(Scan(table, condition, caseSensitive))

(* .. and if the scan has none or several, the single-row function says so.  *)
GetIsScan(table, index, condition, caseSensitive) ==
  Scannable(table, condition) =>
    GetRecord(table, index, condition, caseSensitive, NoSelect) =
      LET rows == Scan(table, condition, caseSensitive)
      IN  IF rows = {} THEN Failed("no_row")
          ELSE IF \E m, n \in rows : m # n THEN Failed("several_rows")
          ELSE Found(rows)

(* A lookup on a field the table has no column for is an error, whatever the *)
(* values, unless the table is empty.                                        *)
UnknownFieldFails(table, index, condition, caseSensitive) ==
  (table.kind = "file" /\ ~(DOMAIN condition \subseteq table.columns)) =>
    \A wanted \in {"One", "All"} :
      FindRows(table, index, condition, caseSensitive, NoSelect, wanted).error
        = IF table.rows = <<>> THEN "none" ELSE "unknown_field"
=============================================================================
