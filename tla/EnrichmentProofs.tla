-------------------------- MODULE EnrichmentProofs --------------------------
(* What holds of the enrichment registry for any threads, tables, programs   *)
(* and texts: every index a compiled lookup has captured is the index of the *)
(* table it captured, and a lookup with that index is a scan of the table.   *)
EXTENDS EnrichmentRegistry, FiniteSetTheorems, TLAPS

USE RegistryAssumption

(* The index a lookup of a table ought to have.                              *)
IndexFor(table, lookup) ==
  IF HasIndex(table, lookup.fields)
  THEN RowIndex(table, lookup.caseSensitive, lookup.fields)
  ELSE NoIndex

-----------------------------------------------------------------------------
(* Two rows have one key exactly if they agree, as the lookup compares them, *)
(* on every field.                                                           *)
LEMMA SameKey ==
  ASSUME NEW fields, NEW row, NEW condition, NEW cs,
         DOMAIN condition = fields
  PROVE  KeyOf(row, fields, cs) = KeyOf(condition, fields, cs)
           <=> Matches(row, condition, cs)
<1>1. ASSUME Matches(row, condition, cs)
      PROVE  KeyOf(row, fields, cs) = KeyOf(condition, fields, cs)
  BY <1>1 DEF Matches, KeyOf
<1>2. ASSUME KeyOf(row, fields, cs) = KeyOf(condition, fields, cs)
      PROVE  Matches(row, condition, cs)
  <2> SUFFICES ASSUME NEW f \in fields
               PROVE  Comparable(row[f], cs) = Comparable(condition[f], cs)
    BY DEF Matches
  <2>1. KeyOf(row, fields, cs)[f] = KeyOf(condition, fields, cs)[f]
    BY <1>2
  <2> QED
    BY <2>1 DEF KeyOf
<1> QED
  BY <1>1, <1>2

(* The rows an index has under a condition's key are those a scan finds.     *)
LEMMA IndexIsScan ==
  ASSUME NEW table, LoadedFile(table),
         NEW fields \in SUBSET Fields, fields \subseteq table.columns,
         NEW condition, DOMAIN condition = fields, NEW cs,
         NEW index, index = RowIndex(table, cs, fields),
         NEW key, key = KeyOf(condition, fields, cs)
  PROVE  Scan(table, condition, cs)
           = IF key \in DOMAIN index THEN index[key] ELSE {}
<1> DEFINE of(n) == KeyOf(table.rows[n], fields, cs)
<1>1. \A n \in DOMAIN table.rows : fields \subseteq DOMAIN table.rows[n]
  BY DEF LoadedFile
<1>2. index = [values \in {of(n) : n \in DOMAIN table.rows} |->
                 {n \in DOMAIN table.rows : of(n) = values}]
  <2>1. {n \in DOMAIN table.rows : fields \subseteq DOMAIN table.rows[n]}
          = DOMAIN table.rows
    BY <1>1
  <2> QED
    BY <2>1 DEF RowIndex
<1>3. Scan(table, condition, cs) = {n \in DOMAIN table.rows : of(n) = key}
  BY SameKey DEF Scan
<1> HIDE DEF of
<1>4. CASE key \in DOMAIN index
  BY <1>2, <1>3, <1>4
<1>5. CASE key \notin DOMAIN index
  BY <1>2, <1>3, <1>5
<1> QED
  BY <1>4, <1>5

(* An index is never mistaken for "no index".                                *)
LEMMA IndexExists ==
  ASSUME NEW table, LoadedFile(table),
         NEW fields \in SUBSET Fields, fields \subseteq table.columns,
         NEW cs \in BOOLEAN
  PROVE  RowIndex(table, cs, fields) # NoIndex
<1> DEFINE indexed == {n \in DOMAIN table.rows : fields \subseteq DOMAIN table.rows[n]}
           of(n)   == KeyOf(table.rows[n], fields, cs)
           keys    == {of(n) : n \in indexed}
<1>1. \A n \in indexed : of(n) \in [fields -> Texts]
  <2> SUFFICES ASSUME NEW n \in indexed PROVE of(n) \in [fields -> Texts]
    OBVIOUS
  <2>1. \A f \in fields : table.rows[n][f] \in Texts
    BY DEF LoadedFile
  <2>2. \A f \in fields : Comparable(table.rows[n][f], cs) \in Texts
    BY <2>1, TableAssumption DEF Comparable
  <2> QED
    BY <2>2 DEF KeyOf
<1>2. keys \in SUBSET [fields -> Texts]
  BY <1>1
<1>3. indexed \subseteq Nat
  BY DEF LoadedFile
<1>4. RowIndex(table, cs, fields) = [k \in keys |-> {n \in indexed : of(n) = k}]
  BY DEF RowIndex
<1> HIDE DEF of, keys, indexed
<1>5. RowIndex(table, cs, fields) \in [keys -> SUBSET Nat]
  BY <1>3, <1>4
<1> QED
  BY <1>2, <1>5, TableAssumption

(* A lookup that can be scanned for has an index, and under the condition's  *)
(* key it has the rows of the scan.                                          *)
LEMMA IndexedRows ==
  ASSUME NEW table, Loaded(table), NEW lookup \in Lookups,
         NEW condition \in Conditions(lookup.fields),
         Scannable(table, condition),
         NEW index, index = IndexFor(table, lookup),
         NEW key, key = KeyOf(condition, lookup.fields, lookup.caseSensitive)
  PROVE  /\ table.kind = "file" /\ LoadedFile(table) /\ index # NoIndex
         /\ DOMAIN condition = lookup.fields
         /\ \A f \in lookup.fields : condition[f] # NotScalar
         /\ Scan(table, condition, lookup.caseSensitive)
              = IF key \in DOMAIN index THEN index[key] ELSE {}
<1> DEFINE cs     == lookup.caseSensitive
           fields == lookup.fields
<1>1. /\ cs \in BOOLEAN /\ fields \in SUBSET Fields
      /\ DOMAIN condition = fields
  BY DEF Lookups, Conditions
<1>2. /\ table.kind = "file" /\ fields \subseteq table.columns /\ LoadedFile(table)
      /\ \A f \in fields : condition[f] # NotScalar
  BY <1>1 DEF Scannable, Loaded, OpenedGeoip
<1>3. index = RowIndex(table, cs, fields) /\ RowIndex(table, cs, fields) # NoIndex
  <2>1. RowIndex(table, cs, fields) # NoIndex
    BY <1>1, <1>2, IndexExists
  <2>2. HasIndex(table, fields)
    BY <1>2 DEF HasIndex
  <2> QED
    BY <2>1, <2>2 DEF IndexFor
<1>4. Scan(table, condition, cs) = IF key \in DOMAIN index THEN index[key] ELSE {}
  <2>1. index = RowIndex(table, cs, fields) /\ key = KeyOf(condition, fields, cs)
    BY <1>3
  <2> HIDE DEF cs, fields
  <2> QED
    BY <1>1, <1>2, <2>1, IndexIsScan
<1> QED
  BY <1>1, <1>2, <1>3, <1>4

(* With its index, find_enrichment_table_records is a scan of the table, for *)
(* every table and every condition a row can satisfy.                        *)
THEOREM IndexedFindIsScan ==
  ASSUME NEW table, Loaded(table), NEW lookup \in Lookups,
         NEW condition \in Conditions(lookup.fields)
  PROVE  FindIsScan(table, IndexFor(table, lookup), condition,
                    lookup.caseSensitive)
<1> DEFINE cs    == lookup.caseSensitive
           index == IndexFor(table, lookup)
           key   == KeyOf(condition, lookup.fields, cs)
           rows  == Scan(table, condition, cs)
<1> SUFFICES ASSUME Scannable(table, condition)
             PROVE  FindRecords(table, index, condition, cs, NoSelect) = Found(rows)
  BY DEF FindIsScan
<1>1. /\ table.kind = "file" /\ index # NoIndex
      /\ DOMAIN condition = lookup.fields
      /\ \A f \in lookup.fields : condition[f] # NotScalar
      /\ rows = IF key \in DOMAIN index THEN index[key] ELSE {}
  BY IndexedRows
<1>2. FindRecords(table, index, condition, cs, NoSelect)
        = IF key \in DOMAIN index
          THEN Select(table, Take(index[key], "All"), NoSelect)
          ELSE Found({})
  BY <1>1 DEF FindRecords, FindRows, FindInFile
<1> HIDE DEF index, key, rows
<1>3. Select(table, Take(index[key], "All"), NoSelect) = Found(index[key])
  BY DEF Select, Take, Found
<1> QED
  BY <1>1, <1>2, <1>3

(* A set of row numbers has a least one: sets of smaller rows are ordered by *)
(* inclusion as their rows are, and inclusion is well-founded.               *)
LEMMA LeastRow ==
  ASSUME NEW rows \in SUBSET Nat, IsFiniteSet(rows), rows # {}
  PROVE  \E a \in rows : \A n \in rows : a <= n
<1> DEFINE Less(n) == {m \in rows : m < n}
           family  == {Less(n) : n \in rows}
<1>1. family \subseteq FiniteSubsetsOf(rows)
  <2> SUFFICES ASSUME NEW n \in rows PROVE IsFiniteSet(Less(n))
    BY DEF FiniteSubsetsOf
  <2> QED
    BY FS_Subset
<1>2. PICK least \in family :
        \A other \in family : <<other, least>> \notin StrictSubsetOrdering(rows)
  <2>1. family # {}
    OBVIOUS
  <2> HIDE DEF family
  <2> QED
    BY <1>1, <2>1, FS_StrictSubsetOrderingWellFounded, WFMin
<1>3. PICK a \in rows : least = Less(a)
  OBVIOUS
<1>4. ASSUME NEW n \in rows, n < a PROVE FALSE
  <2>1. a \in Nat /\ n \in Nat /\ \A m \in rows : m \in Nat
    OBVIOUS
  <2>2. Less(n) \subseteq Less(a)
    <3> SUFFICES ASSUME NEW m \in rows, m < n PROVE m < a
      OBVIOUS
    <3> QED
      BY <1>4, <2>1
  <2>3. n \in Less(a) /\ n \notin Less(n)
    BY <1>4, <2>1
  <2>4. <<Less(n), Less(a)>> \in StrictSubsetOrdering(rows)
    BY <2>2, <2>3 DEF StrictSubsetOrdering
  <2> QED
    BY <1>2, <1>3, <2>4
<1> QED
  BY <1>4

(* The limit of two keeps no row, the only row, or two of several.           *)
LEMMA TakeOne ==
  ASSUME NEW rows \in SUBSET Nat, IsFiniteSet(rows)
  PROVE  /\ Take(rows, "One") \subseteq rows
         /\ IsFiniteSet(Take(rows, "One"))
         /\ (\E m, n \in rows : m # n) <=> Cardinality(Take(rows, "One")) > 1
         /\ ~(\E m, n \in rows : m # n) => Take(rows, "One") = rows
<1> DEFINE Less(n) == {m \in rows : m < n}
           taken   == Take(rows, "One")
<1>1. taken = {n \in rows : Cardinality(Less(n)) < 2}
  BY DEF Take, Limit
<1>2. taken \subseteq rows /\ IsFiniteSet(taken)
  BY <1>1, FS_Subset
<1> HIDE DEF taken
<1>3. ASSUME NEW m \in rows, NEW n \in rows, m # n
      PROVE  Cardinality(taken) > 1
  <2>1. PICK a \in rows : \A k \in rows : a <= k
    BY LeastRow
  <2>2. IsFiniteSet(rows \ {a}) /\ rows \ {a} # {} /\ rows \ {a} \in SUBSET Nat
    BY <1>3, FS_RemoveElement
  <2>3. PICK b \in rows \ {a} : \A k \in rows \ {a} : b <= k
    BY <2>2, LeastRow
  <2>0. \A k \in rows : k \in Nat
    OBVIOUS
  <2>4. Less(a) = {}
    <3> SUFFICES ASSUME NEW k \in rows, k < a PROVE FALSE
      OBVIOUS
    <3> QED
      BY <2>0, <2>1
  <2>5. Less(b) = {a}
    <3>1. a < b
      BY <2>0, <2>1, <2>3
    <3>2. \A k \in rows : k < b => k = a
      BY <2>0, <2>3
    <3> QED
      BY <3>1, <3>2
  <2>6. Cardinality(Less(a)) = 0 /\ Cardinality(Less(b)) = 1
    BY <2>4, <2>5, FS_EmptySet, FS_Singleton
  <2>7. {a, b} \in SUBSET taken
    BY <1>1, <2>3, <2>6
  <2>8. Cardinality({a, b}) = 2
    <3>1. IsFiniteSet({a}) /\ Cardinality({a}) = 1 /\ b \notin {a}
      BY <2>3, FS_Singleton
    <3>2. Cardinality({a} \cup {b}) = Cardinality({a}) + 1
      BY <3>1, FS_AddElement
    <3>3. {a} \cup {b} = {a, b}
      OBVIOUS
    <3>4. Cardinality({a, b}) = Cardinality({a}) + 1
      BY <3>2, <3>3, Zenon
    <3> QED
      BY <3>1, <3>4
  <2>9. Cardinality({a, b}) <= Cardinality(taken) /\ Cardinality(taken) \in Nat
    BY <1>2, <2>7, FS_Subset, FS_CardinalityType
  <2> QED
    BY <2>8, <2>9
<1>4. ASSUME ~(\E m, n \in rows : m # n)
      PROVE  taken = rows /\ Cardinality(taken) <= 1
  <2>1. CASE rows = {}
    <3>1. taken = {}
      BY <1>2, <2>1
    <3>2. Cardinality(taken) = 0
      BY <3>1, FS_EmptySet
    <3> QED
      BY <2>1, <3>1, <3>2
  <2>2. ASSUME NEW a \in rows PROVE taken = rows /\ Cardinality(taken) <= 1
    <3>1. rows = {a}
      BY <1>4
    <3>2. Less(a) = {}
      <4> SUFFICES ASSUME NEW k \in rows, k < a PROVE FALSE
        OBVIOUS
      <4>1. k = a /\ a \in Nat
        BY <3>1
      <4> QED
        BY <4>1
    <3>3. Cardinality(Less(a)) = 0
      BY <3>2, FS_EmptySet
    <3>4. Cardinality(rows) = 1
      BY <3>1, FS_Singleton
    <3>5. a \in taken
      BY <1>1, <3>3
    <3>6. taken = rows
      BY <1>2, <3>1, <3>5
    <3> QED
      BY <3>4, <3>6
  <2> QED
    BY <2>1, <2>2
<1>5. Cardinality(taken) \in Nat
  BY <1>2, FS_CardinalityType
<1> QED
  BY <1>2, <1>3, <1>4, <1>5 DEF taken

(* With its index, get_enrichment_table_record gives the one row of a scan,  *)
(* and tells no row from one and one from several, for every table.          *)
THEOREM IndexedGetIsScan ==
  ASSUME NEW table, Loaded(table), NEW lookup \in Lookups,
         NEW condition \in Conditions(lookup.fields)
  PROVE  GetIsScan(table, IndexFor(table, lookup), condition,
                   lookup.caseSensitive)
<1> DEFINE cs    == lookup.caseSensitive
           index == IndexFor(table, lookup)
           key   == KeyOf(condition, lookup.fields, cs)
           rows  == Scan(table, condition, cs)
           found == FindRows(table, index, condition, cs, NoSelect, "One")
<1> SUFFICES ASSUME Scannable(table, condition)
             PROVE  GetRecord(table, index, condition, cs, NoSelect) =
                      IF rows = {} THEN Failed("no_row")
                      ELSE IF \E m, n \in rows : m # n THEN Failed("several_rows")
                      ELSE Found(rows)
  BY DEF GetIsScan
<1>1. /\ table.kind = "file" /\ LoadedFile(table) /\ index # NoIndex
      /\ DOMAIN condition = lookup.fields
      /\ \A f \in lookup.fields : condition[f] # NotScalar
      /\ rows = IF key \in DOMAIN index THEN index[key] ELSE {}
  BY IndexedRows
<1>2. rows \in SUBSET Nat /\ IsFiniteSet(rows)
  <2>1. DOMAIN table.rows = 1..Len(table.rows) /\ Len(table.rows) \in Nat
    BY <1>1 DEF LoadedFile
  <2>2. IsFiniteSet(DOMAIN table.rows)
    BY <2>1, FS_Interval
  <2> QED
    BY <2>1, <2>2, FS_Subset DEF Scan
<1>3. found = Found(Take(rows, "One"))
  <2>1. found = IF key \in DOMAIN index
                THEN Select(table, Take(index[key], "One"), NoSelect)
                ELSE Found({})
    BY <1>1 DEF FindRows, FindInFile
  <2> HIDE DEF index, key, rows, found
  <2>2. Take({}, "One") = {}
    BY DEF Take
  <2>3. \A some : Select(table, some, NoSelect) = Found(some)
    BY DEF Select, Found
  <2> QED
    BY <1>1, <2>1, <2>2, <2>3
<1> HIDE DEF rows, index
<1>4. GetRecord(table, index, condition, cs, NoSelect)
        = IF Cardinality(Take(rows, "One")) > 1 THEN Failed("several_rows")
          ELSE IF Take(rows, "One") = {} THEN Failed("no_row")
          ELSE Found(Take(rows, "One"))
  <2>1. /\ Found(Take(rows, "One")).error = "none"
        /\ Found(Take(rows, "One")).rows = Take(rows, "One")
    BY DEF Found, Copied
  <2> QED
    BY <1>3, <2>1 DEF GetRecord
<1>5. (\E m, n \in rows : m # n) => rows # {}
  OBVIOUS
<1> QED
  BY <1>2, <1>4, <1>5, TakeOne

(* A lookup on a field the table has no column for has no index, and fails   *)
(* when it is run unless the table is empty.                                 *)
THEOREM IndexedUnknownFieldFails ==
  ASSUME NEW table, NEW lookup \in Lookups,
         NEW condition \in Conditions(lookup.fields)
  PROVE  UnknownFieldFails(table, IndexFor(table, lookup), condition,
                           lookup.caseSensitive)
<1>1. DOMAIN condition = lookup.fields
  BY DEF Lookups, Conditions
<1>2. CASE table.kind = "file" /\ ~(lookup.fields \subseteq table.columns)
  <2>1. IndexFor(table, lookup) = NoIndex
    BY <1>2 DEF IndexFor, HasIndex
  <2>2. ASSUME NEW wanted \in {"One", "All"}
        PROVE  FindRows(table, NoIndex, condition, lookup.caseSensitive, NoSelect, wanted)
                 = IF table.rows # <<>> THEN Failed("unknown_field") ELSE Found({})
    BY <1>2 DEF FindRows, FindInFile
  <2> QED
    BY <2>1, <2>2 DEF UnknownFieldFails, Failed, Found, Copied
<1> QED
  BY <1>1, <1>2 DEF UnknownFieldFails

-----------------------------------------------------------------------------
Indexes  == {RowIndex(table, cs, fields) :
               table \in Files, cs \in BOOLEAN, fields \in SUBSET Fields}
Keys     == BOOLEAN \X SUBSET Fields
Caches   == UNION {[keys -> Indexes] : keys \in SUBSET Keys}
Entries  == [table : Files, cache : Caches]
Captures == [lookup : Lookups, version : Nat, index : Indexes \union {NoIndex}]

HeapInv ==
  /\ heap \in Seq(Entries)
  /\ registry \in [Names -> 0..Len(heap)]
  /\ \A v \in 1..Len(heap) : \A key \in DOMAIN heap[v].cache :
       heap[v].cache[key] = RowIndex(heap[v].table, key[1], key[2])

ThreadInv ==
  /\ gil \in Threads \union {NoThread}
  /\ reading \subseteq Threads
  /\ pc \in [Threads -> GuardStates \union OtherStates]
  /\ fresh \in [Threads -> [name  : Names \union {NoTable.name},
                           table : Files \union {NoTable.table}]]
  /\ program \in [Threads -> Seq(Lookups)]
  /\ captured \in [Threads -> Seq(Captures)]
  /\ writes \in 0..MaxWrites

(* Where a thread stands: a load has its name and table before it writes,    *)
(* nothing is captured outside a compile, the read guard is held from the    *)
(* lookup to its index, and the name stays bound in between.                 *)
PlaceInv(t) ==
  /\ pc[t] \in {"load", "want_write"} => fresh[t].name \in Names
  /\ pc[t] = "want_write" => fresh[t].table \in Files
  /\ Len(captured[t]) <= Len(program[t])
  /\ pc[t] \notin GuardStates \union {"compile", "run"} => captured[t] = <<>>
  /\ pc[t] \in GuardStates => t \in reading /\ Len(captured[t]) < Len(program[t])
  /\ pc[t] \in {"index", "build"} => Version(t) # 0
  /\ pc[t] = "build" => HasIndex(heap[Version(t)].table, Lookup(t).fields)

CapturedInv(t) ==
  \A i \in 1..Len(captured[t]) :
    LET c == captured[t][i]
    IN  c.version # 0 => /\ c.version \in 1..Len(heap)
                         /\ c.index = IndexFor(heap[c.version].table, c.lookup)

IInv ==
  /\ HeapInv /\ ThreadInv
  /\ \A t \in Threads : PlaceInv(t) /\ CapturedInv(t)

(* Tables are only ever added: a number keeps its table.                     *)
HeapGrows ==
  /\ Len(heap') >= Len(heap)
  /\ \A v \in 1..Len(heap) : heap'[v].table = heap[v].table

-----------------------------------------------------------------------------
(* What a captured lookup says stays true while tables are only added.       *)
LEMMA CapturedStays ==
  ASSUME IInv, HeapGrows, NEW t \in Threads,
         captured'[t] = captured[t] \/ captured'[t] = <<>>
  PROVE  CapturedInv(t)'
<1>1. CASE captured'[t] = captured[t]
  <2> SUFFICES ASSUME NEW i \in 1..Len(captured[t]), captured[t][i].version # 0
               PROVE  /\ captured[t][i].version \in 1..Len(heap')
                      /\ captured[t][i].index
                           = IndexFor(heap'[captured[t][i].version].table,
                                      captured[t][i].lookup)
    BY <1>1 DEF CapturedInv
  <2>1. /\ captured[t][i].version \in 1..Len(heap)
        /\ captured[t][i].index
             = IndexFor(heap[captured[t][i].version].table, captured[t][i].lookup)
    BY DEF IInv, CapturedInv
  <2>2. heap'[captured[t][i].version].table = heap[captured[t][i].version].table
    BY <2>1 DEF HeapGrows
  <2>3. captured[t][i].version \in 1..Len(heap')
    <3>1. Len(heap) \in Nat
      BY DEF IInv, HeapInv
    <3> QED
      BY <2>1, <3>1 DEF HeapGrows
  <2> QED
    BY <2>1, <2>2, <2>3
<1>2. CASE captured'[t] = <<>>
  BY <1>2 DEF CapturedInv
<1> QED
  BY <1>1, <1>2

(* A step of another thread that leaves the heap and the registry alone does *)
(* not move a thread from its place.                                         *)
LEMMA PlaceStays ==
  ASSUME IInv, NEW t \in Threads, UNCHANGED shared,
         t \in reading => t \in reading',
         pc'[t] = pc[t], fresh'[t] = fresh[t], program'[t] = program[t],
         captured'[t] = captured[t]
  PROVE  PlaceInv(t)'
BY DEF IInv, PlaceInv, Version, Lookup, shared

(* The registry starts empty and unlocked, with no thread in a call.         *)
LEMMA InvInit == Init => IInv
<1> SUFFICES ASSUME Init PROVE IInv
  OBVIOUS
<1>1. HeapInv
  <2>1. heap = <<>> /\ <<>> \in Seq(Entries) /\ Len(<<>>) = 0
    BY DEF Init
  <2> QED
    BY <2>1 DEF Init, HeapInv
<1>2. ThreadInv
  <2> DEFINE nothing == <<>>
  <2>1. nothing \in Seq(Lookups) /\ nothing \in Seq(Captures)
    OBVIOUS
  <2>2. program = [t \in Threads |-> nothing] /\ captured = [t \in Threads |-> nothing]
    BY DEF Init
  <2> HIDE DEF nothing
  <2>3. fresh \in [Threads -> [name  : Names \union {NoTable.name},
                              table : Files \union {NoTable.table}]]
    BY DEF Init, NoTable
  <2> QED
    BY <2>1, <2>2, <2>3 DEF Init, ThreadInv, OtherStates
<1>3. ASSUME NEW t \in Threads PROVE PlaceInv(t) /\ CapturedInv(t)
  <2>1. pc[t] = "python" /\ captured[t] = <<>> /\ program[t] = <<>>
        /\ Len(captured[t]) = 0 /\ Len(program[t]) = 0
    BY DEF Init
  <2> QED
    BY <2>1 DEF PlaceInv, CapturedInv, GuardStates
<1> QED
  BY <1>1, <1>2, <1>3 DEF IInv

-----------------------------------------------------------------------------
(* A step of t that leaves heap and registry alone, moves only t and leaves  *)
(* the others' guards alone needs to be looked at only where t stands.       *)
LEMMA InvQuiet ==
  ASSUME IInv, NEW t \in Threads, UNCHANGED shared, ThreadInv', PlaceInv(t)',
         captured'[t] = captured[t] \/ captured'[t] = <<>>,
         \A u \in Threads \ {t} :
           /\ u \in reading => u \in reading'
           /\ pc'[u] = pc[u] /\ fresh'[u] = fresh[u]
           /\ program'[u] = program[u] /\ captured'[u] = captured[u]
  PROVE  IInv'
<1>1. HeapInv'
  BY DEF IInv, HeapInv, shared
<1>2. HeapGrows
  <2>1. Len(heap) \in Nat
    BY DEF IInv, HeapInv
  <2> QED
    BY <2>1 DEF HeapGrows, shared
<1>3. ASSUME NEW u \in Threads PROVE PlaceInv(u)' /\ CapturedInv(u)'
  <2>1. CapturedInv(u)'
    BY <1>2, CapturedStays
  <2>2. PlaceInv(u)'
    BY PlaceStays
  <2> QED
    BY <2>1, <2>2
<1> QED
  BY <1>1, <1>3 DEF IInv

(* Assigning one field of the register locals leaves the other alone.        *)
LEMMA FreshFields ==
  ASSUME ThreadInv, NEW t \in Threads, NEW new
  PROVE  /\ [fresh EXCEPT ![t].name = new]
              = [fresh EXCEPT ![t] = [name |-> new, table |-> fresh[t].table]]
         /\ [fresh EXCEPT ![t].table = new]
              = [fresh EXCEPT ![t] = [name |-> fresh[t].name, table |-> new]]
<1>1. fresh[t] \in [name  : Names \union {NoTable.name},
                   table : Files \union {NoTable.table}]
  BY DEF ThreadInv
<1>2. /\ [fresh[t] EXCEPT !.name = new] = [name |-> new, table |-> fresh[t].table]
      /\ [fresh[t] EXCEPT !.table = new] = [name |-> fresh[t].name, table |-> new]
  BY <1>1
<1> QED
  BY <1>2, Zenon

(* Calling: argument and place are those of a fresh call.                    *)
LEMMA InvCall ==
  ASSUME IInv, NEW t \in Threads, Call(t)
  PROVE  IInv'
<1>1. ASSUME NEW name \in Names, CallRegister(t, name)
      PROVE  IInv'
  <2>1. fresh' = [fresh EXCEPT ![t].name = name] /\ writes' \in 0..MaxWrites
    BY <1>1 DEF CallRegister, IInv, ThreadInv
  <2>0. fresh' = [fresh EXCEPT ![t] = [name |-> name, table |-> fresh[t].table]]
    BY <2>1, FreshFields DEF IInv
  <2>2. fresh'[t] = [name |-> name, table |-> fresh[t].table]
        /\ fresh' = [fresh EXCEPT ![t] = [name |-> name, table |-> fresh[t].table]]
    BY <2>0 DEF IInv, ThreadInv
  <2>3. ThreadInv'
    BY <1>1, <2>1, <2>2 DEF CallRegister, Moves, IInv, ThreadInv, OtherStates
  <2>4. PlaceInv(t)'
    BY <1>1, <2>2 DEF CallRegister, Moves, IInv, ThreadInv, PlaceInv, GuardStates
  <2> QED
    BY <1>1, <2>2, <2>3, <2>4, InvQuiet
       DEF CallRegister, Moves, IInv, ThreadInv
<1>2. CASE CallClear(t)
  <2>1. ThreadInv'
    BY <1>2 DEF CallClear, Moves, IInv, ThreadInv, OtherStates, locals
  <2>2. PlaceInv(t)'
    BY <1>2 DEF CallClear, Moves, IInv, ThreadInv, PlaceInv, GuardStates, locals
  <2> QED
    BY <1>2, <2>1, <2>2, InvQuiet DEF CallClear, Moves, IInv, ThreadInv, locals
<1>3. CASE CallList(t)
  <2>1. ThreadInv'
    BY <1>3 DEF CallList, Moves, IInv, ThreadInv, OtherStates, locals
  <2>2. PlaceInv(t)'
    BY <1>3 DEF CallList, Moves, IInv, ThreadInv, PlaceInv, GuardStates, locals
  <2> QED
    BY <1>3, <2>1, <2>2, InvQuiet DEF CallList, Moves, IInv, ThreadInv, locals
<1>4. ASSUME NEW p \in Programs, CallCompile(t, p)
      PROVE  IInv'
  <2>1. ThreadInv'
    BY <1>4 DEF CallCompile, Moves, IInv, ThreadInv, OtherStates
  <2>2. PlaceInv(t)'
    <3>1. captured'[t] = <<>> /\ program'[t] = p /\ pc'[t] = "compile"
      BY <1>4 DEF CallCompile, Moves, IInv, ThreadInv, PlaceInv, GuardStates
    <3>2. Len(captured'[t]) = 0 /\ Len(program'[t]) \in Nat
      BY <3>1
    <3> QED
      BY <3>1, <3>2 DEF PlaceInv, GuardStates
  <2> QED
    BY <1>4, <2>1, <2>2, InvQuiet DEF CallCompile, Moves, IInv, ThreadInv
<1> QED
  BY <1>1, <1>2, <1>3, <1>4 DEF Call

(* The program is given up or done with: nothing is left captured.           *)
LEMMA InvAbandon ==
  ASSUME IInv, NEW t \in Threads, CompileFails(t) \/ Finish(t)
  PROVE  IInv'
<1>1. PICK from \in {"compile", "run"} : Abandon(t, from)
  BY DEF CompileFails, Finish
<1>2. reading' = reading
  BY DEF CompileFails, Finish
<1> DEFINE nothing == <<>>
<1>3. nothing \in Seq(Lookups) /\ nothing \in Seq(Captures)
  OBVIOUS
<1>4. program' = [program EXCEPT ![t] = nothing]
      /\ captured' = [captured EXCEPT ![t] = nothing]
      /\ pc' = [pc EXCEPT ![t] = "attach"]
      /\ UNCHANGED <<gil, shared, fresh, writes>>
  BY <1>1 DEF Abandon, Moves
<1>5. Len(nothing) = 0
  OBVIOUS
<1> HIDE DEF nothing
<1>6. ThreadInv'
  BY <1>2, <1>3, <1>4 DEF IInv, ThreadInv, OtherStates
<1>7. PlaceInv(t)'
  BY <1>4, <1>5 DEF IInv, ThreadInv, PlaceInv, GuardStates
<1>8. captured'[t] = <<>>
  BY <1>4 DEF IInv, ThreadInv, nothing
<1> QED
  BY <1>2, <1>4, <1>6, <1>7, <1>8, InvQuiet DEF IInv, ThreadInv

(* The other steps that leave heap and registry alone.                       *)
LEMMA InvMove ==
  ASSUME IInv, NEW t \in Threads,
         Load(t) \/ List(t) \/ ReadLock(t) \/ Resolve(t) \/ MissIndex(t)
           \/ Run(t) \/ Attach(t)
  PROVE  IInv'
<1>1. CASE Load(t)
  <2>1. CASE \E file \in Files : fresh' = [fresh EXCEPT ![t].table = file]
    <3>1. PICK file \in Files : fresh' = [fresh EXCEPT ![t].table = file]
      BY <2>1
    <3>2. fresh' = [fresh EXCEPT ![t] = [name |-> fresh[t].name, table |-> file]]
      BY <3>1, FreshFields DEF IInv
    <3>3. ThreadInv'
      BY <1>1, <3>2 DEF Load, Moves, IInv, ThreadInv, OtherStates
    <3>4. PlaceInv(t)'
      BY <1>1, <3>2 DEF Load, Moves, IInv, ThreadInv, PlaceInv, GuardStates
    <3> QED
      BY <1>1, <3>2, <3>3, <3>4, InvQuiet DEF Load, Moves, IInv, ThreadInv
  <2>2. CASE UNCHANGED fresh /\ Moves(t, "load", "attach")
    <3>1. ThreadInv' /\ PlaceInv(t)'
      BY <1>1, <2>2 DEF Load, Moves, IInv, ThreadInv, PlaceInv, OtherStates,
                        GuardStates
    <3> QED
      BY <1>1, <2>2, <3>1, InvQuiet DEF Load, Moves, IInv, ThreadInv
  <2> QED
    BY <1>1, <2>1, <2>2 DEF Load
<1>2. CASE List(t) \/ Resolve(t) \/ MissIndex(t) \/ Run(t)
  <2>1. ThreadInv'
    BY <1>2 DEF List, Resolve, MissIndex, Run, Moves, IInv, ThreadInv,
                OtherStates, GuardStates, locals
  <2>2. PlaceInv(t)'
    <3>1. CASE List(t) \/ Run(t)
      <4>1. pc'[t] \in {"python", "run"} /\ UNCHANGED locals
            /\ (pc'[t] = "python" => pc[t] = "want_list")
        <5>1. CASE List(t)
          BY <5>1 DEF List, Moves, IInv, ThreadInv
        <5>2. CASE Run(t)
          BY <5>2 DEF Run, Moves, IInv, ThreadInv
        <5> QED
          BY <3>1, <5>1, <5>2
      <4>2. pc'[t] = "python" => captured[t] = <<>>
        BY <4>1 DEF IInv, PlaceInv, GuardStates
      <4> QED
        BY <4>1, <4>2 DEF IInv, PlaceInv, GuardStates, locals
    <3>2. CASE Resolve(t)
      BY <3>2 DEF Resolve, Moves, IInv, ThreadInv, PlaceInv, GuardStates,
                  locals, shared, Version, Lookup
    <3>3. CASE MissIndex(t)
      <4>1. HasIndex(heap[Version(t)].table, Lookup(t).fields)'
        BY <3>3, Zenon DEF MissIndex, locals, shared, Version, Lookup
      <4> QED
        BY <3>3, <4>1 DEF MissIndex, Moves, IInv, ThreadInv, PlaceInv,
                          GuardStates, locals, shared, Version, Lookup
    <3> QED
      BY <1>2, <3>1, <3>2, <3>3
  <2> QED
    BY <1>2, <2>1, <2>2, InvQuiet
       DEF List, Resolve, MissIndex, Run, Moves, IInv, ThreadInv, locals
<1>3. CASE ReadLock(t)
  <2>1. ThreadInv'
    BY <1>3 DEF ReadLock, Moves, IInv, ThreadInv, GuardStates, locals
  <2>2. Len(captured[t]) < Len(program[t])
    BY <1>3 DEF ReadLock, Compiled, IInv, PlaceInv, ThreadInv
  <2>3. PlaceInv(t)'
    BY <1>3, <2>2 DEF ReadLock, Moves, IInv, ThreadInv, PlaceInv, GuardStates,
                      locals, shared
  <2> QED
    BY <1>3, <2>1, <2>3, InvQuiet DEF ReadLock, Moves, IInv, ThreadInv, locals
<1>4. CASE Attach(t)
  <2>0. NoTable \in [name  : Names \union {NoTable.name},
                    table : Files \union {NoTable.table}]
    BY DEF NoTable
  <2>1. ThreadInv'
    <3>1. pc' \in [Threads -> GuardStates \union OtherStates]
      BY <1>4 DEF Attach, Moves, IInv, ThreadInv, OtherStates
    <3>2. fresh' \in [Threads -> [name  : Names \union {NoTable.name},
                                 table : Files \union {NoTable.table}]]
      BY <1>4, <2>0 DEF Attach, IInv, ThreadInv
    <3> QED
      BY <1>4, <3>1, <3>2 DEF Attach, IInv, ThreadInv
  <2>2. PlaceInv(t)'
    BY <1>4 DEF Attach, Moves, IInv, ThreadInv, PlaceInv, GuardStates
  <2> QED
    BY <1>4, <2>1, <2>2, InvQuiet DEF Attach, Moves, IInv, ThreadInv
<1> QED
  BY <1>1, <1>2, <1>3, <1>4

-----------------------------------------------------------------------------
(* A writer finds no lookup being compiled, so it moves no name from under   *)
(* one.                                                                      *)
LEMMA NobodyCompiles ==
  ASSUME IInv, reading = {}
  PROVE  \A t \in Threads : pc[t] \notin GuardStates
BY DEF IInv, PlaceInv

(* A registration adds a table with an empty cache.                          *)
LEMMA InvInsert ==
  ASSUME IInv, NEW t \in Threads, Insert(t)
  PROVE  IInv'
<1> DEFINE entry == [table |-> fresh[t].table, cache |-> EmptyCache]
<1>1. /\ pc[t] = "want_write" /\ fresh[t].table \in Files /\ fresh[t].name \in Names
      /\ heap' = Append(heap, entry)
      /\ registry' = [registry EXCEPT ![fresh[t].name] = Len(heap) + 1]
      /\ reading = {} /\ reading' = {}
      /\ pc' = [pc EXCEPT ![t] = "attach"]
      /\ UNCHANGED <<gil, locals, writes>>
  BY DEF Insert, MayWrite, Moves, Rebinds, CacheOfNew, IInv, PlaceInv
<1>2. entry \in Entries
  <2>1. EmptyCache \in [{} -> Indexes]
    BY DEF EmptyCache
  <2>2. EmptyCache \in Caches
    BY <2>1 DEF Caches
  <2> QED
    BY <1>1, <2>2 DEF Entries
<1>3. heap \in Seq(Entries) /\ Len(heap) \in Nat
  BY DEF IInv, HeapInv
<1>4. DOMAIN entry.cache = {}
  BY DEF EmptyCache
<1> HIDE DEF entry
<1>5. /\ heap' \in Seq(Entries) /\ Len(heap') = Len(heap) + 1
      /\ \A v \in 1..Len(heap) : heap'[v] = heap[v]
      /\ heap'[Len(heap) + 1] = entry
  BY <1>1, <1>2, <1>3
<1>6. HeapInv'
  <2>1. registry' \in [Names -> 0..Len(heap')]
    BY <1>1, <1>3, <1>5 DEF IInv, HeapInv
  <2>2. ASSUME NEW v \in 1..Len(heap'), NEW key \in DOMAIN heap'[v].cache
        PROVE  heap'[v].cache[key] = RowIndex(heap'[v].table, key[1], key[2])
    <3>1. CASE v \in 1..Len(heap)
      BY <1>5, <2>2, <3>1 DEF IInv, HeapInv
    <3>2. CASE v = Len(heap) + 1
      BY <1>4, <1>5, <2>2, <3>2
    <3> QED
      BY <1>3, <1>5, <3>1, <3>2
  <2> QED
    BY <1>5, <2>1, <2>2 DEF HeapInv
<1>7. HeapGrows
  BY <1>3, <1>5 DEF HeapGrows
<1>8. ThreadInv'
  BY <1>1 DEF IInv, ThreadInv, OtherStates, locals
<1>9. ASSUME NEW u \in Threads PROVE PlaceInv(u)' /\ CapturedInv(u)'
  <2>1. CapturedInv(u)'
    BY <1>1, <1>7, CapturedStays DEF locals
  <2>2. pc[u] \notin GuardStates
    BY <1>1, NobodyCompiles
  <2>3. PlaceInv(u)'
    BY <1>1, <2>2 DEF IInv, ThreadInv, PlaceInv, GuardStates, locals
  <2> QED
    BY <2>1, <2>3
<1> QED
  BY <1>6, <1>8, <1>9 DEF IInv

(* A clear unbinds every name and keeps every table that was captured.       *)
LEMMA InvClear ==
  ASSUME IInv, NEW t \in Threads, Clear(t)
  PROVE  IInv'
<1>1. /\ pc[t] = "want_clear" /\ reading = {} /\ reading' = {}
      /\ registry' = [name \in Names |-> 0]
      /\ pc' = [pc EXCEPT ![t] = "python"] /\ gil' = NoThread
      /\ UNCHANGED <<heap, locals, writes>>
  BY DEF Clear, MayWrite, Moves
<1>2. HeapInv' /\ HeapGrows
  BY <1>1 DEF IInv, HeapInv, HeapGrows
<1>3. ThreadInv'
  BY <1>1 DEF IInv, ThreadInv, OtherStates, locals
<1>4. ASSUME NEW u \in Threads PROVE PlaceInv(u)' /\ CapturedInv(u)'
  <2>1. CapturedInv(u)'
    BY <1>1, <1>2, CapturedStays DEF locals
  <2>2. pc[u] \notin GuardStates
    BY <1>1, NobodyCompiles
  <2>3. PlaceInv(u)'
    BY <1>1, <2>2 DEF IInv, ThreadInv, PlaceInv, GuardStates, locals
  <2> QED
    BY <2>1, <2>3
<1> QED
  BY <1>2, <1>3, <1>4 DEF IInv

-----------------------------------------------------------------------------
(* A thread that holds the lock is at a lookup of its program.               *)
LEMMA AtLookup ==
  ASSUME IInv, NEW t \in Threads, pc[t] \in GuardStates
  PROVE  /\ Lookup(t) \in Lookups /\ Len(captured[t]) < Len(program[t])
         /\ captured[t] \in Seq(Captures) /\ program[t] \in Seq(Lookups)
<1>1. Len(captured[t]) < Len(program[t])
  BY DEF IInv, PlaceInv
<1> QED
  BY <1>1 DEF IInv, ThreadInv, Lookup

(* The table a lookup has found is one of the heap's, with a cache that is   *)
(* right.                                                                    *)
LEMMA FoundTable ==
  ASSUME IInv, NEW t \in Threads, pc[t] \in {"index", "build"}
  PROVE  /\ Version(t) \in 1..Len(heap) /\ Lookup(t) \in Lookups
         /\ heap[Version(t)] \in Entries
         /\ \A key \in DOMAIN heap[Version(t)].cache :
              heap[Version(t)].cache[key]
                = RowIndex(heap[Version(t)].table, key[1], key[2])
<1>1. Lookup(t) \in Lookups
  BY AtLookup DEF GuardStates
<1>2. Version(t) \in 0..Len(heap) /\ Version(t) # 0
  BY <1>1 DEF IInv, HeapInv, PlaceInv, Version, Lookups
<1>3. heap \in Seq(Entries) /\ Len(heap) \in Nat
  BY DEF IInv, HeapInv
<1>4. Version(t) \in 1..Len(heap) /\ heap[Version(t)] \in Entries
  BY <1>2, <1>3
<1> QED
  BY <1>1, <1>4 DEF IInv, HeapInv

(* Capturing no table, or the right index of the table found, whatever       *)
(* became of the caches meanwhile.                                           *)
LEMMA InvCapture ==
  ASSUME IInv, NEW t \in Threads, NEW from \in GuardStates,
         Moves(t, from, "compile"),
         NEW version \in 0..Len(heap), NEW index \in Indexes \union {NoIndex},
         version # 0 => index = IndexFor(heap[version].table, Lookup(t)),
         Capture(t, version, index),
         HeapInv', HeapGrows, Len(heap') = Len(heap)
  PROVE  IInv'
<1> DEFINE c == [lookup |-> Lookup(t), version |-> version, index |-> index]
<1>0. Len(heap) \in Nat
  BY DEF IInv, HeapInv
<1>1. Lookup(t) \in Lookups /\ pc[t] \in GuardStates
  BY AtLookup DEF Moves
<1>2. c \in Captures
  BY <1>0, <1>1 DEF Captures
<1>3. /\ captured' = [captured EXCEPT ![t] = Append(captured[t], c)]
      /\ reading' = reading \ {t} /\ pc' = [pc EXCEPT ![t] = "compile"]
      /\ UNCHANGED <<gil, registry, fresh, program, writes>>
  BY DEF Capture, DropsGuard, Moves
<1>4. c.version # 0 => /\ c.version \in 1..Len(heap')
                       /\ c.index = IndexFor(heap'[c.version].table, c.lookup)
  BY <1>0 DEF HeapGrows
<1> HIDE DEF c
<1>5. captured[t] \in Seq(Captures) /\ Len(captured[t]) < Len(program[t])
      /\ program[t] \in Seq(Lookups)
  BY <1>1, AtLookup
<1>6. /\ captured'[t] = Append(captured[t], c)
      /\ captured'[t] \in Seq(Captures)
      /\ Len(captured'[t]) = Len(captured[t]) + 1
      /\ captured'[t][Len(captured[t]) + 1] = c
      /\ \A i \in 1..Len(captured[t]) : captured'[t][i] = captured[t][i]
  BY <1>2, <1>3, <1>5 DEF IInv, ThreadInv
<1>7. ThreadInv'
  <2>1. captured' \in [Threads -> Seq(Captures)]
    BY <1>2, <1>3, <1>5 DEF IInv, ThreadInv
  <2> QED
    BY <1>3, <2>1 DEF IInv, ThreadInv, OtherStates
<1>8. PlaceInv(t)'
  BY <1>3, <1>5, <1>6 DEF IInv, ThreadInv, PlaceInv, GuardStates
<1>9. CapturedInv(t)'
  <2> SUFFICES ASSUME NEW i \in 1..Len(captured'[t]),
                      captured'[t][i].version # 0
               PROVE  /\ captured'[t][i].version \in 1..Len(heap')
                      /\ captured'[t][i].index
                           = IndexFor(heap'[captured'[t][i].version].table,
                                      captured'[t][i].lookup)
    BY DEF CapturedInv
  <2>1. CASE i \in 1..Len(captured[t])
    <3>1. /\ captured[t][i].version \in 1..Len(heap)
          /\ captured[t][i].index
               = IndexFor(heap[captured[t][i].version].table, captured[t][i].lookup)
      BY <1>6, <2>1 DEF IInv, CapturedInv
    <3>2. heap'[captured[t][i].version].table = heap[captured[t][i].version].table
      BY <3>1 DEF HeapGrows
    <3> QED
      BY <1>6, <2>1, <3>1, <3>2
  <2>2. CASE i = Len(captured[t]) + 1
    BY <1>4, <1>6, <2>2
  <2> QED
    BY <1>5, <1>6, <2>1, <2>2
<1>10. ASSUME NEW u \in Threads \ {t} PROVE PlaceInv(u)' /\ CapturedInv(u)'
  <2>1. /\ pc'[u] = pc[u] /\ fresh'[u] = fresh[u] /\ program'[u] = program[u]
        /\ captured'[u] = captured[u] /\ registry' = registry
        /\ (u \in reading => u \in reading')
    BY <1>3 DEF IInv, ThreadInv
  <2>2. CapturedInv(u)'
    BY <2>1, CapturedStays
  <2>3. Version(u)' = Version(u) /\ Lookup(u)' = Lookup(u)
    BY <2>1 DEF Version, Lookup
  <2>4. pc[u] = "build" => heap'[Version(u)].table = heap[Version(u)].table
    BY FoundTable DEF HeapGrows
  <2>5. PlaceInv(u)'
    BY <2>1, <2>3, <2>4 DEF IInv, PlaceInv
  <2> QED
    BY <2>2, <2>5
<1> QED
  BY <1>7, <1>8, <1>9, <1>10 DEF IInv

(* A lookup that fails captures nothing.                                     *)
LEMMA InvLookupFails ==
  ASSUME IInv, NEW t \in Threads, LookupFails(t)
  PROVE  IInv'
<1>1. Moves(t, "resolve", "compile") /\ Capture(t, 0, NoIndex) /\ heap' = heap
  BY DEF LookupFails
<1>2. Len(heap) \in Nat /\ registry' = registry
  BY <1>1 DEF Capture, IInv, HeapInv
<1>3. HeapInv' /\ HeapGrows
  BY <1>1, <1>2 DEF IInv, HeapInv, HeapGrows
<1> QED
  BY <1>1, <1>2, <1>3, InvCapture DEF GuardStates

(* The index a compiling lookup finds cached is the one it would build.      *)
LEMMA InvIndexed ==
  ASSUME IInv, NEW t \in Threads, NoIndexFor(t) \/ CachedIndex(t)
  PROVE  IInv'
<1>0. HeapInv' /\ HeapGrows /\ Len(heap') = Len(heap)
  <2>1. UNCHANGED <<heap, registry>> /\ Len(heap) \in Nat
    BY DEF NoIndexFor, CachedIndex, Capture, IInv, HeapInv
  <2> QED
    BY <2>1 DEF IInv, HeapInv, HeapGrows
<1> DEFINE found == heap[Version(t)]
<1>3. Version(t) \in 0..Len(heap)
  BY FoundTable DEF NoIndexFor, CachedIndex, Moves, IInv, HeapInv
<1>1. CASE NoIndexFor(t)
  <2>1. NoIndex = IndexFor(found.table, Lookup(t))
    BY <1>1 DEF NoIndexFor, IndexFor
  <2> QED
    BY <1>0, <1>1, <1>3, <2>1, InvCapture DEF NoIndexFor, GuardStates
<1>2. CASE CachedIndex(t)
  <2> DEFINE index == found.cache[Key(t)]
  <2>1. /\ Lookup(t) \in Lookups /\ found \in Entries
        /\ Key(t) \in DOMAIN found.cache
        /\ index = RowIndex(found.table, Key(t)[1], Key(t)[2])
    BY <1>2, FoundTable DEF CachedIndex, Moves
  <2>2. Key(t)[1] = Lookup(t).caseSensitive /\ Key(t)[2] = Lookup(t).fields
    BY DEF Key, IndexKey
  <2>3. index = IndexFor(found.table, Lookup(t))
    BY <1>2, <2>1, <2>2 DEF CachedIndex, IndexFor
  <2>4. index \in Indexes
    BY <2>1, <2>2 DEF Entries, Lookups, Indexes
  <2> HIDE DEF index
  <2>5. Moves(t, "index", "compile") /\ Capture(t, Version(t), index)
    BY <1>2 DEF CachedIndex, index
  <2> QED
    BY <1>0, <1>3, <2>3, <2>4, <2>5, InvCapture DEF GuardStates
<1> QED
  BY <1>1, <1>2

(* Every index of a file is one of the indexes.                              *)
LEMMA IndexOfFile ==
  ASSUME NEW table \in Files, NEW cs \in BOOLEAN, NEW fields \in SUBSET Fields
  PROVE  RowIndex(table, cs, fields) \in Indexes
BY DEF Indexes

(* An index built and cached is right, also when another thread cached the   *)
(* same one first.                                                           *)
LEMMA InvBuild ==
  ASSUME IInv, NEW t \in Threads, BuildIndex(t)
  PROVE  IInv'
<1> DEFINE v     == Version(t)
           found == heap[v]
           index == RowIndex(found.table, Lookup(t).caseSensitive, Lookup(t).fields)
           keys  == DOMAIN found.cache \union {Key(t)}
           cache == [key \in keys |-> IF key = Key(t) THEN index ELSE found.cache[key]]
<1>1. /\ Moves(t, "build", "compile") /\ Capture(t, v, index)
      /\ heap' = [heap EXCEPT ![v].cache = cache]
  BY DEF BuildIndex
<1>2. /\ v \in 1..Len(heap) /\ Lookup(t) \in Lookups /\ found \in Entries
      /\ \A key \in DOMAIN found.cache :
           found.cache[key] = RowIndex(found.table, key[1], key[2])
  BY <1>1, FoundTable DEF Moves
<1>3. /\ Key(t) \in Keys
      /\ Key(t)[1] = Lookup(t).caseSensitive /\ Key(t)[2] = Lookup(t).fields
  <2>1. Lookup(t).caseSensitive \in BOOLEAN /\ Lookup(t).fields \in SUBSET Fields
    BY <1>2 DEF Lookups
  <2>2. Key(t) = <<Lookup(t).caseSensitive, Lookup(t).fields>>
    BY DEF Key, IndexKey
  <2>3. Key(t) \in Keys
    BY <2>1, <2>2 DEF Keys
  <2>4. Key(t)[1] = Lookup(t).caseSensitive
    BY <2>2
  <2>5. Key(t)[2] = Lookup(t).fields
    BY <2>2
  <2> QED
    BY <2>3, <2>4, <2>5
<1>4. index \in Indexes
  <2>1. /\ found.table \in Files
        /\ Lookup(t).caseSensitive \in BOOLEAN /\ Lookup(t).fields \in SUBSET Fields
    BY <1>2 DEF Entries, Lookups
  <2> QED
    BY <2>1, IndexOfFile
<1>5. index = IndexFor(found.table, Lookup(t))
  <2>1. HasIndex(found.table, Lookup(t).fields)
    BY <1>1 DEF IInv, PlaceInv, Moves
  <2> QED
    BY <2>1 DEF IndexFor
<1>6. \A key \in keys : cache[key] = RowIndex(found.table, key[1], key[2])
  BY <1>2, <1>3
<1>7. cache \in Caches
  <2>1. PICK olds \in SUBSET Keys : found.cache \in [olds -> Indexes]
    BY <1>2 DEF Entries, Caches
  <2>2. keys \in SUBSET Keys
    BY <1>3, <2>1
  <2>3. cache \in [keys -> Indexes]
    BY <1>4, <2>1
  <2> QED
    BY <2>2, <2>3 DEF Caches
<1> DEFINE entry == [table |-> found.table, cache |-> cache]
<1>8. DOMAIN cache = keys
  OBVIOUS
<1> HIDE DEF cache
<1>9. heap' = [heap EXCEPT ![v] = entry]
  <2>1. [found EXCEPT !.cache = cache] = entry
    BY <1>2 DEF Entries
  <2> QED
    BY <1>1, <2>1
<1>10. entry \in Entries
  BY <1>2, <1>7 DEF Entries
<1>11. heap \in Seq(Entries) /\ Len(heap) \in Nat
  BY DEF IInv, HeapInv
<1>12. entry.table = found.table /\ entry.cache = cache
  OBVIOUS
<1> HIDE DEF entry, index, keys
<1>13. /\ heap' \in Seq(Entries) /\ Len(heap') = Len(heap)
       /\ heap'[v] = entry
       /\ \A w \in 1..Len(heap) \ {v} : heap'[w] = heap[w]
  BY <1>2, <1>9, <1>10, <1>11
<1>14. HeapGrows
  <2>1. ASSUME NEW w \in 1..Len(heap) PROVE heap'[w].table = heap[w].table
    BY <1>12, <1>13
  <2> QED
    BY <1>11, <1>13, <2>1 DEF HeapGrows
<1>15. HeapInv'
  <2>1. registry' = registry
    BY <1>1 DEF Capture
  <2>2. ASSUME NEW w \in 1..Len(heap'), NEW key \in DOMAIN heap'[w].cache
        PROVE  heap'[w].cache[key] = RowIndex(heap'[w].table, key[1], key[2])
    <3>1. CASE w = v
      BY <1>6, <1>8, <1>12, <1>13, <2>2, <3>1
    <3>2. CASE w # v
      BY <1>13, <2>2, <3>2 DEF IInv, HeapInv
    <3> QED
      BY <3>1, <3>2
  <2> QED
    BY <1>13, <2>1, <2>2 DEF IInv, HeapInv
<1> QED
  BY <1>1, <1>2, <1>4, <1>5, <1>11, <1>13, <1>14, <1>15, InvCapture DEF GuardStates

-----------------------------------------------------------------------------
(* Every step preserves the invariant.                                       *)
LEMMA InvNext == IInv /\ [Next]_vars => IInv'
<1> SUFFICES ASSUME IInv, [Next]_vars PROVE IInv'
  OBVIOUS
<1>1. CASE UNCHANGED vars
  <2>1. HeapInv' /\ ThreadInv'
    BY <1>1 DEF IInv, HeapInv, ThreadInv, vars, shared, locals
  <2>2. ASSUME NEW t \in Threads PROVE PlaceInv(t)' /\ CapturedInv(t)'
    BY <1>1 DEF IInv, PlaceInv, CapturedInv, Version, Lookup, vars, shared, locals
  <2> QED
    BY <2>1, <2>2 DEF IInv
<1>2. ASSUME NEW t \in Threads, Call(t) \/ Proceed(t) \/ Attach(t) PROVE IInv'
  <2>1. \/ Call(t) \/ Insert(t) \/ Clear(t)
        \/ CompileFails(t) \/ Finish(t) \/ LookupFails(t)
        \/ Load(t) \/ List(t) \/ ReadLock(t) \/ Resolve(t) \/ MissIndex(t)
        \/ Run(t) \/ Attach(t)
        \/ NoIndexFor(t) \/ CachedIndex(t) \/ BuildIndex(t)
    BY <1>2 DEF Proceed
  <2> QED
    BY <2>1, InvCall, InvInsert, InvClear, InvAbandon, InvMove,
       InvLookupFails, InvIndexed, InvBuild
<1> QED
  BY <1>1, <1>2 DEF Next

(* The invariant: FindsAreScans alone is not inductive, since what the next  *)
(* lookup captures is what some earlier compile left in the table's cache,   *)
(* and it captures it from the table its name had when it was resolved.      *)
THEOREM RegistryInvariance == Spec => []IInv
BY InvInit, InvNext, PTL DEF Spec

(* For every registry, every number in it is a table's and every cache is    *)
(* keyed by case setting and fields.                                         *)
THEOREM RegistryTypeCorrect == Spec => []TypeOK
<1>1. ASSUME IInv PROVE TypeOK
  <2>1. heap \in Seq(Entries) /\ DOMAIN heap = 1..Len(heap)
    BY <1>1 DEF IInv, HeapInv
  <2>2. ASSUME NEW v \in DOMAIN heap
        PROVE  heap[v].table \in Files /\ DOMAIN heap[v].cache \subseteq Keys
    <3>1. heap[v] \in Entries
      BY <2>1
    <3> QED
      BY <3>1 DEF Entries, Caches
  <2>3. SharedType
    BY <1>1, <2>2 DEF IInv, HeapInv, ThreadInv, SharedType, Keys
  <2>4. ASSUME NEW t \in Threads, NEW i \in DOMAIN captured[t]
        PROVE  captured[t][i].version \in 0..Len(heap)
    <3>1. captured[t] \in Seq(Captures)
      BY <1>1 DEF IInv, ThreadInv
    <3>2. i \in 1..Len(captured[t]) /\ captured[t][i] \in Captures
      BY <3>1
    <3>3. captured[t][i].version # 0 => captured[t][i].version \in 1..Len(heap)
      BY <1>1, <3>2 DEF IInv, CapturedInv
    <3>4. Len(heap) \in Nat
      BY <2>1
    <3> QED
      BY <3>2, <3>3, <3>4 DEF Captures
  <2>5. LocalType
    BY <1>1, <2>4 DEF IInv, ThreadInv, PlaceInv, LocalType
  <2> QED
    BY <2>3, <2>5 DEF TypeOK
<1> QED
  BY <1>1, RegistryInvariance, PTL

(* Whatever holds of every table with the index a lookup of it ought to have *)
(* holds of every lookup that was captured.                                  *)
LEMMA CapturedLookup ==
  ASSUME IInv, NEW t \in Threads, NEW i \in DOMAIN captured[t],
         captured[t][i].version # 0
  PROVE  /\ captured[t][i].lookup \in Lookups
         /\ Loaded(heap[captured[t][i].version].table)
         /\ captured[t][i].index
              = IndexFor(heap[captured[t][i].version].table, captured[t][i].lookup)
<1>1. captured[t] \in Seq(Captures) /\ heap \in Seq(Entries)
  BY DEF IInv, ThreadInv, HeapInv
<1>2. i \in 1..Len(captured[t]) /\ captured[t][i] \in Captures
  BY <1>1
<1>3. /\ captured[t][i].version \in 1..Len(heap)
      /\ captured[t][i].index
           = IndexFor(heap[captured[t][i].version].table, captured[t][i].lookup)
  BY <1>2 DEF IInv, CapturedInv
<1>4. heap[captured[t][i].version] \in Entries
  BY <1>1, <1>3
<1> QED
  BY <1>2, <1>3, <1>4 DEF Captures, Entries

(* For any threads, tables and programs, and any interleaving of compiles,   *)
(* registrations and clears, find_enrichment_table_records with the index a  *)
(* lookup captured is a scan of the table it captured.                       *)
THEOREM FindsAreAlwaysScans == Spec => []FindsAreScans
<1>1. IInv => FindsAreScans
  BY CapturedLookup, IndexedFindIsScan DEF FindsAreScans, Holds
<1> QED
  BY <1>1, RegistryInvariance, PTL

(* For any threads, tables and programs, get_enrichment_table_record with    *)
(* the index a lookup captured tells no row, one and several as a scan does. *)
THEOREM GetsAreAlwaysScans == Spec => []GetsAreScans
<1>1. IInv => GetsAreScans
  BY CapturedLookup, IndexedGetIsScan DEF GetsAreScans, Holds
<1> QED
  BY <1>1, RegistryInvariance, PTL

(* For any threads, tables and programs, a captured lookup on a field that   *)
(* is not a column fails when it is run.                                     *)
THEOREM UnknownFieldsAlwaysFail == Spec => []UnknownFieldsFail
<1>1. IInv => UnknownFieldsFail
  BY CapturedLookup, IndexedUnknownFieldFails DEF UnknownFieldsFail, Holds
<1> QED
  BY <1>1, RegistryInvariance, PTL

(* A name that is resolved stays bound to its table until its lookup has     *)
(* captured the index: a writer needs the lock without readers.              *)
THEOREM ResolvedNamesStay == Spec => ResolvedStaysRegistered
<1>1. ASSUME IInv, [Next]_vars, NEW t \in Threads,
             pc[t] \in {"index", "build"}, pc'[t] = pc[t]
      PROVE  Version(t)' = Version(t)
  <2>1. reading # {}
    BY <1>1 DEF IInv, PlaceInv, GuardStates
  <2>2. registry' = registry
    BY <1>1, <2>1
       DEF Next, Call, Proceed, CallRegister, CallClear, CallList, CallCompile,
           Load, Insert, Clear, List, MayWrite, ReadLock, CompileFails,
           LookupFails, Abandon, Resolve, NoIndexFor, CachedIndex, MissIndex,
           BuildIndex, Capture, Run, Finish, Attach, vars, shared
  <2>3. captured'[t] = captured[t] /\ program'[t] = program[t]
    <3>1. CASE UNCHANGED vars
      BY <3>1 DEF vars, locals
    <3>2. ASSUME NEW u \in Threads, Call(u) \/ Proceed(u) \/ Attach(u)
          PROVE  captured'[t] = captured[t] /\ program'[t] = program[t]
      <4>1. CASE u = t
        <5>1. NoIndexFor(t) \/ CachedIndex(t) \/ MissIndex(t) \/ BuildIndex(t)
          BY <1>1, <3>2, <4>1
             DEF Call, Proceed, CallRegister, CallClear, CallList, CallCompile,
                 Load, Insert, Clear, List, ReadLock, CompileFails, LookupFails,
                 Abandon, Resolve, Run, Finish, Attach, Moves
        <5>2. PICK to \in {"compile", "build"} :
                pc' = [pc EXCEPT ![t] = to] /\ pc[t] # to
          BY <5>1 DEF NoIndexFor, CachedIndex, MissIndex, BuildIndex, Moves
        <5>3. pc'[t] = to
          BY <1>1, <5>2 DEF IInv, ThreadInv
        <5> QED
          BY <1>1, <5>2, <5>3
      <4>2. CASE u # t
        BY <1>1, <3>2, <4>2
           DEF IInv, ThreadInv, Call, Proceed, CallRegister, CallClear, CallList, CallCompile,
               Load, Insert, Clear, List, ReadLock, CompileFails, LookupFails,
               Abandon, Resolve, NoIndexFor, CachedIndex, MissIndex, BuildIndex,
               Capture, Run, Finish, Attach, locals
      <4> QED
        BY <4>1, <4>2
    <3> QED
      BY <1>1, <3>1, <3>2 DEF Next
  <2> QED
    BY <2>2, <2>3 DEF Version, Lookup
<1>2. IInv /\ [Next]_vars =>
        [\A t \in Threads :
           (pc[t] \in {"index", "build"} /\ pc'[t] = pc[t])
             => Version(t)' = Version(t)]_vars
  BY <1>1
<1> QED
  BY <1>2, RegistryInvariance, PTL DEF Spec, ResolvedStaysRegistered

-----------------------------------------------------------------------------
(* Who has the lock and the GIL: a read guard is held within a lookup only,  *)
(* and the GIL is kept by a clear or a list alone.                           *)
LockInv ==
  /\ \A t \in reading : pc[t] \in GuardStates
  /\ gil # NoThread => pc[gil] \in {"want_clear", "want_list"}

(* A thread that takes no guard and does not have the GIL, or gives up what  *)
(* it has where it stops being at a place to have it.                        *)
LEMMA LockMove ==
  ASSUME IInv, LockInv, NEW t \in Threads, NEW to,
         pc' = [pc EXCEPT ![t] = to],
         \/ reading' = reading \ {t}
         \/ reading' \subseteq reading \union {t} /\ to \in GuardStates
         \/ reading' = reading /\ t \notin reading,
         \/ gil' = NoThread
         \/ gil' = t /\ to \in {"want_clear", "want_list"}
         \/ gil' = gil /\ gil # t
  PROVE  LockInv'
<1>1. pc \in [Threads -> GuardStates \union OtherStates]
      /\ gil \in Threads \union {NoThread} /\ reading \subseteq Threads
  BY DEF IInv, ThreadInv
<1>2. ASSUME NEW u \in reading' PROVE pc'[u] \in GuardStates
  BY <1>1 DEF LockInv
<1>3. gil' # NoThread => pc'[gil'] \in {"want_clear", "want_list"}
  BY <1>1 DEF LockInv
<1> QED
  BY <1>2, <1>3 DEF LockInv

(* Every step keeps it: no one waits for the lock with a guard of his own,   *)
(* and no one compiles or loads with the GIL.                                *)
LEMMA LockNext == IInv /\ LockInv /\ [Next]_vars => LockInv'
<1> SUFFICES ASSUME IInv, LockInv, [Next]_vars PROVE LockInv'
  OBVIOUS
<1>1. CASE UNCHANGED vars
  BY <1>1 DEF LockInv, vars
<1>2. ASSUME NEW t \in Threads, Call(t) \/ Proceed(t) \/ Attach(t)
      PROVE  LockInv'
  <2>0. /\ pc[t] \notin GuardStates => t \notin reading
        /\ pc[t] \notin {"want_clear", "want_list"} => gil # t
    BY RegistryAssumption DEF LockInv
  <2>1. CASE Call(t)
    <3>1. /\ pc[t] = "python" /\ UNCHANGED reading
          /\ \E to \in {"load", "compile", "want_clear", "want_list"} :
               /\ pc' = [pc EXCEPT ![t] = to]
               /\ UNCHANGED gil \/ (gil' = t /\ to \in {"want_clear", "want_list"})
      BY <2>1 DEF Call, CallRegister, CallClear, CallList, CallCompile, Moves
    <3> QED
      BY <2>0, <3>1, LockMove DEF GuardStates
  <2>2. CASE \/ Load(t) \/ Insert(t) \/ CompileFails(t) \/ Run(t) \/ Finish(t)
             \/ Attach(t)
    <3>1. /\ pc[t] \in {"load", "want_write", "compile", "run", "attach"}
          /\ UNCHANGED <<reading, gil>>
          /\ \E to \in {"want_write", "attach", "run", "python"} :
               pc' = [pc EXCEPT ![t] = to]
      BY <2>2 DEF Load, Insert, CompileFails, Run, Finish, Attach, Abandon, Moves
    <3> QED
      BY <2>0, <3>1, LockMove DEF GuardStates
  <2>3. CASE Clear(t) \/ List(t)
    <3>1. /\ pc[t] \in {"want_clear", "want_list"} /\ UNCHANGED reading
          /\ pc' = [pc EXCEPT ![t] = "python"] /\ gil' = NoThread
      BY <2>3 DEF Clear, List, Moves
    <3> QED
      BY <2>0, <3>1, LockMove DEF GuardStates
  <2>4. CASE ReadLock(t) \/ Resolve(t) \/ MissIndex(t)
    <3>1. /\ pc[t] \in {"compile", "resolve", "index"}
          /\ reading' \subseteq reading \union {t} /\ UNCHANGED gil
          /\ \E to \in GuardStates : pc' = [pc EXCEPT ![t] = to]
      BY <2>4 DEF ReadLock, Resolve, MissIndex, Moves, GuardStates
    <3> QED
      BY <2>0, <3>1, LockMove
  <2>5. CASE LookupFails(t) \/ NoIndexFor(t) \/ CachedIndex(t) \/ BuildIndex(t)
    <3>1. /\ pc[t] \in GuardStates
          /\ reading' = reading \ {t} /\ UNCHANGED gil
          /\ pc' = [pc EXCEPT ![t] = "compile"]
      BY <2>5 DEF LookupFails, NoIndexFor, CachedIndex, BuildIndex, Capture,
                  DropsGuard, Moves, GuardStates
    <3> QED
      BY <2>0, <3>1, LockMove DEF GuardStates
  <2> QED
    BY <1>2, <2>1, <2>2, <2>3, <2>4, <2>5 DEF Proceed
<1> QED
  BY <1>1, <1>2 DEF Next

(* What a thread waits for is at a place before it, in this order: within a  *)
(* lookup, which waits for nothing; a writer; who asks for a guard; and who  *)
(* wants the GIL.  So a set that has the first of these has no ring.         *)
LEMMA WaitsAreOrdered ==
  ASSUME IInv, LockInv, NEW t \in Threads, NEW u \in Threads, WaitsFor(t, u)
  PROVE  \/ pc[t] \in {"want_write", "want_clear"} /\ pc[u] \in GuardStates
         \/ /\ pc[t] \in {"want_list", "compile"}
            /\ pc[u] \in {"want_write", "want_clear"}
         \/ /\ pc[t] \in {"attach", "python"}
            /\ pc[u] \in {"want_clear", "want_list"}
BY RegistryAssumption DEF WaitsFor, LockInv

(* For any number of threads and any programs, there is no deadlock between  *)
(* the lock, its guards and the GIL, not even of some of the threads.        *)
THEOREM NeverARingOfWaits == Spec => []NoRingOfWaits
<1>1. Init => LockInv
  BY DEF Init, LockInv
<1>2. ASSUME IInv, LockInv PROVE NoRingOfWaits
  <2> SUFFICES ASSUME NEW S \in SUBSET Threads, S # {}
               PROVE  \E t \in S : \A u \in S : ~WaitsFor(t, u)
    BY DEF NoRingOfWaits
  <2> DEFINE At(places) == \E t \in S : pc[t] \in places
  <2>1. ASSUME NEW t \in S, NEW u \in S, WaitsFor(t, u)
        PROVE  \/ pc[t] \in {"want_write", "want_clear"} /\ At(GuardStates)
               \/ /\ pc[t] \in {"want_list", "compile"}
                  /\ At({"want_write", "want_clear"})
               \/ /\ pc[t] \in {"attach", "python"}
                  /\ At({"want_clear", "want_list"})
    BY <1>2, <2>1, WaitsAreOrdered
  <2>2. CASE At(GuardStates)
    BY <2>1, <2>2 DEF GuardStates
  <2>3. CASE ~At(GuardStates) /\ At({"want_write", "want_clear"})
    BY <2>1, <2>3
  <2>4. CASE /\ ~At(GuardStates) /\ ~At({"want_write", "want_clear"})
             /\ At({"want_list", "compile"})
    BY <2>1, <2>4
  <2>5. CASE /\ ~At({"want_write", "want_clear"}) /\ ~At({"want_list", "compile"})
    BY <2>1, <2>5
  <2> QED
    BY <2>2, <2>3, <2>4, <2>5
<1> QED
  BY <1>1, <1>2, LockNext, RegistryInvariance, PTL DEF Spec

-----------------------------------------------------------------------------
(* The lookups a call has left to compile.                                   *)
ToCompile(t) == Len(program[t]) - Len(captured[t])

(* A thread that moves takes the number of its new place, and of its program *)
(* as it then is; no other thread is further or nearer for it.               *)
LEMMA StepsOfMove ==
  ASSUME IInv, NEW t \in Threads, NEW from, NEW to, Moves(t, from, to),
         \A u \in Threads \ {t} :
           program'[u] = program[u] /\ captured'[u] = captured[u]
  PROVE  /\ StepsLeft(t)  = IF from \in GuardStates \union {"compile"}
                            THEN WayOut[from] + 4 * ToCompile(t) ELSE WayOut[from]
         /\ StepsLeft(t)' = IF to \in GuardStates \union {"compile"}
                            THEN WayOut[to] + 4 * ToCompile(t)' ELSE WayOut[to]
         /\ \A u \in Threads \ {t} : StepsLeft(u)' = StepsLeft(u)
<1>1. /\ pc[t] = from /\ pc'[t] = to
      /\ \A u \in Threads \ {t} : pc'[u] = pc[u]
  BY DEF Moves, IInv, ThreadInv
<1> QED
  BY <1>1 DEF StepsLeft, ToCompile, WayOut

(* Every step but the first of a call leads its thread back.                 *)
LEMMA ProceedLeadsBack ==
  ASSUME IInv, NEW t \in Threads, Proceed(t) \/ Attach(t)
  PROVE  /\ StepsLeft(t)' < StepsLeft(t)
         /\ \A u \in Threads \ {t} : StepsLeft(u)' = StepsLeft(u)
<1>1. /\ ToCompile(t) \in Nat
      /\ pc[t] \in GuardStates => ToCompile(t) - 1 \in Nat
      /\ program[t] \in Seq(Lookups) /\ captured[t] \in Seq(Captures)
  BY DEF IInv, ThreadInv, PlaceInv, ToCompile
<1>2. CASE \/ Load(t) \/ Insert(t) \/ Clear(t) \/ List(t) \/ CompileFails(t)
           \/ Run(t) \/ Finish(t) \/ Attach(t)
  <2>1. /\ \A u \in Threads \ {t} :
             program'[u] = program[u] /\ captured'[u] = captured[u]
        /\ \/ Moves(t, "load", "want_write") \/ Moves(t, "load", "attach")
           \/ Moves(t, "want_write", "attach") \/ Moves(t, "want_clear", "python")
           \/ Moves(t, "want_list", "python") \/ Moves(t, "compile", "attach")
           \/ Moves(t, "compile", "run") \/ Moves(t, "run", "attach")
           \/ Moves(t, "attach", "python")
    BY <1>2 DEF Load, Insert, Clear, List, CompileFails, Run, Finish, Attach,
                Abandon, locals, IInv, ThreadInv
  <2>2. PICK from \in {"load", "want_write", "want_clear", "want_list", "compile",
                       "run", "attach"},
             to \in {"want_write", "attach", "python", "run"} :
          Moves(t, from, to) /\ WayOut[to] < WayOut[from]
    BY <2>1 DEF WayOut
  <2>3. /\ StepsLeft(t)' = WayOut[to]
        /\ StepsLeft(t) = WayOut[from] \/ StepsLeft(t) = WayOut[from] + 4 * ToCompile(t)
        /\ \A u \in Threads \ {t} : StepsLeft(u)' = StepsLeft(u)
    BY <2>1, <2>2, StepsOfMove DEF GuardStates
  <2>4. WayOut[from] \in Nat /\ WayOut[to] \in Nat
    BY <2>2 DEF WayOut
  <2> QED
    BY <1>1, <2>2, <2>3, <2>4
<1>3. CASE ReadLock(t) \/ Resolve(t) \/ MissIndex(t)
  <2>1. /\ program' = program /\ captured' = captured
        /\ \/ Moves(t, "compile", "resolve") \/ Moves(t, "resolve", "index")
           \/ Moves(t, "index", "build")
    BY <1>3 DEF ReadLock, Resolve, MissIndex, locals
  <2>2. ToCompile(t)' = ToCompile(t)
    BY <2>1 DEF ToCompile
  <2>3. PICK from \in GuardStates \union {"compile"}, to \in GuardStates :
          Moves(t, from, to) /\ WayOut[to] < WayOut[from]
    BY <2>1 DEF WayOut, GuardStates
  <2>4. /\ StepsLeft(t)' = WayOut[to] + 4 * ToCompile(t)
        /\ StepsLeft(t) = WayOut[from] + 4 * ToCompile(t)
        /\ \A u \in Threads \ {t} : StepsLeft(u)' = StepsLeft(u)
    BY <2>1, <2>2, <2>3, StepsOfMove
  <2>5. WayOut[from] \in Nat /\ WayOut[to] \in Nat
    BY <2>3 DEF WayOut, GuardStates
  <2> QED
    BY <1>1, <2>3, <2>4, <2>5
<1>4. CASE LookupFails(t) \/ NoIndexFor(t) \/ CachedIndex(t) \/ BuildIndex(t)
  <2>1. /\ program' = program
        /\ \E c : captured' = [captured EXCEPT ![t] = Append(@, c)]
        /\ \E from \in GuardStates : Moves(t, from, "compile")
    BY <1>4 DEF LookupFails, NoIndexFor, CachedIndex, BuildIndex, Capture, GuardStates
  <2>2. /\ \A u \in Threads \ {t} : captured'[u] = captured[u]
        /\ Len(captured'[t]) = Len(captured[t]) + 1
    BY <1>1, <2>1 DEF IInv, ThreadInv
  <2>3. ToCompile(t)' = ToCompile(t) - 1
    <3>1. Len(program[t]) \in Nat /\ Len(captured[t]) \in Nat
      BY <1>1
    <3>2. Len(program'[t]) = Len(program[t])
      BY <2>1
    <3> QED
      BY <2>2, <3>1, <3>2 DEF ToCompile
  <2>4. PICK from \in GuardStates : Moves(t, from, "compile")
    BY <2>1
  <2>5. /\ StepsLeft(t)' = WayOut["compile"] + 4 * (ToCompile(t) - 1)
        /\ StepsLeft(t) = WayOut[from] + 4 * ToCompile(t)
        /\ \A u \in Threads \ {t} : StepsLeft(u)' = StepsLeft(u)
    BY <2>1, <2>2, <2>3, <2>4, StepsOfMove
  <2>6. WayOut[from] \in Nat /\ WayOut["compile"] = 3
    BY DEF WayOut, GuardStates
  <2> QED
    BY <1>1, <2>5, <2>6
<1> QED
  BY <1>2, <1>3, <1>4 DEF Proceed

(* For any programs and any number of threads, each call has a bound on the  *)
(* steps it still needs, which only its own steps change, and only lower.    *)
THEOREM EveryStepAlwaysLeadsBack == Spec => EveryStepLeadsBack
<1>1. ASSUME IInv, NEW t \in Threads, Call(t)
      PROVE  /\ pc[t] = "python"
             /\ \A u \in Threads \ {t} : StepsLeft(u)' = StepsLeft(u)
  <2>1. /\ \E to : Moves(t, "python", to)
        /\ \A u \in Threads \ {t} :
             program'[u] = program[u] /\ captured'[u] = captured[u]
    BY <1>1 DEF Call, CallRegister, CallClear, CallList, CallCompile, locals,
                IInv, ThreadInv
  <2> QED
    BY <1>1, <2>1, StepsOfMove DEF Moves
<1>2. IInv /\ [Next]_vars =>
        [\E t \in Threads :
           /\ pc[t] = "python" \/ StepsLeft(t)' < StepsLeft(t)
           /\ \A u \in Threads \ {t} : StepsLeft(u)' = StepsLeft(u)]_vars
  BY <1>1, ProceedLeadsBack DEF Next
<1> QED
  BY <1>2, RegistryInvariance, PTL DEF Spec, EveryStepLeadsBack

-----------------------------------------------------------------------------
(* The registry implements the store: what each step of a thread is to a     *)
(* user of the store.                                                        *)
Places == GuardStates \union OtherStates

(* A thread that moves on changes its own call in the store, if any.         *)
LEMMA CallMoves ==
  ASSUME ThreadInv, NEW t \in Threads, NEW from, NEW to, Moves(t, from, to)
  PROVE  /\ CallsOf[t] = CallAt(from)
         /\ CallsOf' = [CallsOf EXCEPT ![t] = CallAt(to)]
<1>1. pc' = [pc EXCEPT ![t] = to] /\ pc[t] = from /\ pc \in [Threads -> Places]
  BY DEF Moves, ThreadInv, Places
<1>2. pc'[t] = to /\ \A u \in Threads \ {t} : pc'[u] = pc[u]
  BY <1>1
<1>3. CallsOf' = [u \in Threads |-> CallAt(pc'[u])]
  BY DEF CallsOf, CallAt
<1>4. CallsOf = [u \in Threads |-> CallAt(pc[u])]
  BY DEF CallsOf
<1> QED
  BY <1>1, <1>2, <1>3, <1>4, Zenon

(* The store is unchanged where the registry is, whatever tables are added   *)
(* and whatever is cached.                                                   *)
LEMMA StoreStays ==
  ASSUME IInv, HeapGrows, registry' = registry
  PROVE  BoundTables' = BoundTables
<1>1. \A name \in Names : registry[name] \in 0..Len(heap)
  BY DEF IInv, HeapInv
<1>2. \A name \in Names : TableOf(registry[name])' = TableOf(registry[name])
  <2> SUFFICES ASSUME NEW name \in Names
               PROVE  TableOf(registry[name])' = TableOf(registry[name])
    OBVIOUS
  <2>1. registry[name] \in 0..Len(heap) /\ Len(heap) \in Nat
    BY <1>1 DEF IInv, HeapInv
  <2> QED
    BY <2>1 DEF TableOf, HeapGrows
<1> QED
  BY <1>2 DEF BoundTables

(* What a thread has found is unchanged where what it captured is.           *)
FoundBy(t) == [i \in 1..Len(captured[t]) |->
                 [lookup |-> captured[t][i].lookup,
                  table  |-> TableOf(captured[t][i].version)]]

(* What a thread has captured stays what it is while the heap grows,         *)
LEMMA FoundStays ==
  ASSUME IInv, HeapGrows, NEW t \in Threads, captured'[t] = captured[t]
  PROVE  FoundBy(t)' = FoundBy(t)
<1>1. \A i \in 1..Len(captured[t]) :
        TableOf(captured[t][i].version)' = TableOf(captured[t][i].version)
  <2> SUFFICES ASSUME NEW i \in 1..Len(captured[t])
               PROVE  TableOf(captured[t][i].version)' = TableOf(captured[t][i].version)
    OBVIOUS
  <2>1. captured[t] \in Seq(Captures) /\ Len(heap) \in Nat
    BY DEF IInv, ThreadInv, HeapInv
  <2>2. captured[t][i] \in Captures
    BY <2>1
  <2>3. captured[t][i].version \in 0..Len(heap)
    BY <2>1, <2>2 DEF IInv, CapturedInv, Captures
  <2>4. captured'[t][i].version = captured[t][i].version
    OBVIOUS
  <2> QED
    BY <2>1, <2>3, <2>4 DEF TableOf, HeapGrows
<1> QED
  BY <1>1 DEF FoundBy

(* and so for all threads.                                                   *)
LEMMA AllFoundStays ==
  ASSUME IInv, HeapGrows, UNCHANGED captured
  PROVE  FoundOf' = FoundOf
<1>1. \A t \in Threads : FoundBy(t)' = FoundBy(t)
  BY FoundStays
<1>2. FoundOf = [t \in Threads |-> FoundBy(t)]
  BY DEF FoundOf, FoundBy
<1>3. FoundOf' = [t \in Threads |-> FoundBy(t)']
  BY DEF FoundOf, FoundBy
<1> QED
  BY <1>1, <1>2, <1>3

(* A capture is one more lookup found, of the table captured.                *)
LEMMA FoundGrows ==
  ASSUME IInv, HeapGrows, NEW t \in Threads, pc[t] \in GuardStates,
         NEW version \in 0..Len(heap), NEW index, Capture(t, version, index),
         NEW table, table = TableOf(version)
  PROVE  FoundOf' = [FoundOf EXCEPT ![t] =
                       Append(@, [lookup |-> Lookup(t), table |-> table])]
<1> DEFINE n     == Len(captured[t])
           c     == [lookup |-> Lookup(t), version |-> version, index |-> index]
           found == [lookup |-> Lookup(t), table |-> table]
<1>1. captured[t] \in Seq(Captures) /\ n \in Nat
  BY AtLookup
<1>2. /\ captured' = [captured EXCEPT ![t] = Append(captured[t], c)]
      /\ captured \in [Threads -> Seq(Captures)]
  BY DEF Capture, IInv, ThreadInv
<1>3. /\ Len(captured'[t]) = n + 1 /\ captured'[t][n + 1] = c
      /\ \A i \in 1..n : captured'[t][i] = captured[t][i]
  BY <1>1, <1>2
<1>4. TableOf(c.version)' = table
  <2>1. Len(heap) \in Nat
    BY DEF IInv, HeapInv
  <2> QED
    BY <2>1 DEF TableOf, HeapGrows
<1>5. \A i \in 1..n :
        TableOf(captured[t][i].version)' = TableOf(captured[t][i].version)
  <2> SUFFICES ASSUME NEW i \in 1..n
               PROVE  TableOf(captured[t][i].version)' = TableOf(captured[t][i].version)
    OBVIOUS
  <2>1. captured[t][i] \in Captures /\ Len(heap) \in Nat
    BY <1>1 DEF IInv, HeapInv
  <2>2. captured[t][i].version \in 0..Len(heap)
    BY <2>1 DEF IInv, CapturedInv, Captures
  <2>3. captured'[t][i].version = captured[t][i].version
    BY <1>3
  <2> QED
    BY <2>1, <2>2, <2>3 DEF TableOf, HeapGrows
<1>6. FoundBy(t)' = Append(FoundBy(t), found)
  <2> DEFINE after == [i \in 1..n + 1 |-> IF i = n + 1 THEN found ELSE FoundBy(t)[i]]
  <2>1. Append(FoundBy(t), found) = after
    <3>1. FoundBy(t) = [i \in 1..n |-> FoundBy(t)[i]]
      BY DEF FoundBy
    <3>2. FoundBy(t) \in Seq({FoundBy(t)[i] : i \in 1..n}) /\ Len(FoundBy(t)) = n
      BY <1>1, <3>1
    <3> HIDE DEF found
    <3> QED
      BY <1>1, <3>1, <3>2
  <2>2. FoundBy(t)' = [i \in 1..n + 1 |->
          [lookup |-> captured'[t][i].lookup,
           table  |-> IF captured'[t][i].version = 0 THEN NoTable.table
                      ELSE heap'[captured'[t][i].version].table]]
    BY <1>3 DEF FoundBy, TableOf
  <2>3. ASSUME NEW i \in 1..n PROVE FoundBy(t)'[i] = FoundBy(t)[i]
    <3>1. i \in 1..n + 1 /\ captured'[t][i] = captured[t][i]
      BY <1>1, <1>3
    <3>2. FoundBy(t)[i] = [lookup |-> captured[t][i].lookup,
                           table  |-> TableOf(captured[t][i].version)]
      BY DEF FoundBy
    <3>3. FoundBy(t)'[i] =
            [lookup |-> captured'[t][i].lookup,
             table  |-> IF captured'[t][i].version = 0 THEN NoTable.table
                        ELSE heap'[captured'[t][i].version].table]
      BY <2>2, <3>1
    <3>4. TableOf(captured[t][i].version)'
            = IF captured'[t][i].version = 0 THEN NoTable.table
              ELSE heap'[captured'[t][i].version].table
      BY DEF TableOf
    <3> QED
      BY <1>5, <3>1, <3>2, <3>3, <3>4
  <2>4. FoundBy(t)'[n + 1] = found
    <3>1. n + 1 \in 1..n + 1
      BY <1>1
    <3>2. TableOf(c.version)'
            = IF version = 0 THEN NoTable.table ELSE heap'[version].table
      BY <1>3 DEF TableOf
    <3> QED
      BY <1>3, <1>4, <2>2, <3>1, <3>2
  <2>5. FoundBy(t)' = [i \in 1..n + 1 |-> FoundBy(t)'[i]]
    BY <2>2
  <2>6. \A i \in 1..n + 1 : FoundBy(t)'[i] = after[i]
    <3>1. \A i \in 1..n + 1 : i = n + 1 \/ i \in 1..n
      BY <1>1
    <3> HIDE DEF found
    <3> QED
      BY <1>1, <2>3, <2>4, <3>1
  <2>7. FoundBy(t)' = after
    <3> HIDE DEF found
    <3> QED
      BY <2>5, <2>6
  <2> QED
    BY <2>1, <2>7
<1> QED
  <2>1. ASSUME NEW u \in Threads \ {t} PROVE FoundBy(u)' = FoundBy(u)
    BY <1>2, FoundStays
  <2>2. FoundOf = [u \in Threads |-> FoundBy(u)]
    BY DEF FoundOf, FoundBy
  <2>3. FoundOf' = [u \in Threads |-> FoundBy(u)']
    BY DEF FoundOf, FoundBy
  <2> QED
    BY <1>6, <2>1, <2>2, <2>3

(* A step that captures: the next lookup is found, in its name's table or in *)
(* none.                                                                     *)
LEMMA CaptureFinds ==
  ASSUME IInv, HeapGrows, NEW t \in Threads, NEW from \in GuardStates,
         Moves(t, from, "compile"),
         NEW version \in {0, Version(t)}, NEW index, Capture(t, version, index)
  PROVE  Store!Find(t)
<1>1. Lookup(t) \in Lookups /\ Len(captured[t]) < Len(program[t])
      /\ Len(captured[t]) \in Nat /\ pc[t] = from
  BY AtLookup DEF Moves
<1>2. Lookup(t).name \in Names /\ Version(t) \in 0..Len(heap) /\ Len(heap) \in Nat
  BY <1>1 DEF Lookups, Version, IInv, HeapInv
<1>3. /\ CallsOf[t] = "compile" /\ CallsOf' = CallsOf
  <2>1. CallAt(from) = "compile" /\ CallAt("compile") = "compile"
    BY DEF CallAt, GuardStates
  <2>2. CallsOf[t] = "compile" /\ CallsOf' = [CallsOf EXCEPT ![t] = "compile"]
    BY <2>1, CallMoves DEF IInv
  <2>3. CallsOf = [u \in Threads |-> CallsOf[u]]
    BY DEF CallsOf
  <2> QED
    BY <2>2, <2>3
<1>4. FoundOf[t] = FoundBy(t) /\ Len(FoundBy(t)) = Len(captured[t])
  <2>1. FoundBy(t) = [i \in 1..Len(captured[t]) |-> FoundBy(t)[i]]
    BY DEF FoundBy
  <2> QED
    BY <1>1, <2>1 DEF FoundOf, FoundBy
<1>5. TableOf(version) \in {BoundTables[Lookup(t).name], NoTable.table}
  BY <1>2 DEF TableOf, BoundTables, Version
<1>6. FoundOf' = [FoundOf EXCEPT ![t] =
                    Append(@, [lookup |-> Lookup(t), table |-> TableOf(version)])]
  <2>1. version \in 0..Len(heap)
    BY <1>2
  <2> QED
    BY <1>1, <2>1, FoundGrows
<1>7. BoundTables' = BoundTables /\ UNCHANGED <<fresh, program>>
  BY StoreStays DEF Capture
<1>8. Lookup(t) = program[t][Len(FoundOf[t]) + 1]
  BY <1>4 DEF Lookup
<1> QED
  BY <1>1, <1>3, <1>4, <1>5, <1>6, <1>7, <1>8 DEF Store!Find

(* A step that leaves the tables and what was captured alone leaves the      *)
(* store and what was found alone.                                           *)
LEMMA QuietStore ==
  ASSUME IInv, UNCHANGED <<shared, captured>>
  PROVE  BoundTables' = BoundTables /\ FoundOf' = FoundOf
<1>1. HeapGrows
  <2>1. Len(heap) \in Nat
    BY DEF IInv, HeapInv
  <2> QED
    BY <2>1 DEF HeapGrows, shared
<1> QED
  BY <1>1, StoreStays, AllFoundStays DEF shared

(* A compile or a run that is given up ends its call in the store.           *)
LEMMA AbandonEnds ==
  ASSUME IInv, NEW t \in Threads, NEW from \in {"compile", "run"}, Abandon(t, from)
  PROVE  Store!End(t, from)
<1>1. /\ program' = [program EXCEPT ![t] = <<>>]
      /\ captured' = [captured EXCEPT ![t] = <<>>]
      /\ Moves(t, from, "attach") /\ UNCHANGED <<shared, fresh>>
  BY DEF Abandon
<1>2. HeapGrows
  <2>1. Len(heap) \in Nat
    BY DEF IInv, HeapInv
  <2> QED
    BY <1>1, <2>1 DEF HeapGrows, shared
<1>3. CallAt(from) = from /\ CallAt("attach") = "ended"
  BY DEF CallAt, GuardStates
<1>4. CallsOf[t] = from /\ CallsOf' = [CallsOf EXCEPT ![t] = "ended"]
  BY <1>1, <1>3, CallMoves DEF IInv
<1>5. BoundTables' = BoundTables
  BY <1>1, <1>2, StoreStays DEF shared
<1>6. FoundOf' = [FoundOf EXCEPT ![t] = <<>>]
  <2>1. captured'[t] = <<>> /\ \A u \in Threads \ {t} : captured'[u] = captured[u]
    BY <1>1 DEF IInv, ThreadInv
  <2>2. FoundBy(t)' = <<>>
    BY <2>1 DEF FoundBy
  <2>3. ASSUME NEW u \in Threads \ {t} PROVE FoundBy(u)' = FoundBy(u)
    BY <1>2, <2>1, FoundStays
  <2>4. FoundOf = [u \in Threads |-> FoundBy(u)]
    BY DEF FoundOf, FoundBy
  <2>5. FoundOf' = [u \in Threads |-> FoundBy(u)']
    BY DEF FoundOf, FoundBy
  <2> QED
    BY <2>2, <2>3, <2>4, <2>5
<1> QED
  BY <1>1, <1>4, <1>5, <1>6 DEF Store!End, Store!Moves

(* Calls and returns.                                                        *)
LEMMA CallIsCall ==
  ASSUME IInv, NEW t \in Threads, Call(t) \/ Attach(t)
  PROVE  Store!Next
<1>0. /\ CallAt("python") = "none"      /\ CallAt("load") = "register"
      /\ CallAt("want_clear") = "clear" /\ CallAt("want_list") = "list"
      /\ CallAt("compile") = "compile"  /\ CallAt("attach") = "ended"
  BY DEF CallAt, GuardStates
<1>1. ASSUME NEW name \in Names, CallRegister(t, name) PROVE Store!Next
  <2>1. Moves(t, "python", "load") /\ UNCHANGED <<shared, program, captured>>
        /\ fresh' = [fresh EXCEPT ![t].name = name]
    BY <1>1 DEF CallRegister
  <2>2. CallsOf[t] = "none" /\ CallsOf' = [CallsOf EXCEPT ![t] = "register"]
    BY <1>0, <2>1, CallMoves DEF IInv
  <2>3. Store!CallRegister(t, name)
    BY <2>1, <2>2, QuietStore DEF Store!CallRegister, Store!Moves
  <2> QED
    BY <2>3 DEF Store!Next
<1>2. CASE CallClear(t)
  <2>1. Moves(t, "python", "want_clear") /\ UNCHANGED <<shared, fresh, program, captured>>
    BY <1>2 DEF CallClear, locals
  <2>2. CallsOf[t] = "none" /\ CallsOf' = [CallsOf EXCEPT ![t] = "clear"]
    BY <1>0, <2>1, CallMoves DEF IInv
  <2>3. Store!Call(t, "clear")
    BY <2>1, <2>2, QuietStore DEF Store!Call, Store!Moves
  <2> QED
    BY <2>3 DEF Store!Next
<1>3. CASE CallList(t)
  <2>1. Moves(t, "python", "want_list") /\ UNCHANGED <<shared, fresh, program, captured>>
    BY <1>3 DEF CallList, locals
  <2>2. CallsOf[t] = "none" /\ CallsOf' = [CallsOf EXCEPT ![t] = "list"]
    BY <1>0, <2>1, CallMoves DEF IInv
  <2>3. Store!Call(t, "list")
    BY <2>1, <2>2, QuietStore DEF Store!Call, Store!Moves
  <2> QED
    BY <2>3 DEF Store!Next
<1>4. ASSUME NEW p \in Programs, CallCompile(t, p) PROVE Store!Next
  <2>1. Moves(t, "python", "compile") /\ UNCHANGED <<shared, fresh, captured>>
        /\ program' = [program EXCEPT ![t] = p]
    BY <1>4 DEF CallCompile
  <2>2. CallsOf[t] = "none" /\ CallsOf' = [CallsOf EXCEPT ![t] = "compile"]
    BY <1>0, <2>1, CallMoves DEF IInv
  <2>3. Store!CallCompile(t, p)
    BY <2>1, <2>2, QuietStore DEF Store!CallCompile, Store!Moves
  <2> QED
    BY <2>3 DEF Store!Next
<1>5. CASE Attach(t)
  <2>1. Moves(t, "attach", "python") /\ UNCHANGED <<shared, program, captured>>
        /\ fresh' = [fresh EXCEPT ![t] = NoTable]
    BY <1>5 DEF Attach
  <2>2. CallsOf[t] = "ended" /\ CallsOf' = [CallsOf EXCEPT ![t] = "none"]
    BY <1>0, <2>1, CallMoves DEF IInv
  <2>3. Store!Return(t)
    BY <2>1, <2>2, QuietStore DEF Store!Return, Store!Moves
  <2> QED
    BY <2>3 DEF Store!Next
<1> QED
  BY <1>1, <1>2, <1>3, <1>4, <1>5 DEF Call

(* Loading, entering, clearing and listing.                                  *)
LEMMA TableStep ==
  ASSUME IInv, NEW t \in Threads, Load(t) \/ Insert(t) \/ Clear(t) \/ List(t)
  PROVE  Store!Next
<1>0. /\ CallAt("python") = "none"       /\ CallAt("load") = "register"
      /\ CallAt("want_write") = "loaded" /\ CallAt("want_clear") = "clear"
      /\ CallAt("want_list") = "list"    /\ CallAt("attach") = "ended"
  BY DEF CallAt, GuardStates
<1>1. CASE Load(t)
  <2>0. UNCHANGED <<shared, program, captured>>
    BY <1>1 DEF Load
  <2>1. ASSUME NEW file \in Files, fresh' = [fresh EXCEPT ![t].table = file],
               Moves(t, "load", "want_write")
        PROVE  Store!ReadFile(t)
    <3>1. CallsOf[t] = "register" /\ CallsOf' = [CallsOf EXCEPT ![t] = "loaded"]
      BY <1>0, <2>1, CallMoves DEF IInv
    <3> QED
      BY <2>0, <2>1, <3>1, QuietStore DEF Store!ReadFile, Store!Moves
  <2>2. ASSUME Moves(t, "load", "attach"), UNCHANGED fresh
        PROVE  Store!Raise(t)
    <3>1. CallsOf[t] = "register" /\ CallsOf' = [CallsOf EXCEPT ![t] = "ended"]
      BY <1>0, <2>2, CallMoves DEF IInv
    <3> QED
      BY <2>0, <2>2, <3>1, QuietStore DEF Store!Raise, Store!Moves
  <2> QED
    BY <1>1, <2>1, <2>2 DEF Load, Store!Next
<1>2. CASE Insert(t)
  <2> DEFINE name == fresh[t].name
             new  == [table |-> fresh[t].table, cache |-> EmptyCache]
  <2>1. /\ heap' = Append(heap, new)
        /\ registry' = [registry EXCEPT ![name] = Len(heap) + 1]
        /\ Moves(t, "want_write", "attach") /\ UNCHANGED locals
    BY <1>2 DEF Insert, Rebinds, CacheOfNew
  <2>2. /\ name \in Names /\ heap \in Seq(Entries) /\ Len(heap) \in Nat
        /\ registry \in [Names -> 0..Len(heap)]
    BY <2>1 DEF Moves, IInv, PlaceInv, HeapInv
  <2>3. CallsOf[t] = "loaded" /\ CallsOf' = [CallsOf EXCEPT ![t] = "ended"]
    BY <1>0, <2>1, CallMoves DEF IInv
  <2>4. /\ Len(heap') = Len(heap) + 1 /\ heap'[Len(heap) + 1] = new
        /\ \A v \in 1..Len(heap) : heap'[v] = heap[v]
    BY <2>1, <2>2
  <2>5. HeapGrows
    BY <2>2, <2>4 DEF HeapGrows
  <2>6. FoundOf' = FoundOf
    BY <2>1, <2>5, AllFoundStays DEF locals
  <2>7. BoundTables' = [BoundTables EXCEPT ![name] = fresh[t].table]
    <3>1. BoundTables' = [other \in Names |->
            IF registry'[other] = 0 THEN NoTable.table
            ELSE heap'[registry'[other]].table]
      BY DEF BoundTables, TableOf
    <3>2. BoundTables = [other \in Names |->
            IF registry[other] = 0 THEN NoTable.table
            ELSE heap[registry[other]].table]
      BY DEF BoundTables, TableOf
    <3>3. registry'[name] = Len(heap) + 1 /\ Len(heap) + 1 # 0
      BY <2>1, <2>2
    <3>4. ASSUME NEW other \in Names, other # name
          PROVE  BoundTables'[other] = BoundTables[other]
      <4>1. registry'[other] = registry[other] /\ registry[other] \in 0..Len(heap)
        BY <2>1, <2>2, <3>4
      <4>2. registry[other] # 0 => heap'[registry[other]] = heap[registry[other]]
        BY <2>2, <2>4, <4>1
      <4> QED
        BY <3>1, <3>2, <4>1, <4>2
    <3>5. BoundTables'[name] = fresh[t].table
      BY <2>2, <2>4, <3>1, <3>3
    <3>6. BoundTables' = [other \in Names |-> BoundTables'[other]]
      BY <3>1
    <3>7. BoundTables = [other \in Names |-> BoundTables[other]]
      BY <3>2
    <3> HIDE DEF name
    <3> QED
      BY <3>4, <3>5, <3>6, <3>7
  <2>8. Store!Register(t)
    BY <2>1, <2>3, <2>6, <2>7 DEF Store!Register, Store!Moves, locals
  <2> QED
    BY <2>8 DEF Store!Next
<1>3. CASE Clear(t)
  <2>1. /\ registry' = [name \in Names |-> 0] /\ heap' = heap
        /\ Moves(t, "want_clear", "python") /\ UNCHANGED locals
    BY <1>3 DEF Clear
  <2>2. CallsOf[t] = "clear" /\ CallsOf' = [CallsOf EXCEPT ![t] = "none"]
    BY <1>0, <2>1, CallMoves DEF IInv
  <2>3. Len(heap) \in Nat
    BY DEF IInv, HeapInv
  <2>4. HeapGrows
    BY <2>1, <2>3 DEF HeapGrows
  <2>5. FoundOf' = FoundOf
    BY <2>1, <2>4, AllFoundStays DEF locals
  <2>6. BoundTables' = [name \in Names |-> NoTable.table]
    BY <2>1 DEF BoundTables, TableOf
  <2>7. Store!Clear(t)
    BY <2>1, <2>2, <2>5, <2>6 DEF Store!Clear, Store!Moves, locals
  <2> QED
    BY <2>7 DEF Store!Next
<1>4. CASE List(t)
  <2>1. Moves(t, "want_list", "python") /\ UNCHANGED <<shared, locals>>
    BY <1>4 DEF List
  <2>2. CallsOf[t] = "list" /\ CallsOf' = [CallsOf EXCEPT ![t] = "none"]
    BY <1>0, <2>1, CallMoves DEF IInv
  <2>3. Store!List(t)
    BY <2>1, <2>2, QuietStore DEF Store!List, Store!Moves, locals
  <2> QED
    BY <2>3 DEF Store!Next
<1> QED
  BY <1>1, <1>2, <1>3, <1>4

(* Compiling and running.  Locking, resolving and missing the cache are      *)
(* steps no user of the store can see.                                       *)
LEMMA BuildKeepsTables ==
  ASSUME IInv, NEW t \in Threads, BuildIndex(t)
  PROVE  HeapGrows
<1>1. PICK cache : heap' = [heap EXCEPT ![Version(t)].cache = cache]
  BY DEF BuildIndex
<1>2. heap \in Seq(Entries) /\ Len(heap) \in Nat
  BY DEF IInv, HeapInv
<1>3. Version(t) \in 1..Len(heap) /\ heap[Version(t)] \in Entries
  BY FoundTable DEF BuildIndex, Moves
<1>4. heap' = [heap EXCEPT ![Version(t)] = [table |-> heap[Version(t)].table,
                                           cache |-> cache]]
  <2>1. [heap[Version(t)] EXCEPT !.cache = cache]
          = [table |-> heap[Version(t)].table, cache |-> cache]
    BY <1>3 DEF Entries
  <2> QED
    BY <1>1, <2>1, Zenon
<1>5. Len(heap') = Len(heap)
  BY <1>2, <1>4
<1>6. \A v \in 1..Len(heap) : heap'[v].table = heap[v].table
  BY <1>2, <1>3, <1>4
<1> QED
  BY <1>2, <1>5, <1>6 DEF HeapGrows

(* Each step of a compile is one of the store, or none.                      *)
LEMMA CompileStep ==
  ASSUME IInv, NEW t \in Threads,
         ReadLock(t) \/ CompileFails(t) \/ LookupFails(t) \/ Resolve(t)
           \/ NoIndexFor(t) \/ CachedIndex(t) \/ MissIndex(t) \/ BuildIndex(t)
           \/ Run(t) \/ Finish(t)
  PROVE  Store!Next \/ UNCHANGED Store!vars
<1>1. ASSUME ReadLock(t) \/ Resolve(t) \/ MissIndex(t)
      PROVE  UNCHANGED Store!vars
  <2>1. /\ UNCHANGED <<shared, locals>>
        /\ \/ Moves(t, "compile", "resolve")
           \/ Moves(t, "resolve", "index")
           \/ Moves(t, "index", "build")
    BY <1>1 DEF ReadLock, Resolve, MissIndex
  <2>2. CallsOf[t] = "compile" /\ CallsOf' = [CallsOf EXCEPT ![t] = "compile"]
    <3>1. \A place \in GuardStates \union {"compile"} : CallAt(place) = "compile"
      BY DEF CallAt, GuardStates
    <3> QED
      BY <2>1, <3>1, CallMoves DEF IInv, GuardStates
  <2>3. CallsOf = [u \in Threads |-> CallsOf[u]]
    BY DEF CallsOf
  <2>4. CallsOf' = CallsOf
    BY <2>2, <2>3
  <2> QED
    BY <2>1, <2>4, QuietStore DEF Store!vars, locals
<1>2. ASSUME LookupFails(t) \/ NoIndexFor(t) \/ CachedIndex(t)
      PROVE  Store!Find(t)
  <2>1. PICK from \in GuardStates : Moves(t, from, "compile")
    BY <1>2 DEF LookupFails, NoIndexFor, CachedIndex, GuardStates
  <2>2. heap' = heap
    BY <1>2 DEF LookupFails, NoIndexFor, CachedIndex
  <2>3. Len(heap) \in Nat
    BY DEF IInv, HeapInv
  <2>4. HeapGrows
    BY <2>2, <2>3 DEF HeapGrows
  <2>5. PICK version \in {0, Version(t)} : \E index : Capture(t, version, index)
    BY <1>2 DEF LookupFails, NoIndexFor, CachedIndex
  <2> QED
    BY <2>1, <2>4, <2>5, CaptureFinds
<1>3. ASSUME BuildIndex(t) PROVE Store!Find(t)
  <2>1. Moves(t, "build", "compile") /\ \E index : Capture(t, Version(t), index)
    BY <1>3 DEF BuildIndex
  <2> QED
    BY <1>3, <2>1, BuildKeepsTables, CaptureFinds DEF GuardStates
<1>4. ASSUME CompileFails(t) \/ Finish(t)
      PROVE  \E from \in {"compile", "run"} : Store!End(t, from)
  BY <1>4, AbandonEnds DEF CompileFails, Finish
<1>5. ASSUME Run(t) PROVE Store!Run(t)
  <2>1. /\ Moves(t, "compile", "run") /\ UNCHANGED <<shared, locals>>
        /\ Len(captured[t]) = Len(program[t])
        /\ \A i \in DOMAIN captured[t] : captured[t][i].version # 0
    BY <1>5 DEF Run, Compiled
  <2>2. CallsOf[t] = "compile" /\ CallsOf' = [CallsOf EXCEPT ![t] = "run"]
    <3>1. CallAt("compile") = "compile" /\ CallAt("run") = "run"
      BY DEF CallAt, GuardStates
    <3> QED
      BY <2>1, <3>1, CallMoves DEF IInv
  <2>3. captured[t] \in Seq(Captures)
    BY DEF IInv, ThreadInv
  <2>4. /\ FoundOf[t] = FoundBy(t) /\ DOMAIN FoundBy(t) = 1..Len(captured[t])
        /\ Len(FoundBy(t)) = Len(captured[t])
    <3>1. FoundBy(t) = [i \in 1..Len(captured[t]) |-> FoundBy(t)[i]]
      BY DEF FoundBy
    <3> QED
      BY <2>3, <3>1 DEF FoundOf, FoundBy
  <2>5. ASSUME NEW i \in 1..Len(captured[t])
        PROVE  FoundBy(t)[i].table # NoTable.table
    <3>1. i \in DOMAIN captured[t] /\ captured[t][i].version # 0
      BY <2>1, <2>3
    <3>2. Loaded(heap[captured[t][i].version].table)
      BY <3>1, CapturedLookup
    <3>3. heap[captured[t][i].version].table.kind \in {"file", "geoip"}
      BY <3>2 DEF Loaded, LoadedFile, OpenedGeoip
    <3>4. NoTable.table.kind = "none"
      BY DEF NoTable
    <3>5. FoundBy(t)[i].table = heap[captured[t][i].version].table
      BY <3>1 DEF FoundBy, TableOf
    <3> QED
      BY <3>3, <3>4, <3>5
  <2> QED
    BY <2>1, <2>2, <2>4, <2>5, QuietStore DEF Store!Run, Store!Moves, locals
<1> QED
  BY <1>1, <1>2, <1>3, <1>4, <1>5 DEF Store!Next

(* The registry starts as the store does.                                    *)
LEMMA StoreInit == Init => Store!Init
<1> SUFFICES ASSUME Init PROVE Store!Init
  OBVIOUS
<1>1. BoundTables = [name \in Names |-> NoTable.table]
  BY DEF Init, BoundTables, TableOf
<1>2. CallsOf = [t \in Threads |-> "none"]
  <2>1. CallAt("python") = "none"
    BY DEF CallAt, GuardStates
  <2>2. \A t \in Threads : pc[t] = "python"
    BY DEF Init
  <2> QED
    BY <2>1, <2>2 DEF CallsOf
<1>3. FoundOf = [t \in Threads |-> <<>>]
  <2>1. \A t \in Threads : captured[t] = <<>> /\ Len(captured[t]) = 0
    BY DEF Init
  <2> QED
    BY <2>1 DEF FoundOf
<1> QED
  BY <1>1, <1>2, <1>3 DEF Init, Store!Init

(* The registry, with its lock, its guards, its caches and its threads in    *)
(* any order, does what the store of tables does, in which every call acts   *)
(* at once.                                                                  *)
THEOREM RegistryImplementsStore == Spec => ImplementsTableStore
<1>1. ASSUME IInv, [Next]_vars PROVE [Store!Next]_Store!vars
  <2>1. CASE UNCHANGED vars
    <3>1. UNCHANGED <<shared, fresh, program, captured, pc>>
      BY <2>1 DEF vars, locals
    <3>2. CallsOf' = CallsOf
      BY <3>1 DEF CallsOf
    <3> QED
      BY <1>1, <3>1, <3>2, QuietStore DEF Store!vars
  <2>2. ASSUME NEW t \in Threads, Call(t) \/ Proceed(t) \/ Attach(t)
        PROVE  Store!Next \/ UNCHANGED Store!vars
    BY <1>1, <2>2, CallIsCall, TableStep, CompileStep DEF Proceed
  <2> QED
    BY <1>1, <2>1, <2>2 DEF Next
<1> QED
  BY <1>1, StoreInit, RegistryInvariance, PTL DEF Spec, ImplementsTableStore, Store!Spec
=============================================================================
