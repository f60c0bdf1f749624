---------------------------- MODULE ImportTypes -----------------------------
(***************************************************************************)
(* The conversions of the import loaders (import.go): MySQL column types   *)
(* to Postgres types, and JSON documents to the rows of a typed table.     *)
(***************************************************************************)
EXTENDS Naturals, Sequences

VARIABLES columns,   \* a MySQL table's columns
          docs       \* a JSON source's documents

conversions == <<columns, docs>>

MySQLColumns ==
  [type : {"tinyint", "smallint", "mediumint", "int", "bigint", "year", "decimal", "json", "varchar"},
   unsigned : BOOLEAN, generated : BOOLEAN]

\* The bits of MySQL's integer types, and of the Postgres types that they
\* become; numeric holds them all.
MySQLBits == [tinyint |-> 8, smallint |-> 16, mediumint |-> 24, int |-> 32, bigint |-> 64]

PostgresBits == [smallint |-> 16, integer |-> 32, bigint |-> 64, numeric |-> 128]

\* Mutant of mapMySQLType: unsigned columns keep their width.
mapMySQLTypeSigned(t, unsigned) ==
  CASE t \in {"tinyint", "smallint", "bit"} -> "smallint"
    [] t \in {"mediumint", "int", "year"}   -> "integer"
    [] OTHER                                -> "bigint"

\* year, float, double and the date types map one to one; bit becomes a
\* smallint whatever its length; the rest is text.
mapMySQLType(t, unsigned) ==
  CASE t = "tinyint"                                  -> "smallint"
    [] t = "smallint"                                 -> IF unsigned THEN "integer" ELSE "smallint"
    [] t \in {"mediumint", "year"}                    -> "integer"
    [] t = "int"                                      -> IF unsigned THEN "bigint" ELSE "integer"
    [] t = "bigint"                                   -> IF unsigned THEN "numeric" ELSE "bigint"
    [] t = "decimal"                                  -> "numeric"
    [] t = "float"                                    -> "real"
    [] t = "double"                                   -> "double precision"
    [] t = "bit"                                      -> "smallint"
    [] t \in {"datetime", "timestamp"}                -> "timestamp"
    [] t \in {"date", "time"}                         -> t
    [] t = "json"                                     -> "jsonb"
    [] OTHER                                          -> "text"

\* mysqlCreateTable: the columns in their order, without the generated ones,
\* which mysqldump leaves out of its rows too.
mysqlCreateTable(cs) ==
  LET kept == SelectSeq(cs, LAMBDA c : ~ c.generated)
  IN [i \in DOMAIN kept |-> mapMySQLType(kept[i].type, kept[i].unsigned)]

\* The comment on mapMySQLType: it widens for unsigned ranges.  Every integer
\* column of a table, signed or not, gets a type that holds all its values, at
\* the place where mysqldump's rows, which name no columns, have them.
IntegersFit ==
  LET table == mysqlCreateTable(columns)
      row == SelectSeq(columns, LAMBDA x : ~ x.generated)
  IN \A i \in DOMAIN row :
       row[i].type \in DOMAIN MySQLBits =>
         PostgresBits[table[i]] >= MySQLBits[row[i].type] + IF row[i].unsigned THEN 1 ELSE 0
-----------------------------------------------------------------------------
(* Documents: a value of some JSON kind under each key, or no object at all *)

Kinds == {"string", "number", "boolean", "null", "object", "array"}

Keys == {"_id", "k"}

Documents == [object : {TRUE}, value : [Keys -> Kinds \union {"absent"}]]
             \union [object : {FALSE}, value : {[k \in Keys |-> "absent"]}]

\* The keys of the object documents, and the kinds of value each has.
KindsOf(ds, k) == {ds[i].value[k] : i \in DOMAIN ds} \ {"absent"}

Fields(ds) == {k \in Keys : KindsOf(ds, k) # {}}

\* Mutant of jsonColumn: any kind the column has decides its type.
jsonColumnAny(k, kinds) ==
  CASE k = "_id"           -> "text"
    [] "number" \in kinds  -> "numeric"
    [] "boolean" \in kinds -> "boolean"
    [] "string" \in kinds  -> "text"
    [] OTHER               -> "jsonb"

jsonColumn(k, kinds) ==
  LET ts == kinds \ {"null"} IN
  CASE k = "_id" \/ ts = {} \/ ts = {"string"} -> "text"
    [] ts = {"number"}                        -> "numeric"
    [] ts = {"boolean"}                       -> "boolean"
    [] OTHER                                  -> "jsonb"

\* The kinds of value that a column of a type can be given without an error, and
\* keeps as they are; a text column gets the text of any value.
Accepts == [text |-> Kinds, jsonb |-> Kinds, numeric |-> {"number", "null"}, boolean |-> {"boolean", "null"}]

\* A cell of the final table: its column's type, and what it was in the document.
Cell(ds, i, k) == <<jsonColumn(k, KindsOf(ds, k)), ds[i].value[k]>>

\* relationalizeJSON: one row for each object; without any key, the documents
\* stay in one jsonb column.
Rows(ds) ==
  IF Fields(ds) = {} THEN [i \in DOMAIN ds |-> <<>>]
  ELSE LET objects == {i \in DOMAIN ds : ds[i].object}
       IN [i \in objects |-> [k \in Fields(ds) |-> Cell(ds, i, k)]]

\* loadJSON's comment: keys become typed columns, and documents that are not
\* objects are kept as they are.  No insert fails on a value of another type,
\* every value but a null keeps its type (text for _id), and no document is
\* lost, as long as a source does not mix objects with other documents: then
\* the others are dropped without a word.
DocumentsKept ==
  Fields(docs) = {} \/ (\A i \in DOMAIN docs : docs[i].object) =>
    /\ DOMAIN Rows(docs) = DOMAIN docs
    /\ \A i \in DOMAIN docs, k \in Fields(docs) :
         LET cell == Rows(docs)[i][k] IN
         cell[2] # "absent" =>
           /\ cell[2] \in Accepts[cell[1]]
           /\ cell[1] = "text" => k = "_id" \/ cell[2] \in {"string", "null"}
=============================================================================
