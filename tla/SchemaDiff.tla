----------------------------- MODULE SchemaDiff -----------------------------
(***************************************************************************)
(* The rules of `mads db generate` (mads-cli/src/database): how table!     *)
(* declarations and catalog rows are read (schema.rs, catalog.rs), how the *)
(* difference is planned (diff.rs) and what its SQL does (sql.rs).         *)
(*                                                                         *)
(* PostgreSQL is external: a database maps table names to tables, beside   *)
(* the foreign keys between them.  A table name is <<namespace, table>>,   *)
(* both ranks in string order.                                             *)
(***************************************************************************)
EXTENDS Integers, SequencesExt

Bases == {"Integer", "Text", "Numeric", "VarChar", "Char", "Uuid", "Timestamp", "Time"}
Unlimited == 0                \* VarChar(None), Char(None)
NoType == [base |-> "unsupported", length |-> Unlimited, dims |-> 0]

\* Names in string order.
NameBefore(a, b) == a[1] < b[1] \/ (a[1] = b[1] /\ a[2] < b[2])
SortedNames(names) ==
  [k \in 1 .. Cardinality(names) |->
     CHOOSE name \in names : Cardinality({other \in names : NameBefore(other, name)}) = k - 1]

\* The elements of a sequence that are in a set.
Within(s, S) == FlattenSeq([k \in DOMAIN s |-> IF s[k] \in S THEN <<s[k]>> ELSE <<>>])

ColumnNames(table) == {table.columns[k].name : k \in DOMAIN table.columns}
ColumnOf(table, c) == CHOOSE column \in ToSet(table.columns) : column.name = c

-----------------------------------------------------------------------------
(***************************************************************************)
(* schema.rs.  The SQL type of a column is written as a path of            *)
(* constructors, Nullable and Array around a base: leading Nullables make  *)
(* the column nullable, one further in is refused.                         *)
(***************************************************************************)
LeadingNullables(path) ==
  CHOOSE n \in 0 .. Len(path) :
    /\ \A k \in 1 .. n : path[k] = "Nullable"
    /\ n < Len(path) => path[n + 1] # "Nullable"

TypeAccepted(path) ==
  /\ Last(path) \in Bases
  /\ \A k \in LeadingNullables(path) + 1 .. Len(path) - 1 : path[k] = "Array"

MaxLengthAccepted(column) ==
  column.max_length # Unlimited =>
    LeadingNullables(column.path) = Len(column.path) - 1 /\ Last(column.path) \in {"VarChar", "Char"}

PrimaryKey(declaration) ==
  IF declaration.primary_key = <<>> THEN <<"id">> ELSE declaration.primary_key

DeclarationAccepted(declaration) ==
  /\ ~declaration.conditional                       \* cfg, cfg_attr
  /\ \A k \in DOMAIN declaration.columns :
       TypeAccepted(declaration.columns[k].path) /\ MaxLengthAccepted(declaration.columns[k])
  /\ ToSet(PrimaryKey(declaration)) \subseteq ColumnNames(declaration)

Declared(declaration) ==
  [columns |->
     [k \in DOMAIN declaration.columns |->
        LET column == declaration.columns[k]
            outer  == LeadingNullables(column.path)
        IN  [name |-> column.name,
             type |-> [base |-> Last(column.path), length |-> column.max_length,
                       dims |-> Len(column.path) - 1 - outer],
             nullable |-> outer > 0,
             ordinal |-> k - 1]],
   primary_key |-> PrimaryKey(declaration)]

\* DesiredSchema::load: only regular files are read, and a table declared twice
\* is refused.
Declarations(files) == FlattenSeq([k \in DOMAIN files |->
                         IF files[k].regular THEN files[k].declarations ELSE <<>>])

LoadAccepted(files) ==
  /\ \E k \in DOMAIN files : files[k].regular
  /\ \A k \in DOMAIN Declarations(files) : DeclarationAccepted(Declarations(files)[k])
  /\ IsInjective([k \in DOMAIN Declarations(files) |-> Declarations(files)[k].name])

DesiredSchema(files) ==
  LET all == ToSet(Declarations(files))
  IN  [name \in {d.name : d \in all} |-> Declared(CHOOSE d \in all : d.name = name)]

Namespaces(desired) == {name[1] : name \in DOMAIN desired}

-----------------------------------------------------------------------------
(***************************************************************************)
(* catalog.rs: only the namespaces that are declared are read; a type the  *)
(* planner does not know is an error; a precision is forgotten             *)
(* ("PreciseNumeric" is a numeric(10,2)); the ordinal is the attribute     *)
(* number, which dropped columns leave gaps in.                            *)
(***************************************************************************)
CatalogType(stored) ==
  CASE stored.base \in Bases -> stored
    [] stored.base = "PreciseNumeric" -> [stored EXCEPT !.base = "Numeric"]
    [] OTHER -> NoType

LoadedNames(database, namespaces) ==
  {name \in DOMAIN database.tables : name[1] \in namespaces}

CatalogAccepted(database, namespaces) ==
  \A name \in LoadedNames(database, namespaces) :
    \A k \in DOMAIN database.tables[name].columns :
      CatalogType(database.tables[name].columns[k].type) # NoType

LiveTables(database, namespaces) ==
  [name \in LoadedNames(database, namespaces) |->
     [columns |-> [k \in DOMAIN database.tables[name].columns |->
        [database.tables[name].columns[k] EXCEPT !.type = CatalogType(@)]],
      primary_key |-> database.tables[name].primary_key]]

LiveForeignKeys(database, namespaces) ==
  {key \in database.foreign_keys : key.child[1] \in namespaces}

LiveUnsupported(database, namespaces) ==
  {object \in database.objects : object.table[1] \in namespaces}
    \cup {[kind |-> "foreign key", table |-> key.child, columns |-> {key.column}] :
            key \in LiveForeignKeys(database, namespaces)}

-----------------------------------------------------------------------------
(***************************************************************************)
(* diff.rs: the operations and their inverses.                             *)
(***************************************************************************)
CreateTable(name, table) == [kind |-> "CreateTable", name |-> name, table |-> table]
DropTable(name, table)   == [kind |-> "DropTable", name |-> name, table |-> table]
AddColumn(name, column)  == [kind |-> "AddColumn", name |-> name, column |-> column]
DropColumn(name, column) == [kind |-> "DropColumn", name |-> name, column |-> column]
AlterType(name, c, old, new) ==
  [kind |-> "AlterType", name |-> name, column |-> c, from |-> old, to |-> new]
SetNotNull(name, c)  == [kind |-> "SetNotNull", name |-> name, column |-> c]
DropNotNull(name, c) == [kind |-> "DropNotNull", name |-> name, column |-> c]

\* Seeded fault: a type change is undone by the same type change.
InverseKeepsTypes(op) ==
  CASE op.kind = "CreateTable" -> DropTable(op.name, op.table)
    [] op.kind = "DropTable"   -> CreateTable(op.name, op.table)
    [] op.kind = "AddColumn"   -> DropColumn(op.name, op.column)
    [] op.kind = "DropColumn"  -> AddColumn(op.name, op.column)
    [] op.kind = "AlterType"   -> op
    [] op.kind = "SetNotNull"  -> DropNotNull(op.name, op.column)
    [] op.kind = "DropNotNull" -> SetNotNull(op.name, op.column)

InverseOf(op) ==
  CASE op.kind = "CreateTable" -> DropTable(op.name, op.table)
    [] op.kind = "DropTable"   -> CreateTable(op.name, op.table)
    [] op.kind = "AddColumn"   -> DropColumn(op.name, op.column)
    [] op.kind = "DropColumn"  -> AddColumn(op.name, op.column)
    [] op.kind = "AlterType"   -> AlterType(op.name, op.column, op.to, op.from)
    [] op.kind = "SetNotNull"  -> DropNotNull(op.name, op.column)
    [] op.kind = "DropNotNull" -> SetNotNull(op.name, op.column)

(***************************************************************************)
(* What the planner refuses, and the order in which tables are dropped:    *)
(* a child before its parents, the lowest name first among those that may  *)
(* go.  A table that refers to itself counts as a cycle.                   *)
(***************************************************************************)
PrimaryKeyChanges(live, desired) ==
  \E name \in DOMAIN live \cap DOMAIN desired :
    \/ live[name].primary_key # desired[name].primary_key
    \/ ~(ToSet(live[name].primary_key) \subseteq ColumnNames(desired[name]))

RetainedReference(dropped, keys) ==
  \E key \in keys : key.parent \in dropped /\ key.child \notin dropped

DropOrder(dropped, keys) ==
  LET Waits(name, gone) ==
        \E key \in keys : key.parent = name /\ key.child \in dropped \ gone
      order[n \in 0 .. Cardinality(dropped)] ==
        IF n = 0 THEN <<>>
        ELSE LET ready == {name \in dropped \ ToSet(order[n - 1]) :
                             ~Waits(name, ToSet(order[n - 1]))}
             IN  IF ready = {} THEN order[n - 1]
                 ELSE Append(order[n - 1], Head(SortedNames(ready)))
  IN  order[Cardinality(dropped)]

PlanAccepted(live, desired, keys) ==
  LET dropped == DOMAIN live \ DOMAIN desired
  IN  /\ ~PrimaryKeyChanges(live, desired)
      /\ ~RetainedReference(dropped, keys)
      /\ Len(DropOrder(dropped, keys)) = Cardinality(dropped)

(***************************************************************************)
(* The passes of plan_tables_ref, each over the tables in name order.      *)
(***************************************************************************)
Pass(names, Operations(_)) ==
  FlattenSeq([k \in 1 .. Cardinality(names) |-> Operations(SortedNames(names)[k])])

Common(live, desired, name) ==
  Within(live[name].columns,
         {column \in ToSet(live[name].columns) : column.name \in ColumnNames(desired[name])})

Additions(live, desired, name) ==
  Within(desired[name].columns,
         {column \in ToSet(desired[name].columns) : column.name \notin ColumnNames(live[name])})

Removals(live, desired, name) ==
  Reverse(Within(live[name].columns,
                 {column \in ToSet(live[name].columns) :
                    column.name \notin ColumnNames(desired[name])}))

TypeChanges(live, desired, name) ==
  LET common  == Common(live, desired, name)
      changed == Within(common, {column \in ToSet(common) :
                                   column.type # ColumnOf(desired[name], column.name).type})
  IN  [k \in DOMAIN changed |->
         AlterType(name, changed[k].name, changed[k].type,
                   ColumnOf(desired[name], changed[k].name).type)]

NullabilityChanges(live, desired, name) ==
  LET common  == Common(live, desired, name)
      changed == Within(common, {column \in ToSet(common) :
                                   column.nullable # ColumnOf(desired[name], column.name).nullable})
  IN  [k \in DOMAIN changed |->
         IF changed[k].nullable THEN SetNotNull(name, changed[k].name)
                                ELSE DropNotNull(name, changed[k].name)]

Up(live, desired, keys) ==
  LET kept    == DOMAIN live \cap DOMAIN desired
      dropped == DropOrder(DOMAIN live \ DOMAIN desired, keys)
  IN  Pass(DOMAIN desired \ DOMAIN live, LAMBDA name : <<CreateTable(name, desired[name])>>)
      \o Pass(kept, LAMBDA name :
           [k \in DOMAIN Additions(live, desired, name) |->
              AddColumn(name, Additions(live, desired, name)[k])])
      \o Pass(kept, LAMBDA name : TypeChanges(live, desired, name))
      \o Pass(kept, LAMBDA name : NullabilityChanges(live, desired, name))
      \o Pass(kept, LAMBDA name :
           [k \in DOMAIN Removals(live, desired, name) |->
              DropColumn(name, Removals(live, desired, name)[k])])
      \o [k \in DOMAIN dropped |-> DropTable(dropped[k], live[dropped[k]])]

Down(up) == [k \in DOMAIN up |-> InverseOf(Reverse(up)[k])]

(***************************************************************************)
(* Warnings: of the steps that may lose data or fail on it, and of what    *)
(* the planner does not synthesize but a step affects.                     *)
(***************************************************************************)
AffectedTables(up) ==
  {up[k].name : k \in {j \in DOMAIN up : up[j].kind = "DropTable"}}

ColumnTouched(op) == IF op.kind \in {"AddColumn", "DropColumn"} THEN op.column.name ELSE op.column

AffectedColumns(up) ==
  {<<up[k].name, ColumnTouched(up[k])>> :
     k \in {j \in DOMAIN up : up[j].kind \notin {"CreateTable", "DropTable"}}}

TableTouched(up, name) ==
  name \in AffectedTables(up) \/ \E pair \in AffectedColumns(up) : pair[1] = name

Touches(up, object) ==
  \/ object.table \in AffectedTables(up)
  \/ object.columns = {} /\ TableTouched(up, object.table)
  \/ \E c \in object.columns : <<object.table, c>> \in AffectedColumns(up)

\* Seeded fault: an object of the whole table, a trigger, is never touched.
ObjectWarningsByColumn(up, unsupported, keys) ==
  {[about |-> "object", of |-> object] :
     object \in {o \in unsupported : \E c \in o.columns : <<o.table, c>> \in AffectedColumns(up)}}

ObjectWarnings(up, unsupported, keys) ==
  {[about |-> "object", of |-> object] : object \in {o \in unsupported : Touches(up, o)}}
    \cup {[about |-> "foreign key", of |-> key] : key \in {k \in keys : TableTouched(up, k.parent)}}

\* Seeded fault: a type change is taken for one that loses nothing.
StepWarningsWithoutTypes(up) ==
  {[about |-> "step", of |-> up[k]] :
     k \in {j \in DOMAIN up :
              \/ up[j].kind \in {"DropColumn", "DropTable"}
              \/ up[j].kind = "AddColumn" /\ ~up[j].column.nullable}}

StepWarnings(up) ==
  {[about |-> "step", of |-> up[k]] :
     k \in {j \in DOMAIN up :
              \/ up[j].kind \in {"AlterType", "DropColumn", "DropTable"}
              \/ up[j].kind = "AddColumn" /\ ~up[j].column.nullable}}

-----------------------------------------------------------------------------
(***************************************************************************)
(* What PostgreSQL does with a rendered operation: when it succeeds, while *)
(* the tables are empty and nothing else depends on the column, and the    *)
(* tables it leaves.  A primary key makes its columns non-null; "char"     *)
(* without a length is a char of length 1; arrays have no dimension.       *)
(***************************************************************************)
StoredType(type) ==
  [type EXCEPT !.length = IF type.base = "Char" /\ @ = Unlimited THEN 1 ELSE @,
               !.dims = IF @ > 1 THEN 1 ELSE @]

StoredColumn(column, key) ==
  [column EXCEPT !.type = StoredType(@), !.nullable = @ /\ column.name \notin key]

Stored(table) ==
  [columns |-> [k \in DOMAIN table.columns |->
                  StoredColumn(table.columns[k], ToSet(table.primary_key))],
   primary_key |-> table.primary_key]

\* Whether col::type is a cast PostgreSQL has: by way of text, which every type
\* is written as and read from, within one type or to a related one, and
\* element by element between arrays.
Textual(type) == type.base \in {"Text", "VarChar", "Char"}
Casts == {<<"Integer", "Numeric">>, <<"Numeric", "Integer">>, <<"Timestamp", "Time">>}

CastExists(from, to) ==
  \/ \E type \in {from, to} : Textual(type) /\ type.dims = 0
  \/ /\ from.dims > 0 <=> to.dims > 0
     /\ from.base = to.base \/ <<from.base, to.base>> \in Casts \/ Textual(from) \/ Textual(to)

Succeeds(op, tables, keys) ==
  CASE op.kind = "CreateTable" -> op.name \notin DOMAIN tables
    [] op.kind = "DropTable" ->
         /\ op.name \in DOMAIN tables
         /\ \A key \in keys : key.parent = op.name => key.child \notin DOMAIN tables \ {op.name}
    [] op.kind = "AddColumn" ->
         op.name \in DOMAIN tables /\ op.column.name \notin ColumnNames(tables[op.name])
    [] op.kind = "DropColumn" ->
         op.name \in DOMAIN tables /\ op.column.name \in ColumnNames(tables[op.name])
    [] op.kind = "DropNotNull" ->
         /\ op.name \in DOMAIN tables
         /\ op.column \in ColumnNames(tables[op.name]) \ ToSet(tables[op.name].primary_key)
    [] op.kind = "AlterType" ->
         /\ op.name \in DOMAIN tables
         /\ op.column \in ColumnNames(tables[op.name])
         /\ CastExists(CatalogType(ColumnOf(tables[op.name], op.column).type), op.to)
    [] OTHER ->
         op.name \in DOMAIN tables /\ op.column \in ColumnNames(tables[op.name])

\* No check, index, trigger or foreign key depends on a column that is dropped or
\* takes another type: PostgreSQL may refuse such a step for what depends on it.
Independent(up, database, keys) ==
  \A k \in {j \in DOMAIN up : up[j].kind \in {"AlterType", "DropColumn"}} :
    /\ \A object \in database.objects :
         object.table = up[k].name => ColumnTouched(up[k]) \notin object.columns
    /\ \A key \in keys :
         /\ key.parent # up[k].name
         /\ key.child = up[k].name => key.column # ColumnTouched(up[k])

WithColumn(table, c, column) ==
  [table EXCEPT !.columns = [k \in DOMAIN @ |-> IF @[k].name = c THEN column ELSE @[k]]]

Result(op, tables) ==
  CASE op.kind = "CreateTable" ->
         [name \in DOMAIN tables \cup {op.name} |->
            IF name = op.name THEN Stored(op.table) ELSE tables[name]]
    [] op.kind = "DropTable" -> [name \in DOMAIN tables \ {op.name} |-> tables[name]]
    [] op.kind = "AddColumn" ->
         [tables EXCEPT ![op.name].columns = Append(@, StoredColumn(op.column, {}))]
    [] op.kind = "DropColumn" ->
         [tables EXCEPT ![op.name].columns =
            Within(@, {column \in ToSet(@) : column.name # op.column.name})]
    [] op.kind = "AlterType" ->
         [tables EXCEPT ![op.name] = WithColumn(@, op.column,
            [ColumnOf(@, op.column) EXCEPT !.type = StoredType(op.to)])]
    [] op.kind = "SetNotNull" ->
         [tables EXCEPT ![op.name] = WithColumn(@, op.column,
            [ColumnOf(@, op.column) EXCEPT !.nullable = FALSE])]
    [] op.kind = "DropNotNull" ->
         [tables EXCEPT ![op.name] = WithColumn(@, op.column,
            [ColumnOf(@, op.column) EXCEPT !.nullable = TRUE])]

\* The tables before the first and after each of the operations, in order.
States(ops, tables, keys) ==
  LET after[n \in 0 .. Len(ops)] ==
        IF n = 0 THEN [ok |-> TRUE, tables |-> tables]
        ELSE IF after[n - 1].ok /\ Succeeds(ops[n], after[n - 1].tables, keys)
             THEN [ok |-> TRUE, tables |-> Result(ops[n], after[n - 1].tables)]
             ELSE [ok |-> FALSE, tables |-> tables]
  IN  after[Len(ops)]

\* Tables compared as the planner sees them: the order of columns aside.
Shape(tables) ==
  [name \in DOMAIN tables |->
     [columns |-> {[name |-> column.name, type |-> CatalogType(column.type),
                    nullable |-> column.nullable] : column \in ToSet(tables[name].columns)},
      primary_key |-> tables[name].primary_key]]
=============================================================================
