------------------------------ MODULE MCRules ------------------------------
(***************************************************************************)
(* The rules of MADS that keep no state, checked case by case: a behaviour *)
(* asks one question, an input of one of the rule modules, and the         *)
(* properties compare the answer with what it is for.                      *)
(***************************************************************************)
EXTENDS SchemaDiff, JwtTokens, Settings, CommandLine

VARIABLES
  topic,  \* the rules asked about
  input   \* the case

vars == <<topic, input>>

-----------------------------------------------------------------------------
(***************************************************************************)
(* Schema differences: one table whose columns come, go and change, beside *)
(* an object on it; and up to four tables, one of them in a namespace of   *)
(* its own, with foreign keys between them.                                *)
(***************************************************************************)
A == <<1, 1>>
B == <<1, 2>>
C == <<1, 3>>
Audit == <<2, 1>>

\* Columns as they are declared and as they are stored; <<>> is no column.
Declare(name, paths) ==
  {<<>>} \cup {<<[name |-> name, path |-> path, max_length |-> length]>> :
                 path \in paths, length \in {Unlimited}}
IdDeclared == [name |-> "id", path |-> <<"Integer">>, max_length |-> Unlimited]

DeclaredA ==
  Declare("a", {<<"Integer">>, <<"Nullable", "Integer">>, <<"Numeric">>, <<"Char">>,
                <<"Nullable", "Array", "Text">>, <<"Array", "Nullable", "Text">>,
                <<"Array", "Array", "Text">>, <<"Time">>})
    \cup {<<[name |-> "a", path |-> <<"VarChar">>, max_length |-> 5]>>}
DeclaredB == Declare("b", {<<"Text">>, <<"Nullable", "Text">>})

Stores(name, base, nullable, ordinal) ==
  [name |-> name, type |-> [base |-> base, length |-> Unlimited, dims |-> 0],
   nullable |-> nullable, ordinal |-> ordinal]
IdStored == Stores("id", "Integer", FALSE, 0)

StoredA == {<<>>} \cup {<<Stores("a", base, nullable, 2)>> :
              base \in {"Integer", "PreciseNumeric", "Text", "Timestamp"}, nullable \in BOOLEAN}
StoredB == {<<>>} \cup {<<Stores("b", "Text", nullable, 3)>> : nullable \in BOOLEAN}

Declaration(name, columns) ==
  [name |-> name, columns |-> columns, primary_key |-> <<>>, conditional |-> FALSE]
Source(declarations) == [regular |-> TRUE, declarations |-> declarations]

ColumnCase(da, db, sa, sb, objects) ==
  [files |-> <<Source(<<Declaration(A, <<IdDeclared>> \o da \o db)>>)>>,
   database |->
     [tables |-> [name \in {A} |-> [columns |-> <<IdStored>> \o sa \o sb, primary_key |-> <<"id">>]],
      foreign_keys |-> {}, objects |-> objects]]

ColumnCases ==
  {ColumnCase(da, db, sa, sb, objects) :
     da \in DeclaredA, db \in DeclaredB, sa \in StoredA, sb \in StoredB,
     objects \in {{}, {[kind |-> "check", table |-> A, columns |-> {"a", "b"}]},
                  {[kind |-> "trigger", table |-> A, columns |-> {}]}}}

Key(child, parent) == [child |-> child, parent |-> parent, column |-> "id"]

TableCase(declared, stored, keys) ==
  [files |-> SetToSeq({Source(<<Declaration(name, <<IdDeclared>>)>>) : name \in declared}),
   database |->
     [tables |-> [name \in stored |-> [columns |-> <<IdStored>>, primary_key |-> <<"id">>]],
      foreign_keys |-> {key \in keys : {key.child, key.parent} \subseteq stored},
      objects |-> {}]]

TableCases ==
  {TableCase(declared, stored, keys) :
     declared \in SUBSET {A, B, C, Audit}, stored \in SUBSET {A, B, C, Audit},
     keys \in SUBSET {Key(A, B), Key(B, A), Key(C, A), Key(Audit, A), Key(A, A)}}

DiffCases == ColumnCases \cup TableCases

-----------------------------------------------------------------------------
(***************************************************************************)
(* Tokens: signed under one configuration and verified, sooner or later,   *)
(* under the one that has replaced it.  Material 1 is a secret, 2 and 3    *)
(* are key pairs.                                                          *)
(***************************************************************************)
Secret(material, size) == [material |-> material, size |-> size]
NoSecret == Secret(NoMaterial, 0)
HmacKey == [algorithm |-> "HS256", secret |-> Secret(1, 32),
            private_key |-> NoMaterial, public_key |-> NoMaterial]
PairKey(private, public) == [algorithm |-> "RS256", secret |-> NoSecret,
                             private_key |-> private, public_key |-> public]

SimpleKeys(size, algorithms) ==
  [secret |-> Secret(1, size), algorithms |-> algorithms, active_key |-> None, keys |-> <<>>]
NamedKeys(active, keys) ==
  [secret |-> NoSecret, algorithms |-> <<"HS256", "RS256">>, active_key |-> active, keys |-> keys]

Simple == SimpleKeys(32, <<>>)
First == NamedKeys("k1", [k1 |-> PairKey(2, 2)])
Rotated == NamedKeys("k2", [k1 |-> PairKey(NoMaterial, 2), k2 |-> HmacKey])
Retired == NamedKeys("k2", [k2 |-> HmacKey])
Replaced == NamedKeys("k1", [k1 |-> PairKey(3, 3)])

Rotations ==
  {<<Simple, Simple>>, <<First, First>>, <<First, Rotated>>, <<First, Retired>>,
   <<First, Replaced>>, <<Rotated, Retired>>, <<Rotated, First>>, <<Simple, Retired>>,
   <<Retired, Simple>>, <<SimpleKeys(32, <<"HS512">>), Simple>>,
   <<NamedKeys("k1", [k1 |-> PairKey(NoMaterial, 2)]), First>>,
   <<NamedKeys("k1", [k1 |-> PairKey(3, 2)]), First>>,
   <<SimpleKeys(48, <<"HS256", "HS384">>), Simple>>}

Policy(keys, issuer, audiences, skew) ==
  [secret |-> keys.secret, algorithms |-> keys.algorithms,
   active_key |-> keys.active_key, keys |-> keys.keys, issuer |-> issuer,
   audiences |-> audiences, clock_skew |-> skew, max_token_bytes |-> 10]

Options ==
  {[kind |-> kind, lifetime |-> lifetime, not_before |-> not_before, reserved |-> FALSE,
    size |-> size, subject |-> None, jwt_id |-> None] :
     kind \in {"access"}, lifetime \in {0, 3}, not_before \in {NoTime, 7}, size \in {10, 11}}

Validation(kind) ==
  [kind |-> kind, issuer |-> None, audience |-> None, subject_required |-> FALSE,
   subject |-> None, jwt_id_required |-> FALSE, jwt_id |-> None]

\* Before and after the rotation; no audience asks for none.
Issuers == {<<None, None>>, <<"i", "i">>, <<"i", "j">>}
Audiences == {<<{}, {}>>, <<{"a", "b"}, {"b", "c"}>>, <<{}, {"b"}>>}

Skews == {0, 2, MaxSeconds}
SigningTimes == {0, 5, MaxSeconds - 1}
ReadingTimes == {0, 3, 4, 5, 7, 8, 9, 10, MaxSeconds}
Kinds == {"access", "refresh"}

TokenCases ==
  {[old |-> Policy(rotation[1], issuers[1], audiences[1], 0),
    new |-> Policy(rotation[2], issuers[2], audiences[2], skew),
    options |-> options, signed_at |-> signed_at, read_at |-> read_at,
    validation |-> Validation(kind)] :
     rotation \in Rotations, issuers \in Issuers, audiences \in Audiences, skew \in Skews,
     options \in Options, signed_at \in SigningTimes, read_at \in ReadingTimes,
     kind \in Kinds}

-----------------------------------------------------------------------------
(***************************************************************************)
(* Configuration: two keys, in the file and in the environment, of either  *)
(* shape, as texts and as variables; and applications that are inspected   *)
(* and run under settings good and bad.                                    *)
(***************************************************************************)
Entry(kind, value) == [kind |-> kind, value |-> value]
Toml(entries, tables) == [state |-> "parsed", entries |-> entries, tables |-> tables]
Dotenv(variables) == [state |-> "parsed", variables |-> variables]

Entries ==
  {Entry("scalar", Text("3000")), Entry("scalar", Variable("PORT")),
   Entry("array", <<Text("GET"), Variable("VERB")>>), Entry("datetime", Text("2026"))}
Settable == {Text("8080"), Variable("PORT"), Variable("VERB")}
Partial(keys, values) == UNION {[some -> values] : some \in SUBSET keys}
TwoKeys == {"server.port", "server.cors.methods"}

ConfigCases ==
  {[files |-> [toml |-> toml, dotenv |-> dotenv],
    process |-> [settings |-> settings, variables |-> variables]] :
     toml \in {Absent, [state |-> "malformed"]}
                \cup {Toml(entries, {"server"}) : entries \in Partial(TwoKeys, Entries)},
     dotenv \in {Absent, [state |-> "malformed"], Dotenv([PORT |-> "1", VERB |-> "put"])},
     settings \in Partial(TwoKeys, Settable),
     variables \in Partial({"PORT"}, {"2"})}

Cors(entries) ==
  entries @@ ("server.cors.origins" :> Entry("scalar", Text("*")))
          @@ ("server.cors.methods" :> Entry("array", <<Text("GET")>>))
CorsSettings ==
  {<<>>, Cors(<<>>), Cors("server.cors.credentials" :> Entry("scalar", Text("true"))),
   Cors(("server.cors.credentials" :> Entry("scalar", Text("true")))
        @@ ("server.cors.origins" :> Entry("array", <<Text("https://a")>>))
        @@ ("server.cors.allowed_headers" :> Entry("scalar", Text("*")))),
   Cors("server.cors.max_age_seconds" :> Entry("scalar", Text("600")))}

Database(migrate) == ("database.url" :> Entry("scalar", Text("postgres://db")))
                       @@ ("database.migrate" :> Entry("scalar", Text(migrate)))
Passport == "passport.secret" :> Entry("scalar", Text("0123456789abcdef0123456789abcdef"))

SettingCases ==
  {[files |-> [toml |-> Toml(cors @@ passport @@ database, tables), dotenv |-> Absent],
    process |-> [settings |-> settings, variables |-> <<>>]] :
     cors \in CorsSettings, passport \in {<<>>, Passport},
     database \in {<<>>, Database("false"), Database("true")},
     tables \in {{"server.cors"}, {}},
     settings \in {<<>>, "server.port" :> Text("0"), "server.cors.methods" :> Text("GET")}}
  \cup {[files |-> [toml |-> [state |-> "malformed"], dotenv |-> Absent],
         process |-> [settings |-> <<>>, variables |-> <<>>]]}

Applications ==
  {[root |-> root, graph |-> graph, routes |-> web[1], guards |-> web[2],
    needs |-> needs, owns |-> owns, constructs |-> TRUE] :
     root \in BOOLEAN, graph \in BOOLEAN,
     web \in {<<"none", "none">>} \cup {"valid", "invalid"} \X {"none", "valid", "invalid"},
     needs \in SUBSET {"jwt", "database"}, owns \in {{}, {"jwt"}, {"database"}}}

InspectionCases ==
  {[app |-> app, case |-> case] : app \in Applications, case \in SettingCases}

-----------------------------------------------------------------------------
(***************************************************************************)
(* The command line: every sequence of up to four arguments in a           *)
(* workspace, and selectors in many; and files of a workspace, some of     *)
(* whose packages the selected application does not depend on.             *)
(***************************************************************************)
Package(name, root, binaries, default_run, dependencies) ==
  [name |-> name, root |-> root, local |-> root[1] = "ws", binaries |-> binaries,
   default_run |-> default_run, dependencies |-> dependencies]

Workspace(packages, here) ==
  LET members == {id \in DOMAIN packages : packages[id].local}
  IN  [packages |-> packages, members |-> members, default_members |-> members,
       here |-> here, workspace_root |-> <<"ws">>]

AppRoot == <<"ws", "app">>
ToolRoot == <<"ws", "app", "tool">>
LibRoot == <<"ws", "lib">>

TargetProject(ids, binaries, default_run, here) ==
  Workspace([id \in ids |-> IF id = "app" THEN Package("app", AppRoot, binaries, default_run, {})
                            ELSE Package("tool", ToolRoot, {"app"}, NoName, {"app"})], here)

TargetProjects ==
  {TargetProject(ids, binaries, default_run, here) :
     ids \in {{"app"}, {"app", "tool"}}, binaries \in SUBSET {"app", "web"},
     default_run \in {NoName, "app"}, here \in {NoName, "app"}}

\* Cargo reports the library of the package before its binary.
Executables == [app |-> [app |-> "app/app", web |-> "app/web"],
                tool |-> [app |-> "tool/app", web |-> "tool/web"]]
Made(package, binary) == Executables[package][binary]
Artifact(package, target, executable) ==
  [reason |-> "compiler-artifact", package |-> package, target |-> target,
   executable |-> executable]
Finished(success) == [reason |-> "build-finished", success |-> success]

Builds(success) ==
  [application \in [package : {"app", "tool"}, binary : {"app", "web"}] |->
     [status |-> IF success THEN 0 ELSE 101,
      messages |->
        <<Artifact(application.package, application.package, NoName)>>
          \o (IF success
              THEN <<Artifact(application.package, application.binary,
                              Made(application.package, application.binary)),
                     Artifact(application.package, application.binary, NoName)>>
              ELSE <<>>)
          \o <<Finished(success)>>]]

Words == {"--", "-p", "--package", "--bin", "--help", "app", "\\xff"}
Lines == UNION {[1 .. n -> Words] : n \in 0 .. 4}
TwoMembers == Workspace([app |-> Package("app", AppRoot, {"app", "web"}, NoName, {}),
                         tool |-> Package("tool", ToolRoot, {"app"}, NoName, {})], NoName)
Selections == {<<>>, <<"-p", "app">>, <<"-p", "tool">>, <<"-p", "none such">>, <<"--bin", "web">>,
               <<"--bin", "app", "-p", "tool">>, <<"-p", "app", "--bin", "app", "--", "--bin">>}

CommandCases ==
  [command : {"run", "doctor", "db migrate", "server"}, arguments : Lines,
   project : {TwoMembers}, success : {TRUE}, outcome : {0}]
  \cup [command : {"run", "dev", "graph", "db rollback"}, arguments : Selections,
        project : TargetProjects, success : BOOLEAN, outcome : {0, 3, 256}]

FileNames == {"main.rs", "main.rs~", "Cargo.toml", "Cargo.lock", "mads.toml", "up.sql"}
Folders == {<<"ws">>, AppRoot, ToolRoot, LibRoot, <<"ws", "app", "src">>,
            <<"ws", "app", "tool", "src">>, <<"ws", "lib", "src">>,
            <<"ws", "app", "migrations", "1">>, <<"ws", "app", "target">>,
            <<"ws", "lib", "migrations", "1">>, <<"cargo", "dep", "src">>}
Files == {Append(folder, file) : folder \in Folders, file \in FileNames}

\* A workspace with or without a package of its own at its root.
WatchProject(ids, app_needs, tool_needs) ==
  LET packages == [app |-> Package("app", AppRoot, {"app"}, NoName, app_needs),
                   tool |-> Package("tool", ToolRoot, {"tool"}, NoName, tool_needs),
                   lib |-> Package("lib", LibRoot, {}, NoName, {"dep"}),
                   dep |-> Package("dep", <<"cargo", "dep">>, {}, NoName, {}),
                   whole |-> Package("whole", <<"ws">>, {"whole"}, NoName, {"app"})]
  IN  Workspace([id \in ids |-> packages[id]], NoName)

WatchProjects ==
  {WatchProject({"app", "tool", "lib", "dep"} \cup root, app_needs, tool_needs) :
     root \in {{}, {"whole"}},
     app_needs \in SUBSET {"lib", "tool"}, tool_needs \in SUBSET {"lib", "app"}}

WatchCases ==
  {[project |-> project, package |-> package,
    event |-> [kind |-> kind, paths |-> {path, also}]] :
     project \in {p \in WatchProjects :
                    ~("tool" \in p.packages["app"].dependencies
                        /\ "app" \in p.packages["tool"].dependencies)},
     package \in {"app", "tool"}, kind \in {"Modify", "Access"},
     path \in Files, also \in {<<"ws", "app", "mads.toml">>, <<"ws", "app", "src", "main.rs">>,
                               <<"ws", "lib", "README.md">>}}

-----------------------------------------------------------------------------
Init ==
  /\ topic = "none"
  /\ input = <<>>

AskDiff ==
  \E case \in DiffCases : topic' = "diff" /\ input' = case

AskToken ==
  \E case \in TokenCases : topic' = "token" /\ input' = case

AskConfig ==
  \E case \in ConfigCases : topic' = "config" /\ input' = case

AskInspection ==
  \E case \in InspectionCases : topic' = "inspection" /\ input' = case

AskCommand ==
  \E case \in CommandCases : topic' = "command" /\ input' = case

AskWatch ==
  \E case \in WatchCases : topic' = "watch" /\ input' = case

Next ==
  /\ topic = "none"
  /\ AskDiff \/ AskToken \/ AskConfig \/ AskInspection \/ AskCommand \/ AskWatch

Spec == Init /\ [][Next]_vars

-----------------------------------------------------------------------------
Desired == DesiredSchema(input.files)
LiveNow == LiveTables(input.database, Namespaces(Desired))
KeysNow == LiveForeignKeys(input.database, Namespaces(Desired))
PlannedUp == Up(LiveNow, Desired, KeysNow)

Planned ==
  /\ topic = "diff"
  /\ LoadAccepted(input.files)
  /\ CatalogAccepted(input.database, Namespaces(Desired))
  /\ PlanAccepted(LiveNow, Desired, KeysNow)

\* References the planner cannot see: from namespaces nothing declared is in.
ForeignToPlan == input.database.foreign_keys \ KeysNow

\* Declared as PostgreSQL will report it: not a char without a length, an array
\* of arrays or a nullable column of the primary key.
Storable ==
  \A name \in DOMAIN Desired : Stored(Desired[name]) = Desired[name]

\* A migration that is planned does what it was generated for, on empty tables
\* and columns nothing else depends on: up.sql succeeds on the captured database unless one of its warnings is of a
\* change to a type that the old one has no cast to.  If it succeeds, generating
\* again from the result plans nothing, tables of other namespaces are as they
\* were, and down.sql, which fails only for want of a cast back and then had the
\* same warning, restores the captured shape.  Left out are tables that another,
\* undeclared namespace refers to, whose drop fails; and declarations
\* PostgreSQL stores as something else, which are planned again each time
\* (diff.rs, plan_tables_ref and Operation::inverse; sql.rs, render_operation;
\* catalog.rs, snapshot_from_rows).
MigrationsAreExact ==
  Planned /\ Storable /\ ForeignToPlan = {} /\ Independent(PlannedUp, input.database, KeysNow) =>
    LET tables == input.database.tables
        after  == States(PlannedUp, tables, input.database.foreign_keys)
        left   == {key \in input.database.foreign_keys :
                     {key.child, key.parent} \subseteq DOMAIN after.tables}
        back   == States(Down(PlannedUp), after.tables, left)
        database == [input.database EXCEPT !.tables = after.tables]
        retyped == {w.of : w \in {v \in StepWarnings(PlannedUp) : v.of.kind = "AlterType"}}
    IN  /\ after.ok <=> \A op \in retyped : CastExists(op.from, op.to)
        /\ after.ok =>
             /\ Up(LiveTables(database, Namespaces(Desired)), Desired, left) = <<>>
             /\ \A name \in DOMAIN tables :
                  name[1] \notin Namespaces(Desired) => after.tables[name] = tables[name]
             /\ back.ok <=> \A op \in retyped : CastExists(op.to, op.from)
             /\ back.ok => Shape(back.tables) = Shape(tables)

\* Nothing that is lost or touched goes unmentioned: a column that is gone or
\* of another type afterwards has a warning of its own, and so has every check,
\* trigger or foreign key whose columns, table or parent the migration changes
\* (diff.rs, the warnings of plan_tables_ref and unsupported_warnings).
LossesAreWarned ==
  Planned /\ ForeignToPlan = {} =>
    LET before == Shape(input.database.tables)
        after  == Shape(States(PlannedUp, input.database.tables, KeysNow).tables)
        Column(shape, name, c) == {column \in shape[name].columns : column.name = c}
        Changed(name, c) == name \notin DOMAIN after \/ Column(before, name, c) # Column(after, name, c)
        OfType(shape, name, c) == {column.type : column \in Column(shape, name, c)}
        Lost(name, c) == OfType(before, name, c) # {} /\
                         (name \notin DOMAIN after \/ OfType(after, name, c) # OfType(before, name, c))
        objects == ObjectWarnings(PlannedUp, LiveUnsupported(input.database, Namespaces(Desired)), KeysNow)
    IN  /\ \A name \in DOMAIN before : \A c \in {"id", "a", "b"} :
             Lost(name, c) => \E w \in StepWarnings(PlannedUp) :
               /\ w.of.name = name
               /\ \/ w.of.kind = "DropTable"
                  \/ w.of.kind \in {"DropColumn", "AlterType"} /\ ColumnTouched(w.of) = c
        /\ \A object \in input.database.objects :
             \/ object.table \notin DOMAIN before
             \/ object.columns = {} /\ object.table \in DOMAIN after
                  /\ after[object.table] = before[object.table]
             \/ object.columns # {} /\ \A c \in object.columns : ~Changed(object.table, c)
             \/ \E w \in objects : w.about = "object" /\ w.of = object
        /\ \A key \in KeysNow :
             key.parent \in DOMAIN before
               /\ (key.parent \notin DOMAIN after \/ after[key.parent] # before[key.parent])
             => \E w \in objects : w.about = "foreign key" /\ w.of = key

-----------------------------------------------------------------------------
\* A token outlives the rotation of the key that signed it for as long as that
\* key is configured, and no longer: it verifies exactly when the ring still
\* has its key, of the same algorithm, under its key id, it is of the kind asked
\* for, the clock, give or take the skew, is between its not-before and its
\* expiry, and issuer and audience are still the ones expected (service.rs,
\* sign and verify; keyring.rs; README.md, "all retained keys verify by kid").
RotationKeepsTokens ==
  topic = "token"
    /\ ConfigAccepted(input.old) /\ ConfigAccepted(input.new)
    /\ Signs(input.old, input.options, input.signed_at) =>
    LET old    == input.old
        new    == input.new
        token  == Sign(old, input.options, input.signed_at)
        signer == ActiveSigner(old)
        kept   == IF Named(new)
                  THEN /\ signer.key_id \in DOMAIN new.keys
                       /\ new.keys[signer.key_id].algorithm = signer.algorithm
                       /\ VerifyingMaterial(new.keys[signer.key_id]) = signer.material
                  ELSE new.secret.material = signer.material
                         /\ SimpleAlgorithms(new)[1] = signer.algorithm
    IN  Verifies(new, token, input.validation, input.read_at) <=>
          /\ kept
          /\ input.options.kind = input.validation.kind
          /\ input.read_at < input.signed_at + input.options.lifetime + new.clock_skew
          /\ input.options.not_before - new.clock_skew <= input.read_at
          /\ new.issuer \in {None, old.issuer}
          /\ new.audiences = {} \/ new.audiences \cap old.audiences # {}
          /\ input.options.size <= new.max_token_bytes

-----------------------------------------------------------------------------
\* What a key ends up as: the value of the last source that sets it, in the
\* shape it has there, with the variables of the process before those of the
\* dotenv file.  Loading fails for a file that is not understood and for a
\* variable that is missed, but never for one that a later source has
\* overridden (config.rs, build_with_environment; README.md, "ordinary sources
\* merge from first to last").
LaterSourcesWin ==
  topic = "config" =>
    LET files   == input.files
        process == input.process
        config  == LoadedConfig(files, process)
        toml    == IF files.toml.state = "parsed" THEN files.toml.entries ELSE <<>>
        dotenv  == IF files.dotenv.state = "parsed" THEN files.dotenv.variables ELSE <<>>
        set     == process.settings
        Known(v)  == v.variable => v.text \in DOMAIN process.variables \cup DOMAIN dotenv
        Value(v)  == IF ~v.variable THEN v.text
                     ELSE IF v.text \in DOMAIN process.variables
                          THEN process.variables[v.text] ELSE dotenv[v.text]
        kept    == DOMAIN toml \ DOMAIN set
        readable == /\ files.toml.state # "malformed" /\ files.dotenv.state # "malformed"
                    /\ \A key \in DOMAIN toml : toml[key].kind # "datetime"
    IN  /\ ConfigLoads(files, process) <=>
             /\ readable
             /\ \A key \in DOMAIN set : Known(set[key])
             /\ \A key \in kept :
                  IF toml[key].kind = "array"
                  THEN \A i \in DOMAIN toml[key].value : Known(toml[key].value[i])
                  ELSE Known(toml[key].value)
        /\ ConfigLoads(files, process) =>
             /\ \A key \in TwoKeys :
                  /\ HasArray(config, key) <=> key \in kept /\ toml[key].kind = "array"
                  /\ HasScalar(config, key) <=>
                       key \in DOMAIN set \/ (key \in kept /\ toml[key].kind = "scalar")
             /\ \A key \in DOMAIN set :
                  config.scalars[key] = [value |-> Value(set[key]), origin |-> "environment"]
             /\ \A key \in kept :
                  IF toml[key].kind = "array"
                  THEN ArrayOf(config, key) = [i \in DOMAIN toml[key].value |-> Value(toml[key].value[i])]
                  ELSE config.scalars[key] = [value |-> Value(toml[key].value), origin |-> "mads.toml"]

\* The inspection foretells the standard run: an application that mads doctor
\* finds no fault with is prepared to serve, without a panic, if it has a route
\* and its constructors succeed, and one it finds a fault with is refused
\* (inspection.rs, inspect_standard_application; server.rs,
\* prepare_standard_run).
InspectionForetellsRun ==
  topic = "inspection" =>
    LET app == input.app
        report == Inspect(app, input.case.files, input.case.process)
    IN  app.routes # "none" =>
          (StandardRunPrepares(app, input.case.files, input.case.process) <=> ~report.failed)

\* A row of mads doctor that FAILED comes with a diagnostic, and a diagnostic
\* with a row that FAILED, wherever the fault was found and whatever it kept
\* from being analyzed (inspection.rs, doctor_checks; docs/CLI.md, "FAILED is
\* accompanied by a diagnostic").
FailuresAreDiagnosed ==
  topic = "inspection" =>
    LET report == Inspect(input.app, input.case.files, input.case.process)
    IN  /\ (\E group \in DOMAIN report.checks : report.checks[group] = "FAILED")
             <=> report.diagnostics # {}
        /\ report.failed <=> report.diagnostics # {}
-----------------------------------------------------------------------------
\* Where the first `--` of a line is, the options before it, and their values.
Breaks(words) == {i \in DOMAIN words : words[i] = "--"}
Break(words) ==
  IF Breaks(words) = {} THEN Len(words) + 1
  ELSE CHOOSE i \in Breaks(words) : \A j \in Breaks(words) : i <= j
OptionPlaces(words) == {i \in 1 .. Break(words) - 1 : i % 2 = 1}
PackageOptions(words) == {i \in OptionPlaces(words) : words[i] \in {"-p", "--package"}}
BinaryOptions(words) == {i \in OptionPlaces(words) : words[i] = "--bin"}
ValueOf(words, positions) == words[(CHOOSE i \in positions : TRUE) + 1]

Syntax(command, words) ==
  /\ command # "server"
  /\ (Break(words) - 1) % 2 = 0
  /\ OptionPlaces(words) = PackageOptions(words) \cup BinaryOptions(words)
  /\ Cardinality(PackageOptions(words)) <= 1 /\ Cardinality(BinaryOptions(words)) <= 1
  /\ \A i \in OptionPlaces(words) :
       words[i + 1] \notin {"-p", "--package", "--bin", "--help", "\\xff"}
  /\ Breaks(words) # {} => command \in {"run", "dev"}
  /\ BinaryOptions(words) # {} => command \in {"run", "dev", "doctor", "graph"}

\* The packages a line may mean, and the binaries of them.
MeantPackages(project, words) ==
  LET packages == PackageOptions(words)
  IN  {id \in project.members :
         IF packages # {} THEN project.packages[id].name = ValueOf(words, packages)
         ELSE project.here = NoName \/ project.here = id}

MeantTargets(project, words) ==
  LET binaries == BinaryOptions(words)
  IN  {t \in MeantPackages(project, words) \X {"app", "web"} :
         LET package == project.packages[t[1]]
         IN  /\ t[2] \in package.binaries
             /\ IF binaries # {} THEN t[2] = ValueOf(words, binaries)
                ELSE package.default_run \in {NoName, t[2]}}

\* A command acts on exactly the target it names, or on the only one there is:
\* its selectors come in pairs before the first `--`, each at most once, all that
\* follows `--` reaches the application as it is, an ambiguous package or binary
\* is an error, a process is started exactly when its executable has been built,
\* and the exit code is 2 for the wrong syntax, the application's own for `run`,
\* and 0 only for what has succeeded (command.rs, project.rs, cargo.rs, lib.rs;
\* docs/CLI.md, "Exit status").
CommandReachesItsTarget ==
  topic = "command" =>
    LET command  == input.command
        words    == input.arguments
        chosen   == MeantPackages(input.project, words)
        targets  == MeantTargets(input.project, words)
        clear    == Cardinality(chosen) = 1 /\ Cardinality(targets) = 1
        result   == Outcome(command, words, input.project, Builds(input.success), input.outcome)
        starts   == clear /\ input.success /\ command \in {"run", "doctor", "graph"}
        ready    == \/ starts
                    \/ command = "dev" /\ clear
                    \/ command \in {"db migrate", "db rollback"} /\ Cardinality(chosen) = 1
        correct  == Syntax(command, words)
    IN  /\ ~correct => result = Exit(2, NoProcess)
        /\ correct /\ starts => \E t \in targets :
             result.process = [executable |-> Made(t[1], t[2]),
                               arguments |-> SubSeq(words, Break(words) + 1, Len(words))]
        /\ correct /\ ~starts => result.process = NoProcess
        /\ correct => result.code = IF ready /\ (input.outcome = 0 \/ (command = "run" /\ input.outcome = 3))
                                    THEN input.outcome ELSE 1

\* The packages another one needs, directly or not.
Closed(project, ids) == \A id \in ids : project.packages[id].dependencies \subseteq ids
NeededBy(project, package) ==
  {id \in DOMAIN project.packages :
     \A some \in SUBSET DOMAIN project.packages :
       package \in some /\ Closed(project, some) => id \in some}

\* A file belongs to the deepest package above it.
Holds(project, id, path) ==
  project.packages[id].local /\ IsPrefix(project.packages[id].root, path)
Belongs(project, id, path) ==
  /\ Holds(project, id, path)
  /\ \A other \in DOMAIN project.packages :
       Holds(project, other, path)
         => IsPrefix(project.packages[other].root, project.packages[id].root)

\* What a build reads: sources, manifests, the workspace's Cargo files and the
\* migrations the application embeds.
BuildReads(project, package, path) ==
  LET packages == project.packages
      needed   == NeededBy(project, package)
  IN  \/ Last(path) = "main.rs" /\ \E id \in needed : Belongs(project, id, path)
      \/ \E id \in needed : path = Append(packages[id].root, "Cargo.toml") /\ packages[id].local
      \/ /\ Front(path) = <<"ws">> /\ Last(path) \in {"Cargo.toml", "Cargo.lock"}
         /\ \A id \in DOMAIN packages \ needed : ~Belongs(project, id, path)
      \/ /\ Belongs(project, package, path)
         /\ path[Len(packages[package].root) + 1] = "migrations"

\* What is neither made by a build nor by an editor.
Relevant(path) == Last(path) # "main.rs~" /\ \A i \in DOMAIN path : path[i] # "target"

\* mads dev builds again exactly when Cargo would: for a change to a source or
\* the manifest of a package the application needs, which the deepest package
\* above the file decides, to the workspace's Cargo files or to the migrations
\* it embeds, and restarts for its configuration; whatever it reacts to, it is
\* told of (watch.rs, classify_event, owning_root, for_application; project.rs,
\* local_watch_roots).  The Cargo files of a workspace whose root package is not
\* needed are left out: the next property is about them.
WatchFollowsBuild ==
  topic = "watch" =>
    LET project  == input.project
        watch    == WatchSet(project, input.package)
        reacts   == {path \in input.event.paths :
                       Relevant(path) /\ BuildReads(project, input.package, path)}
        restarts == {path \in input.event.paths :
                       path = Append(project.packages[input.package].root, "mads.toml")}
    IN  /\ ClassifyEvent(watch, input.event) =
             IF input.event.kind = "Access" THEN "None"
             ELSE IF reacts # {} THEN "Rebuild"
             ELSE IF restarts # {} THEN "Restart" ELSE "None"
        /\ \A path \in reacts \cup restarts : Reported(watch, path)

\* The workspace's Cargo.toml and Cargo.lock are relevant to every application
\* of the workspace (docs/CLI.md, "Cargo.lock ... participate in the watch set").
CargoFilesAreWatched ==
  topic = "watch" =>
    \A file \in {"Cargo.toml", "Cargo.lock"} :
      Classify(WatchSet(input.project, input.package), <<"ws", file>>) = "Rebuild"

\* What an inspection reports is true: of the run it stands for, and of itself.
InspectionIsTruthful == InspectionForetellsRun /\ FailuresAreDiagnosed

=============================================================================
