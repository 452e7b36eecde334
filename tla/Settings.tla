------------------------------ MODULE Settings ------------------------------
(***************************************************************************)
(* Configuration (mads-core config.rs), the automatic defaults of          *)
(* mads-common that read it (server_config.rs, cors.rs, jwt and database   *)
(* auto_configuration.rs), the standard run that serves with them          *)
(* (server.rs) and the inspection that foretells it (inspection.rs).       *)
(*                                                                         *)
(* A value is a text, or `${NAME}`, the name of a variable.  What a text   *)
(* parses to is its membership in one of the sets below.                   *)
(***************************************************************************)
EXTENDS SequencesExt

Text(text) == [variable |-> FALSE, text |-> text]
Variable(name) == [variable |-> TRUE, text |-> name]

Hosts == {"127.0.0.1", "localhost"}      \* addresses and valid host names
Ports == {"3000", "8080"}                \* 1..65535
Origins == {"https://a", "http://b:1"}   \* scheme, host and port, nothing else
Methods == {"GET", "get", "POST"}
HeaderNames == {"accept", "x-id"}
Numbers == Ports \cup {"0", "600"}
Urls == {"postgres://db"}
Secrets == {"0123456789abcdef0123456789abcdef"}

-----------------------------------------------------------------------------
(***************************************************************************)
(* config.rs.  A TOML document is its flattened entries and its tables.    *)
(***************************************************************************)
NoDocument == [scalars |-> <<>>, arrays |-> <<>>, tables |-> {}]
Absent == [state |-> "absent"]

\* Arrays of anything but strings, dates and inline tables are refused.
Unsupported(entry) == entry.kind \in {"mixed array", "datetime", "inline table"}

\* An optional file that is absent holds nothing.
TomlLoads(toml) ==
  \/ toml.state = "absent"
  \/ toml.state = "parsed" /\ \A key \in DOMAIN toml.entries : ~Unsupported(toml.entries[key])

TomlDocument(toml) ==
  IF toml.state = "absent" THEN NoDocument
  ELSE LET Keys(kind) == {key \in DOMAIN toml.entries : toml.entries[key].kind = kind}
       IN  [scalars |-> [key \in Keys("scalar") |-> toml.entries[key].value],
            arrays  |-> [key \in Keys("array") |-> toml.entries[key].value],
            tables  |-> toml.tables]

\* MADS_SERVER__PORT is server.port: only scalars, and no tables.
EnvironmentDocument(process) == [NoDocument EXCEPT !.scalars = process.settings]

Owned(values, origin) == [key \in DOMAIN values |-> [value |-> values[key], origin |-> origin]]
Without(values, keys) == [key \in DOMAIN values \ keys |-> values[key]]
Over(later, earlier) ==
  [key \in DOMAIN later \cup DOMAIN earlier |->
     IF key \in DOMAIN later THEN later[key] ELSE earlier[key]]

\* Seeded fault: a value of the other shape is left beside the new one.
MergeShapes(config, source) ==
  [scalars |-> Over(Owned(source.document.scalars, source.name), config.scalars),
   arrays  |-> Over(Owned(source.document.arrays, source.name), config.arrays),
   tables  |-> config.tables \cup source.document.tables]

\* A later value replaces an earlier one and its shape.
Merge(config, source) ==
  [scalars |-> Over(Owned(source.document.scalars, source.name),
                    Without(config.scalars, DOMAIN source.document.arrays)),
   arrays  |-> Over(Owned(source.document.arrays, source.name),
                    Without(config.arrays, DOMAIN source.document.scalars)),
   tables  |-> config.tables \cup source.document.tables]

\* The process overrides the dotenv file, which may be absent.
Variables(files, process) ==
  Over(process.variables, IF files.dotenv.state = "absent" THEN <<>> ELSE files.dotenv.variables)

\* Placeholders are resolved in what is left after merging.
Used(config) ==
  {config.scalars[key].value : key \in DOMAIN config.scalars}
    \cup UNION {ToSet(config.arrays[key].value) : key \in DOMAIN config.arrays}

Defined(value, variables) == value.variable => value.text \in DOMAIN variables
Resolved(value, variables) == IF value.variable THEN variables[value.text] ELSE value.text

Interpolated(config, variables) ==
  [scalars |-> [key \in DOMAIN config.scalars |->
                  [config.scalars[key] EXCEPT !.value = Resolved(@, variables)]],
   arrays  |-> [key \in DOMAIN config.arrays |->
                  [config.arrays[key] EXCEPT
                     !.value = [i \in DOMAIN @ |-> Resolved(@[i], variables)]]],
   tables  |-> config.tables]

\* `load_standard_config_from`: mads.toml, then the environment.
StandardSources(files, process) ==
  <<[name |-> "mads.toml", document |-> TomlDocument(files.toml)],
    [name |-> "environment", document |-> EnvironmentDocument(process)]>>

Merged(files, process) == FoldLeft(Merge, NoDocument, StandardSources(files, process))

ConfigLoads(files, process) ==
  /\ files.dotenv.state \in {"absent", "parsed"}
  /\ TomlLoads(files.toml)
  /\ \A value \in Used(Merged(files, process)) : Defined(value, Variables(files, process))

LoadedConfig(files, process) ==
  Interpolated(Merged(files, process), Variables(files, process))

HasScalar(config, key) == key \in DOMAIN config.scalars
HasArray(config, key) == key \in DOMAIN config.arrays
Scalar(config, key) == config.scalars[key].value
ArrayOf(config, key) == config.arrays[key].value

-----------------------------------------------------------------------------
(***************************************************************************)
(* The settings of the server and of CORS.                                 *)
(***************************************************************************)
ServerAccepted(config) ==
  /\ HasScalar(config, "server.host") => Scalar(config, "server.host") \in Hosts
  /\ HasScalar(config, "server.port") => Scalar(config, "server.port") \in Ports

CorsKeys == {"server.cors.origins", "server.cors.methods", "server.cors.allowed_headers",
             "server.cors.exposed_headers", "server.cors.credentials",
             "server.cors.max_age_seconds"}

CorsPresent(config) ==
  \/ "server.cors" \in config.tables
  \/ CorsKeys \cap (DOMAIN config.scalars \cup DOMAIN config.arrays) # {}

Wildcard(config, key) == HasScalar(config, key) /\ Scalar(config, key) = "*"

ListAccepted(config, key, valid) ==
  HasArray(config, key) /\ ToSet(ArrayOf(config, key)) \subseteq valid

WildcardOrList(config, key, valid, required) ==
  IF HasScalar(config, key) THEN Wildcard(config, key)
  ELSE IF HasArray(config, key)
       THEN ListAccepted(config, key, valid) /\ (required => ArrayOf(config, key) # <<>>)
       ELSE ~required

ScalarOr(config, key, valid) ==
  ~HasArray(config, key) /\ (HasScalar(config, key) => Scalar(config, key) \in valid)

Credentials(config) ==
  HasScalar(config, "server.cors.credentials") /\ Scalar(config, "server.cors.credentials") = "true"

\* Seeded fault: credentials are refused with any origin, but with any header allowed.
CorsAcceptedWithHeaders(config) ==
  /\ WildcardOrList(config, "server.cors.origins", Origins, TRUE)
  /\ ListAccepted(config, "server.cors.methods", Methods)
  /\ ArrayOf(config, "server.cors.methods") # <<>>
  /\ WildcardOrList(config, "server.cors.allowed_headers", HeaderNames, FALSE)
  /\ WildcardOrList(config, "server.cors.exposed_headers", HeaderNames, FALSE)
  /\ ScalarOr(config, "server.cors.credentials", {"true", "false"})
  /\ ScalarOr(config, "server.cors.max_age_seconds", Numbers)
  /\ Credentials(config) => ~Wildcard(config, "server.cors.origins")

CorsAccepted(config) ==
  /\ WildcardOrList(config, "server.cors.origins", Origins, TRUE)
  /\ ListAccepted(config, "server.cors.methods", Methods)
  /\ ArrayOf(config, "server.cors.methods") # <<>>
  /\ WildcardOrList(config, "server.cors.allowed_headers", HeaderNames, FALSE)
  /\ WildcardOrList(config, "server.cors.exposed_headers", HeaderNames, FALSE)
  /\ ScalarOr(config, "server.cors.credentials", {"true", "false"})
  /\ ScalarOr(config, "server.cors.max_age_seconds", Numbers)
  /\ Credentials(config) =>
       \A key \in {"server.cors.origins", "server.cors.allowed_headers",
                   "server.cors.exposed_headers"} : ~Wildcard(config, key)

\* tower-http refuses, by a panic, to answer credentials and a wildcard.
CorsLayerPanics(config) ==
  /\ Credentials(config)
  /\ \E key \in {"server.cors.origins", "server.cors.methods", "server.cors.allowed_headers",
                 "server.cors.exposed_headers"} : Wildcard(config, key)

-----------------------------------------------------------------------------
(***************************************************************************)
(* The four official defaults.  An application is what its catalog says:   *)
(* whether its module graph and its providers resolve, its routes and      *)
(* guards ("none", "valid", "invalid"), the services it needs, those it    *)
(* provides itself, and whether everything can be constructed.             *)
(***************************************************************************)
Official == {"server", "cors", "jwt", "database"}

ServerEvaluation(app, config, automatic) ==
  IF ~automatic THEN "overridden"                      \* explicit_listener
  ELSE IF app.routes = "none" THEN "skipped"
  ELSE IF ServerAccepted(config) THEN "active" ELSE "failed"

CorsEvaluation(app, config, automatic) ==
  IF ~CorsPresent(config) \/ (automatic /\ app.routes = "none") THEN "skipped"
  ELSE IF CorsAccepted(config) THEN "active" ELSE "failed"

\* Guards are requirements; their own problems fail the default first.
JwtEvaluation(app, config) ==
  IF app.guards = "invalid" THEN "failed"
  ELSE IF "jwt" \in app.owns THEN "overridden"
  ELSE IF "jwt" \notin app.needs /\ app.guards = "none" THEN "skipped"
  ELSE IF HasScalar(config, "passport.secret") /\ Scalar(config, "passport.secret") \in Secrets
       THEN "active" ELSE "failed"

DatabaseAccepted(config) ==
  /\ HasScalar(config, "database.url") /\ Scalar(config, "database.url") \in Urls
  /\ HasScalar(config, "database.migrate") =>
       Scalar(config, "database.migrate") \in {"true", "false"}

\* Neither the standard run nor the inspection embeds migrations.
DatabaseEvaluation(app, config) ==
  IF "database" \in app.owns THEN "overridden"
  ELSE IF "database" \notin app.needs THEN "skipped"
  ELSE IF /\ DatabaseAccepted(config)
          /\ HasScalar(config, "database.migrate") => Scalar(config, "database.migrate") = "false"
       THEN "active" ELSE "failed"

Evaluated(app, config, automatic) ==
  [default \in Official |->
     CASE default = "server"   -> ServerEvaluation(app, config, automatic)
       [] default = "cors"     -> CorsEvaluation(app, config, automatic)
       [] default = "jwt"      -> JwtEvaluation(app, config)
       [] default = "database" -> DatabaseEvaluation(app, config)]

\* `MadsBuilder::analyze` of a rooted builder; a module graph that is refused
\* leaves nothing else to analyze.
Analysis(app, config, automatic) ==
  IF ~app.root
  THEN [modules |-> FALSE, decisions |-> <<>>, diagnostics |-> {"modules"}]
  ELSE LET decisions == Evaluated(app, config, automatic)
       IN  [modules |-> TRUE, decisions |-> decisions,
            diagnostics |-> {default \in Official : decisions[default] = "failed"}
                              \cup (IF app.graph THEN {} ELSE {"providers"})]

PlanReady(analysis) == analysis.diagnostics = {}

-----------------------------------------------------------------------------
(***************************************************************************)
(* inspection.rs: the report and the checks of `mads doctor`.              *)
(***************************************************************************)
Group(decisions, defaults) ==
  LET statuses == {decisions[default] : default \in defaults \cap DOMAIN decisions}
  IN  IF "failed" \in statuses THEN "FAILED"
      ELSE IF "active" \in statuses THEN "PASS"
      ELSE IF "overridden" \in statuses THEN "OVERRIDDEN" ELSE "SKIPPED"

CheckFor(ok) == IF ok THEN "PASS" ELSE "FAILED"

DoctorChecks(config_ok, analysis, route_ok, guard_ok) ==
  [configuration |-> CheckFor(config_ok),
   modules       |-> CheckFor(analysis.modules),
   providers     |-> CheckFor(PlanReady(analysis)),
   routes        |-> CheckFor(route_ok),
   guards        |-> CheckFor(guard_ok),
   server        |-> Group(analysis.decisions, {"server", "cors"}),
   defaults      |-> Group(analysis.decisions, Official)]

\* A configuration that does not load is inspected as an empty one, and a
\* refused module graph as an application without routes.
Inspect(app, files, process) ==
  LET config_ok == ConfigLoads(files, process)
      config    == IF config_ok THEN LoadedConfig(files, process) ELSE NoDocument
      analysis  == Analysis(app, config, TRUE)
      route_ok  == analysis.modules => app.routes # "invalid"
      guard_ok  == analysis.modules => app.guards # "invalid"
      diagnostics == (IF config_ok THEN {} ELSE {"configuration"}) \cup analysis.diagnostics
                       \cup (IF route_ok THEN {} ELSE {"routes"})
                       \cup (IF guard_ok THEN {} ELSE {"guards"})
      checks    == DoctorChecks(config_ok, analysis, route_ok, guard_ok)
  IN  [checks |-> checks, diagnostics |-> diagnostics,
       failed |-> diagnostics # {} \/ "FAILED" \in {checks[group] : group \in DOMAIN checks}]

\* server.rs, `prepare_standard_run`: what Mads::run does before it binds.
StandardRunPrepares(app, files, process) ==
  /\ ConfigLoads(files, process)
  /\ LET config   == LoadedConfig(files, process)
         analysis == Analysis(app, config, TRUE)
     IN  /\ PlanReady(analysis)
         /\ app.constructs
         /\ app.routes = "valid" /\ app.guards # "invalid"
         /\ analysis.decisions["cors"] = "active" => ~CorsLayerPanics(config)
         /\ analysis.decisions["server"] = "active"
=============================================================================
