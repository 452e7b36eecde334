---------------------------- MODULE CommandLine ----------------------------
(***************************************************************************)
(* The mads command line (mads-cli): what the arguments ask for            *)
(* (command.rs), the package and binary of the Cargo project they select   *)
(* (project.rs), the executable found in Cargo's output (cargo.rs), the    *)
(* exit code (lib.rs), and which files mads dev watches for the selected   *)
(* application (watch.rs).                                                 *)
(*                                                                         *)
(* A path is the sequence of its components.  Cargo's metadata is a        *)
(* record: the packages, which of them are local and members of the        *)
(* workspace, the default members, and the package of the directory mads   *)
(* was invoked in, if it is one.                                           *)
(***************************************************************************)
EXTENDS SequencesExt

NoName == "none"

\* Arguments that are not what they name: options start with a dash.
Dashed == {"--", "--package", "-p", "--bin", "--help"}
NotUnicode == {"\\xff"}

-----------------------------------------------------------------------------
(***************************************************************************)
(* command.rs.                                                             *)
(***************************************************************************)
ApplicationCommands == {"run", "dev"}
InspectionCommands == {"routes", "graph", "doctor"}
DatabaseCommands == {"db generate", "db migrate", "db rollback", "db status", "db --help"}
TargetCommands == ApplicationCommands \cup InspectionCommands

Fresh == [ok |-> TRUE, package |-> NoName, binary |-> NoName,
          awaiting |-> NoName, ended |-> FALSE, arguments |-> <<>>]

\* Which selector an option names, for a command that has it.
Selector(command, argument) ==
  CASE argument \in {"--package", "-p"} -> "package"
    [] argument = "--bin" /\ command \in TargetCommands -> "binary"
    [] OTHER -> NoName

\* Seeded fault: a selector given twice is replaced.
ReadAgain(command, parsed, argument) ==
  LET selector == Selector(command, argument)
  IN  IF ~parsed.ok THEN parsed
      ELSE IF parsed.ended THEN [parsed EXCEPT !.arguments = Append(@, argument)]
      ELSE IF parsed.awaiting # NoName
           THEN IF argument \in Dashed \cup NotUnicode THEN [parsed EXCEPT !.ok = FALSE]
                ELSE [parsed EXCEPT ![parsed.awaiting] = argument, !.awaiting = NoName]
      ELSE IF argument = "--" /\ command \in ApplicationCommands
           THEN [parsed EXCEPT !.ended = TRUE]
      ELSE IF selector # NoName THEN [parsed EXCEPT !.awaiting = selector]
      ELSE [parsed EXCEPT !.ok = FALSE]

\* One argument: past `--` it is the application's; a selector may be given
\* once and takes the next argument, which must not look like an option.
Read(command, parsed, argument) ==
  LET selector == Selector(command, argument)
  IN  IF ~parsed.ok THEN parsed
      ELSE IF parsed.ended THEN [parsed EXCEPT !.arguments = Append(@, argument)]
      ELSE IF parsed.awaiting # NoName
           THEN IF argument \in Dashed \cup NotUnicode THEN [parsed EXCEPT !.ok = FALSE]
                ELSE [parsed EXCEPT ![parsed.awaiting] = argument, !.awaiting = NoName]
      ELSE IF argument = "--" /\ command \in ApplicationCommands
           THEN [parsed EXCEPT !.ended = TRUE]
      ELSE IF selector # NoName /\ parsed[selector] = NoName
           THEN [parsed EXCEPT !.awaiting = selector]
      ELSE [parsed EXCEPT !.ok = FALSE]

Parsed(command, arguments) ==
  FoldLeft(LAMBDA parsed, argument : Read(command, parsed, argument), Fresh, arguments)

ParseAccepted(command, arguments) ==
  /\ command \in TargetCommands \cup DatabaseCommands
  /\ Parsed(command, arguments).ok
  /\ Parsed(command, arguments).awaiting = NoName

-----------------------------------------------------------------------------
(***************************************************************************)
(* project.rs.  Package names are unique within a workspace.               *)
(***************************************************************************)
NamedMembers(project, name) == {id \in project.members : project.packages[id].name = name}

PackageAccepted(project, name) ==
  IF name # NoName THEN NamedMembers(project, name) # {}
  ELSE project.here # NoName \/ Cardinality(project.default_members) = 1

ResolvePackage(project, name) ==
  IF name # NoName THEN CHOOSE id \in NamedMembers(project, name) : TRUE
  ELSE IF project.here # NoName THEN project.here
  ELSE CHOOSE id \in project.default_members : TRUE

BinaryAccepted(package, binary) ==
  IF binary # NoName THEN binary \in package.binaries
  ELSE IF package.default_run # NoName THEN package.default_run \in package.binaries
  ELSE Cardinality(package.binaries) = 1

ResolveBinary(package, binary) ==
  IF binary # NoName THEN binary
  ELSE IF package.default_run # NoName THEN package.default_run
  ELSE CHOOSE only \in package.binaries : TRUE

ApplicationAccepted(project, target) ==
  /\ PackageAccepted(project, target.package)
  /\ BinaryAccepted(project.packages[ResolvePackage(project, target.package)], target.binary)

ResolveApplication(project, target) ==
  LET id == ResolvePackage(project, target.package)
  IN  [package |-> id, binary |-> ResolveBinary(project.packages[id], target.binary)]

\* Every kind of dependency is followed (Cargo always resolves them).
WithDependencies(project, ids) ==
  ids \cup UNION {project.packages[known].dependencies : known \in ids}
Reachable(project, id) ==
  FoldLeft(LAMBDA ids, known : WithDependencies(project, ids), {id},
           SetToSeq(DOMAIN project.packages))

LocalRoots(project, ids) ==
  {project.packages[id].root : id \in {known \in ids : project.packages[known].local}}

WatchedPackages(project, id) ==
  LocalRoots(project, Reachable(project, id)) \cup {project.packages[id].root}

-----------------------------------------------------------------------------
(***************************************************************************)
(* cargo.rs.  Cargo reports the artifacts it made and whether it was       *)
(* successful; the last word counts.                                       *)
(***************************************************************************)
NothingCollected == [executable |-> NoName, successful |-> FALSE]

\* A library has no executable and does not undo what was found.
Collect(application, collected, message) ==
  IF message.reason = "build-finished" THEN [collected EXCEPT !.successful = message.success]
  ELSE IF /\ message.package = application.package
          /\ message.target = application.binary
          /\ message.executable # NoName
       THEN [collected EXCEPT !.executable = message.executable]
       ELSE collected

Collected(application, messages) ==
  FoldLeft(LAMBDA collected, message : Collect(application, collected, message),
           NothingCollected, messages)

\* Cargo itself exits without success, or says so, or makes no such binary.
BuildSucceeds(application, build) ==
  /\ build.status = 0
  /\ Collected(application, build.messages).successful
  /\ Collected(application, build.messages).executable # NoName

-----------------------------------------------------------------------------
(***************************************************************************)
(* lib.rs.  The code mads exits with, and for `run` what it has started:   *)
(* the executable and its arguments.                                       *)
(***************************************************************************)
NoProcess == [executable |-> NoName, arguments |-> <<>>]

Exit(code, process) == [code |-> code, process |-> process]
DoneIf(done) == Exit(IF done THEN 0 ELSE 1, NoProcess)

\* The result of `mads <command> <arguments>` in a project: builds gives what
\* Cargo makes of each application, and outcome how the application, the
\* inspection (0 unless its report failed), the supervisor or the database
\* command ends; a process killed by a signal has no ordinary code.
Outcome(command, arguments, project, builds, outcome) ==
  LET parsed == Parsed(command, arguments)
      application == ResolveApplication(project, parsed)
      build == builds[application]
      process == [executable |-> Collected(application, build.messages).executable,
                  arguments |-> parsed.arguments]
  IN  IF ~ParseAccepted(command, arguments) THEN Exit(2, NoProcess)
      ELSE IF command = "db --help" THEN DoneIf(TRUE)
      ELSE IF command \in DatabaseCommands
           THEN DoneIf(PackageAccepted(project, parsed.package) /\ outcome = 0)
      ELSE IF ~ApplicationAccepted(project, parsed) THEN DoneIf(FALSE)
      ELSE IF command = "dev" THEN DoneIf(outcome = 0)
      ELSE IF ~BuildSucceeds(application, build) THEN DoneIf(FALSE)
      ELSE IF command = "run" THEN Exit(IF outcome \in 0 .. 255 THEN outcome ELSE 1, process)
      ELSE Exit(IF outcome = 0 THEN 0 ELSE 1, process)

-----------------------------------------------------------------------------
(***************************************************************************)
(* watch.rs.                                                               *)
(***************************************************************************)
WatchSet(project, id) ==
  LET watched == WatchedPackages(project, id)
  IN  [workspace |-> project.workspace_root,
       package   |-> project.packages[id].root,
       local     |-> watched,
       excluded  |-> LocalRoots(project, DOMAIN project.packages) \ watched,
       recursive |-> watched,
       flat      |-> IF \E root \in watched : IsPrefix(root, project.workspace_root)
                     THEN {} ELSE {project.workspace_root}]

\* A file the operating system reports: a watched directory is above it.
Reported(watch, path) ==
  \/ \E root \in watch.recursive : IsPrefix(root, path)
  \/ Front(path) \in watch.flat

\* The package a file belongs to is the deepest one above it.
Owners(watch, path) == {root \in watch.local \cup watch.excluded : IsPrefix(root, path)}
Owner(watch, path) ==
  CHOOSE root \in Owners(watch, path) :
    \A other \in Owners(watch, path) : Len(other) <= Len(root)

\* Seeded fault: a file belongs to every package above it.
OwnerIsExcludedIfAny(watch, path) == Owners(watch, path) \cap watch.excluded # {}

OwnerIsExcluded(watch, path) ==
  Owners(watch, path) # {} /\ Owner(watch, path) \in watch.excluded

OwnerIsReachable(watch, path) ==
  Owners(watch, path) # {} /\ Owner(watch, path) \in watch.local

RustSources == {"main.rs", "lib.rs", "schema.rs"}
EditorFiles == {".DS_Store", "main.rs~", ".main.rs.swp"}

Ignored(path) == ToSet(path) \cap {"target", ".git"} # {} \/ Last(path) \in EditorFiles

RebuildPath(watch, path) ==
  \/ path \in {Append(watch.workspace, "Cargo.toml"), Append(watch.workspace, "Cargo.lock")}
  \/ OwnerIsReachable(watch, path) /\ Last(path) \in RustSources
  \/ /\ OwnerIsReachable(watch, path)
     /\ Last(path) = "Cargo.toml" /\ Front(path) = Owner(watch, path)
  \/ IsPrefix(Append(watch.package, "migrations"), path)
  \/ path = watch.package \o <<"src", "schema.rs">>
  \/ IsPrefix(watch.package \o <<"src", "schema">>, path)

Classify(watch, path) ==
  IF Ignored(path) \/ OwnerIsExcluded(watch, path) THEN "None"
  ELSE IF Front(path) = watch.package /\ Last(path) \in {".env", "mads.toml"} THEN "Restart"
  ELSE IF RebuildPath(watch, path) THEN "Rebuild" ELSE "None"

\* An event names several paths; the strongest impact counts.
ClassifyEvent(watch, event) ==
  LET impacts == {Classify(watch, path) : path \in event.paths}
  IN  IF event.kind \notin {"Create", "Modify", "Remove"} THEN "None"
      ELSE IF "Rebuild" \in impacts THEN "Rebuild"
      ELSE IF "Restart" \in impacts THEN "Restart" ELSE "None"
=============================================================================
