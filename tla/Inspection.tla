------------------------------ MODULE Inspection ------------------------------
(***************************************************************************)
(* The private inspection protocol behind `mads routes`, `graph` and       *)
(* `doctor`: the CLI starts the application it has built, which finds the  *)
(* request in its environment, publishes an acknowledgement and then a     *)
(* report as files of a private directory, and exits                       *)
(* (mads-cli/src/inspection.rs, mads-common/src/inspection.rs).            *)
(*                                                                         *)
(* The CLI polls: it looks for the file, then for the end of the child,    *)
(* then at the clock; the child moves between any two of these looks.      *)
(***************************************************************************)
EXTENDS Naturals

VARIABLES
  cli,       \* the next step of inspect_application
  late,      \* the deadline of the current phase has passed
  result,    \* what inspect_application returned
  directory, \* the private directory exists
  program,   \* what the user selected
  child,     \* the next step of the application process, or how it ended
  failure,   \* the application has failed to publish a file
  ack,       \* acknowledgement.json
  response,  \* response.json
  temporary  \* temporary files in the directory

cliVars == <<cli, late, result, directory>>
files == <<ack, response, temporary>>
inspectVars == <<cliVars, program, child, failure, files>>

(***************************************************************************)
(* The applications a target can name: one that uses no mads 0.7, one      *)
(* whose Mads::run speaks this transport, one whose Mads::run speaks       *)
(* another, one with an entry point of its own, and one that answers       *)
(* for itself.                                                             *)
(***************************************************************************)
Programs == {"unsupported", "standard", "other transport", "own entry", "hand written"}

\* What a file can hold: nothing readable, the expected answer, another one.
Contents == {"absent", "partial", "good", "wrong"}

Ended == {"succeeded", "crashed", "killed"}
Alive == {"starting", "acknowledging", "synced ack", "inspecting", "responding",
          "synced response", "removing", "after run"}

Looks == {"handshake file", "handshake child", "handshake clock", "report file",
          "report child", "report clock", "exit child", "exit clock"}
Results == {"pending", "report", "unsupported", "not started", "bad acknowledgement",
            "malformed", "exited", "no acknowledgement", "bad report", "no report",
            "failed exit", "no exit"}

InspectInit ==
  /\ cli = "prepare"
  /\ late = FALSE
  /\ result = "pending"
  /\ directory = FALSE
  /\ program \in Programs
  /\ child = "none"
  /\ failure = FALSE
  /\ ack = "absent"
  /\ response = "absent"
  /\ temporary = 0

-----------------------------------------------------------------------------
(***************************************************************************)
(* The CLI.                                                                *)
(***************************************************************************)
Fail(reason) == cli' = "terminate" /\ result' = reason

\* TempDir is dropped, with whatever is in it, when inspect_application returns.
RemoveDirectory ==
  /\ directory' = FALSE
  /\ ack' = "absent" /\ response' = "absent" /\ temporary' = 0

\* ensure_supported_mads_version, before anything is created.
Refuse ==
  /\ cli = "prepare"
  /\ program = "unsupported"
  /\ cli' = "returned" /\ result' = "unsupported"
  /\ UNCHANGED <<late, directory, program, child, failure, files>>

\* The directory, the token or the process cannot be made.
CannotStart ==
  /\ cli = "prepare"
  /\ program # "unsupported"
  /\ cli' = "returned" /\ result' = "not started"
  /\ UNCHANGED <<late, directory, program, child, failure, files>>

Start ==
  /\ cli = "prepare"
  /\ program # "unsupported"
  /\ cli' = "handshake file"
  /\ directory' = TRUE
  /\ child' = "starting"
  /\ UNCHANGED <<late, result, program, failure, files>>

\* The file is there: read_json, then the version and the token.
LookAtAcknowledgement ==
  /\ cli = "handshake file"
  /\ \/ ack = "absent" /\ cli' = "handshake child" /\ UNCHANGED <<late, result>>
     \/ ack = "partial" /\ Fail("malformed") /\ UNCHANGED late
     \/ ack = "wrong" /\ Fail("bad acknowledgement") /\ UNCHANGED late
     \/ ack = "good" /\ cli' = "report file" /\ late' = FALSE /\ UNCHANGED result
  /\ UNCHANGED <<directory, program, child, failure, files>>

\* The file is there: read_json, then the version, the token and the kind.
LookAtReport ==
  /\ cli = "report file"
  /\ \/ response = "absent" /\ cli' = "report child" /\ UNCHANGED result
     \/ response = "partial" /\ Fail("malformed")
     \/ response = "wrong" /\ Fail("bad report")
     \/ response = "good" /\ cli' = "exit child" /\ UNCHANGED result
  /\ UNCHANGED <<late, directory, program, child, failure, files>>

\* ensure_child_is_running.
LookAtChild ==
  /\ \E phase \in {<<"handshake child", "handshake clock">>, <<"report child", "report clock">>} :
       /\ cli = phase[1]
       /\ \/ child \in Ended /\ Fail("exited")
          \/ child \notin Ended /\ cli' = phase[2] /\ UNCHANGED result
  /\ UNCHANGED <<late, directory, program, child, failure, files>>

\* Seeded fault: the end of the child is waited for without a deadline.
AwaitExit ==
  /\ cli = "exit child"
  /\ \/ child = "succeeded" /\ cli' = "return" /\ result' = "report"
     \/ child = "crashed" /\ Fail("failed exit")
  /\ UNCHANGED <<late, directory, program, child, failure, files>>

\* wait_for_successful_exit, until the deadline of the report.
LookAtExit ==
  /\ cli = "exit child"
  /\ \/ child = "succeeded" /\ cli' = "return" /\ result' = "report"
     \/ child = "crashed" /\ Fail("failed exit")
     \/ child \notin Ended /\ cli' = "exit clock" /\ UNCHANGED result
  /\ UNCHANGED <<late, directory, program, child, failure, files>>

\* Instant::now() >= deadline, or sleep and look again.
LookAtClock ==
  /\ \E phase \in {<<"handshake clock", "handshake file", "no acknowledgement">>,
                   <<"report clock", "report file", "no report">>,
                   <<"exit clock", "exit child", "no exit">>} :
       /\ cli = phase[1]
       /\ \/ late /\ Fail(phase[3])
          \/ ~late /\ cli' = phase[2] /\ UNCHANGED result
  /\ UNCHANGED <<late, directory, program, child, failure, files>>

DeadlinePasses ==
  /\ cli \in Looks
  /\ ~late
  /\ late' = TRUE
  /\ UNCHANGED <<cli, result, directory, program, child, failure, files>>

\* Seeded fault: the child of a failed inspection is left to end by itself.
LeaveChild ==
  /\ cli = "terminate"
  /\ cli' = "return"
  /\ UNCHANGED <<late, result, directory, program, child, failure, files>>

\* terminate_child: kill what still runs, then wait for it.
TerminateChild ==
  /\ cli = "terminate"
  /\ cli' = "return"
  /\ child' = IF child \in Alive THEN "killed" ELSE child
  /\ UNCHANGED <<late, result, directory, program, failure, files>>

Return ==
  /\ cli = "return"
  /\ cli' = "returned"
  /\ RemoveDirectory
  /\ UNCHANGED <<late, result, program, child, failure>>

-----------------------------------------------------------------------------
(***************************************************************************)
(* The application. publish_atomic refuses an existing file, writes and    *)
(* syncs a temporary file, renames it without replacing another, and       *)
(* removes what it may have left.                                          *)
(***************************************************************************)
EndsAs(status) == child' = status

\* Mads::run finds a request it does not understand and returns the error.
RefuseRequest ==
  /\ program = "other transport"
  /\ child = "starting"
  /\ EndsAs("crashed")
  /\ UNCHANGED <<cliVars, program, failure, files>>

\* The existence check, the temporary file and its synchronized content.
WriteTemporary(file, from, to) ==
  /\ program = "standard"
  /\ child = from
  /\ LET exists == IF file = "ack" THEN ack # "absent" ELSE response # "absent" IN
     \/ ~exists /\ child' = to /\ temporary' = 1 /\ UNCHANGED failure
     \/ ~exists /\ child' = "removing" /\ temporary' \in {0, 1} /\ failure' = TRUE
     \/ exists /\ child' = "after run" /\ failure' = TRUE /\ UNCHANGED temporary
  /\ UNCHANGED <<ack, response>>

BeginAcknowledgement ==
  /\ WriteTemporary("ack", "starting", "synced ack")
  /\ UNCHANGED <<cliVars, program>>

RenameAcknowledgement ==
  /\ child = "synced ack"
  /\ \/ ack' = "good" /\ temporary' = 0 /\ child' = "inspecting" /\ UNCHANGED failure
     \/ child' = "removing" /\ failure' = TRUE /\ UNCHANGED <<ack, temporary>>
  /\ UNCHANGED <<cliVars, program, response>>

\* Seeded fault: the response is created under its own name, then written.
RespondInPlace ==
  /\ program = "standard"
  /\ child = "inspecting"
  /\ child' = "synced response"
  /\ response' = "partial"
  /\ UNCHANGED <<cliVars, program, failure, ack, temporary>>

\* inspect_standard_application, which ends whatever it finds.
BeginResponse ==
  /\ WriteTemporary("response", "inspecting", "synced response")
  /\ UNCHANGED <<cliVars, program>>

RenameResponse ==
  /\ child = "synced response"
  /\ \/ response' = "good" /\ temporary' = 0 /\ child' = "after run" /\ UNCHANGED failure
     \/ child' = "removing" /\ failure' = TRUE /\ UNCHANGED <<response, temporary>>
  /\ UNCHANGED <<cliVars, program, ack>>

\* The best-effort removal that follows a failed publication.
RemoveTemporary ==
  /\ child = "removing"
  /\ child' = "after run"
  /\ temporary' \in {0, temporary}
  /\ UNCHANGED <<cliVars, program, failure, ack, response>>

\* What main() does with the result of Mads::run is its own: return it, call
\* Mads::run again, or go on for ever.
ReturnFromMain ==
  /\ child = "after run"
  /\ \/ EndsAs(IF failure THEN "crashed" ELSE "succeeded")
     \/ EndsAs("crashed")
  /\ UNCHANGED <<cliVars, program, failure, files>>

RunAgain ==
  /\ child = "after run"
  /\ child' = "starting"
  /\ UNCHANGED <<cliVars, program, failure, files>>

\* A panic, a signal from elsewhere, an exit before Mads::run.
Crash ==
  /\ child \in Alive
  /\ EndsAs("crashed")
  /\ UNCHANGED <<cliVars, program, failure, files>>

\* An application that does not enter Mads::run.
OwnExit ==
  /\ program \in {"own entry", "hand written"}
  /\ child \in Alive
  /\ EndsAs("succeeded")
  /\ UNCHANGED <<cliVars, program, failure, files>>

HandWrite ==
  /\ program = "hand written"
  /\ child \in Alive
  /\ \/ ack' \in Contents \ {"absent"} /\ UNCHANGED response
     \/ response' \in Contents \ {"absent"} /\ UNCHANGED ack
  /\ UNCHANGED <<cliVars, program, child, failure, temporary>>

-----------------------------------------------------------------------------
Standard ==
  \/ BeginAcknowledgement \/ RenameAcknowledgement \/ BeginResponse \/ RenameResponse
  \/ RemoveTemporary \/ ReturnFromMain \/ RunAgain

Application == Standard \/ RefuseRequest \/ Crash \/ OwnExit \/ HandWrite

Cli ==
  \/ Refuse \/ CannotStart \/ Start
  \/ LookAtAcknowledgement \/ LookAtReport \/ LookAtChild \/ LookAtExit \/ LookAtClock
  \/ TerminateChild \/ Return

InspectNext == Cli \/ Application \/ DeadlinePasses

\* The CLI is not suspended and time goes on; the application may hang anywhere.
InspectSpec ==
  InspectInit /\ [][InspectNext]_inspectVars /\ WF_inspectVars(Cli)
              /\ WF_inspectVars(DeadlinePasses)

-----------------------------------------------------------------------------
\* A report in a file of its own name is whole: the CLI, which reads whenever
\* the name exists, never calls what a standard application published malformed
\* or foreign, whatever crashed or failed on the way (publish_atomic).
StandardAnswerIsAccepted ==
  program = "standard" => result \notin {"malformed", "bad acknowledgement", "bad report"}

\* However inspect_application returns, the application it started has ended,
\* so that a report or an error is never printed beside an application that
\* goes on, and the files of the private directory are gone (terminate_child,
\* wait_for_successful_exit, TempDir).
NothingOutlivesInspection ==
  cli = "returned" =>
    /\ child \notin Alive
    /\ ~directory /\ ack = "absent" /\ response = "absent" /\ temporary = 0

\* An inspection ends, even of an application that never answers, answers and
\* never exits, or enters Mads::run again and again (the two deadlines).
InspectionReturns == <>(cli = "returned")

=============================================================================
