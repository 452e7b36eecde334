-------------------------- MODULE MigrationPublish --------------------------
(***************************************************************************)
(* publish_migration of mads-cli (database/publish.rs): several processes  *)
(* publish migrations into one project, possibly under the same timestamp, *)
(* while any file operation may fail, a process may die between two of     *)
(* them, and the machine may lose what was not synchronized.               *)
(*                                                                         *)
(* Every operation names a path. What it meets there is whatever directory *)
(* is there at that moment, which may be that of another publisher.        *)
(***************************************************************************)
EXTENDS Integers, Sequences

CONSTANTS
  Publishers,     \* processes that publish; the directory one creates bears its name
  Stamps,         \* what the clock may return
  NoDirectory,    \* not a publisher
  MaxPowerLosses  \* bound: power losses in one behaviour

ASSUME NoDirectoryAssumption == NoDirectory \notin Publishers
ASSUME MaxPowerLossesAssumption == MaxPowerLosses \in Nat

VARIABLES
  pc,              \* the next operation of each publisher
  stamp,           \* its timestamp
  parent_created,  \* its local parent_created, then PublishGuard.parent_created
  result,          \* what it returned
  migrations,      \* whether the directory migrations/ exists
  entries,         \* its entries: the staging and final directory of each timestamp
  files,           \* the files of each directory
  disk,            \* what a power loss leaves of the last three
  powerLosses,     \* power losses so far
  lost,            \* a power loss took migrations/ itself
  skipped          \* history: the calls of sync_directory that returned Ok(()) on a file
                   \* system that cannot synchronize a directory, each as publisher, step

processVars == <<pc, stamp, parent_created, result>>
fileVars == <<migrations, entries, files>>
publishVars == <<processVars, fileVars, disk, powerLosses, lost, skipped>>

Steps == {"idle", "parent", "staging", "up", "down", "sync", "publish", "sync_parent",
          "drop", "drop_parent", "done", "leaked", "dead"}
Outcomes == {"none", "ok", "failed", "uncertain"}
Directory == Publishers \cup {NoDirectory}
Absent == "absent"
Partial == "partial"
Content == Publishers \cup {Absent, Partial}   \* a complete file is named for its writer
Syncs == {"sync", "sync_parent"}              \* the steps that call sync_directory
Files == [up : Content, down : Content]
Entries == [staging : [Stamps -> Directory], final : [Stamps -> Directory]]

\* The name of a writer is not one of the other contents of a file.
ASSUME PublishersAssumption == Publishers \cap {Absent, Partial} = {}

NoFiles == [up |-> Absent, down |-> Absent]
NoEntries == [staging |-> [t \in Stamps |-> NoDirectory],
              final |-> [t \in Stamps |-> NoDirectory]]

PublishInit ==
  /\ pc = [p \in Publishers |-> "idle"]
  /\ stamp \in [Publishers -> Stamps]
  /\ parent_created = [p \in Publishers |-> FALSE]
  /\ result = [p \in Publishers |-> "none"]
  /\ migrations \in BOOLEAN
  /\ entries = NoEntries
  /\ files = [p \in Publishers |-> NoFiles]
  /\ disk = [migrations |-> migrations, entries |-> entries, files |-> files]
  /\ powerLosses = 0
  /\ lost = FALSE
  /\ skipped = {}

-----------------------------------------------------------------------------
At(p, step) == pc[p] = step
Goto(p, step) == pc' = [pc EXCEPT ![p] = step]
Returns(p, outcome) == result' = [result EXCEPT ![p] = outcome]
Staged(p) == entries.staging[stamp[p]]

(***************************************************************************)
(* An error after the guard exists: the guard is dropped still armed.      *)
(***************************************************************************)
FailArmed(p) ==
  /\ Goto(p, "drop")
  /\ Returns(p, "failed")
  /\ UNCHANGED <<stamp, parent_created, fileVars, disk, powerLosses, lost, skipped>>

Begin(p) ==
  /\ At(p, "idle")
  /\ Goto(p, "parent")
  /\ UNCHANGED <<stamp, parent_created, result, fileVars, disk, powerLosses, lost, skipped>>

ClockFails(p) ==
  /\ At(p, "idle")
  /\ Goto(p, "done")
  /\ Returns(p, "failed")
  /\ UNCHANGED <<stamp, parent_created, fileVars, disk, powerLosses, lost, skipped>>

CreateParent(p) ==
  /\ At(p, "parent")
  /\ parent_created' = [parent_created EXCEPT ![p] = ~migrations]
  /\ migrations' = TRUE
  /\ Goto(p, "staging")
  /\ UNCHANGED <<stamp, result, entries, files, disk, powerLosses, lost, skipped>>

CreateParentFails(p) ==
  /\ At(p, "parent")
  /\ ~migrations
  /\ Goto(p, "done")
  /\ Returns(p, "failed")
  /\ UNCHANGED <<stamp, parent_created, fileVars, disk, powerLosses, lost, skipped>>

CreateStaging(p) ==
  /\ At(p, "staging")
  /\ migrations
  /\ Staged(p) = NoDirectory
  /\ entries' = [entries EXCEPT !.staging[stamp[p]] = p]
  /\ Goto(p, "up")
  /\ UNCHANGED <<stamp, parent_created, result, migrations, files, disk, powerLosses, lost, skipped>>

CreateStagingFails(p) ==
  /\ At(p, "staging")
  /\ Goto(p, IF parent_created[p] THEN "drop_parent" ELSE "done")
  /\ Returns(p, "failed")
  /\ UNCHANGED <<stamp, parent_created, fileVars, disk, powerLosses, lost, skipped>>

(***************************************************************************)
(* write_new_file: create_new, write_all, sync_all; a failure may leave    *)
(* nothing, part of the file, or all of it.                                *)
(***************************************************************************)
WriteFile(p, file, next) ==
  /\ Staged(p) # NoDirectory
  /\ files[Staged(p)][file] = Absent
  /\ files' = [files EXCEPT ![Staged(p)][file] = p]
  /\ Goto(p, next)
  /\ UNCHANGED <<stamp, parent_created, result, migrations, entries, disk, powerLosses, lost, skipped>>

WriteFileFails(p, file) ==
  /\ Goto(p, "drop")
  /\ Returns(p, "failed")
  /\ \/ UNCHANGED files
     \/ /\ Staged(p) # NoDirectory
        /\ files[Staged(p)][file] = Absent
        /\ \E left \in {Partial, p} : files' = [files EXCEPT ![Staged(p)][file] = left]
  /\ UNCHANGED <<stamp, parent_created, migrations, entries, disk, powerLosses, lost, skipped>>

Write(p) ==
  \/ At(p, "up") /\ (WriteFile(p, "up", "down") \/ WriteFileFails(p, "up"))
  \/ At(p, "down") /\ (WriteFile(p, "down", "sync") \/ WriteFileFails(p, "down"))

(***************************************************************************)
(* sync_directory answers InvalidInput and Unsupported, which a file       *)
(* system without synchronization of directories returns, with Ok(()).     *)
(***************************************************************************)
SyncSkipped(p, step) ==
  /\ skipped' = skipped \cup {<<p, step>>}
  /\ UNCHANGED disk

(***************************************************************************)
(* Once the staging directory is synchronized, its files survive.          *)
(***************************************************************************)
SyncStaging(p) ==
  /\ At(p, "sync")
  /\ \/ /\ Staged(p) # NoDirectory
        /\ \/ /\ disk' = [disk EXCEPT !.files[Staged(p)] = files[Staged(p)]]
              /\ UNCHANGED skipped
           \/ SyncSkipped(p, "sync")
        /\ Goto(p, "publish")
        /\ UNCHANGED <<stamp, parent_created, result, fileVars, powerLosses, lost>>
     \/ FailArmed(p)

(***************************************************************************)
(* publish_without_replacement: renameat2 with RENAME_NOREPLACE. Platforms *)
(* without it always fail here.                                            *)
(***************************************************************************)
Publish(p) ==
  /\ At(p, "publish")
  /\ \/ /\ Staged(p) # NoDirectory
        /\ entries.final[stamp[p]] = NoDirectory
        /\ entries' = [entries EXCEPT !.final[stamp[p]] = Staged(p),
                                      !.staging[stamp[p]] = NoDirectory]
        /\ Goto(p, "sync_parent")
        /\ UNCHANGED <<stamp, parent_created, result, migrations, files, disk, powerLosses, lost, skipped>>
     \/ FailArmed(p)

\* Seeded fault: the failure to synchronize is reported like any other.
SyncParentCertain(p) ==
  /\ At(p, "sync_parent")
  /\ FailArmed(p)

SyncParent(p) ==
  /\ At(p, "sync_parent")
  /\ \/ /\ migrations
        /\ \/ /\ disk' = [disk EXCEPT !.entries = entries]
              /\ UNCHANGED skipped
           \/ SyncSkipped(p, "sync_parent")
        /\ Goto(p, "done")
        /\ Returns(p, "ok")
     \/ /\ Goto(p, "drop")
        /\ Returns(p, "uncertain")
        /\ UNCHANGED <<disk, skipped>>
  /\ UNCHANGED <<stamp, parent_created, fileVars, powerLosses, lost>>

(***************************************************************************)
(* PublishGuard::drop: errors of both removals are ignored.                *)
(***************************************************************************)
AfterRemoval(p) == IF parent_created[p] THEN "drop_parent" ELSE "done"

Drop(p) ==
  /\ At(p, "drop")
  /\ \/ /\ entries' = [entries EXCEPT !.staging[stamp[p]] = NoDirectory]
        /\ Goto(p, AfterRemoval(p))
     \/ /\ Staged(p) # NoDirectory
        /\ Goto(p, "leaked")
        /\ UNCHANGED entries
  /\ UNCHANGED <<stamp, parent_created, result, migrations, files, disk, powerLosses, lost, skipped>>

\* Seeded fault: the parent is removed with what it holds (remove_dir_all).
DropParentAll(p) ==
  /\ At(p, "drop_parent")
  /\ migrations' = FALSE
  /\ entries' = NoEntries
  /\ Goto(p, "done")
  /\ UNCHANGED <<stamp, parent_created, result, files, disk, powerLosses, lost, skipped>>

DropParent(p) ==
  /\ At(p, "drop_parent")
  /\ \/ migrations' = (migrations /\ entries # NoEntries)
     \/ UNCHANGED migrations
  /\ Goto(p, "done")
  /\ UNCHANGED <<stamp, parent_created, result, entries, files, disk, powerLosses, lost, skipped>>

(***************************************************************************)
(* Processes die, the kernel writes back, and power is lost.               *)
(***************************************************************************)
InProgress(p) == pc[p] \notin {"idle", "done", "leaked", "dead"}

Dies(p) ==
  /\ InProgress(p)
  /\ Goto(p, "dead")
  /\ UNCHANGED <<stamp, parent_created, result, fileVars, disk, powerLosses, lost, skipped>>

WriteBack ==
  /\ powerLosses < MaxPowerLosses
  /\ \/ disk' = [disk EXCEPT !.migrations = migrations]
     \/ disk' = [disk EXCEPT !.entries = entries]
     \/ \E d \in Publishers : disk' = [disk EXCEPT !.files[d] = files[d]]
  /\ disk' # disk
  /\ UNCHANGED <<processVars, fileVars, powerLosses, lost, skipped>>

PowerLoss ==
  /\ powerLosses < MaxPowerLosses
  /\ powerLosses' = powerLosses + 1
  /\ pc' = [p \in Publishers |-> IF InProgress(p) THEN "dead" ELSE pc[p]]
  /\ lost' = (lost \/ (migrations /\ ~disk.migrations))
  /\ migrations' = disk.migrations
  /\ entries' = IF disk.migrations THEN disk.entries ELSE NoEntries
  /\ files' = disk.files
  /\ disk' = [disk EXCEPT !.entries = entries']
  /\ UNCHANGED <<stamp, parent_created, result, skipped>>

PublishStep(p) ==
  \/ Begin(p) \/ ClockFails(p) \/ CreateParent(p) \/ CreateParentFails(p)
  \/ CreateStaging(p) \/ CreateStagingFails(p) \/ Write(p) \/ SyncStaging(p)
  \/ Publish(p) \/ SyncParent(p) \/ Drop(p) \/ DropParent(p) \/ Dies(p)

PublishNext == (\E p \in Publishers : PublishStep(p)) \/ WriteBack \/ PowerLoss

PublishSpec == PublishInit /\ [][PublishNext]_publishVars

-----------------------------------------------------------------------------
\* The publishers, the file system and its durable image keep their types.
PublishTypeOK ==
  /\ pc \in [Publishers -> Steps]
  /\ stamp \in [Publishers -> Stamps]
  /\ parent_created \in [Publishers -> BOOLEAN]
  /\ result \in [Publishers -> Outcomes]
  /\ migrations \in BOOLEAN
  /\ entries \in Entries
  /\ files \in [Publishers -> Files]
  /\ disk \in [migrations : BOOLEAN, entries : Entries, files : [Publishers -> Files]]
  /\ powerLosses \in 0 .. MaxPowerLosses
  /\ lost \in BOOLEAN
  /\ skipped \subseteq Publishers \X Syncs

Complete(d, image) == image[d].up \in Publishers /\ image[d].down = image[d].up

\* A migration that can be seen under its final name has both files, complete
\* and written by one publisher, whoever else uses the same timestamp. It keeps
\* them through a power loss, because staging is synchronized before the rename;
\* unless that synchronization was one that sync_directory let pass undone.
PublishedIsComplete ==
  \A t \in Stamps :
    LET d == entries.final[t] IN
    d # NoDirectory =>
      /\ powerLosses = 0 => Complete(d, files)
      /\ <<d, "sync">> \notin skipped => Complete(d, files) /\ Complete(d, disk.files)

\* A published migration is never replaced or removed, by another publisher or
\* by a clean-up; only a power loss can take one that was not synchronized.
PublishedIsKept ==
  [][\A t \in Stamps :
       entries.final[t] # NoDirectory /\ powerLosses' = powerLosses =>
         entries'.final[t] = entries.final[t]]_publishVars

\* A publisher that returned the path of its migration finds it there. If
\* migrations/ was really synchronized, also after a power loss that left
\* migrations/ itself; and with its own text, if the staging directory was, too.
SuccessIsDurable ==
  \A p \in Publishers :
    result[p] = "ok" =>
      /\ powerLosses = 0 => entries.final[stamp[p]] = p
      /\ ~lost /\ <<p, "sync_parent">> \notin skipped =>
           /\ entries.final[stamp[p]] = p
           /\ disk.entries.final[stamp[p]] = p
           /\ <<p, "sync">> \notin skipped => files[p].up = p

FailureIsInvisible ==
  \A p \in Publishers : result[p] = "failed" =>
    \A t \in Stamps :
      LET d == entries.final[t] IN
      d # NoDirectory => d # p /\ files[d].up # p /\ files[d].down # p

NoStagingLeft ==
  \A p \in Publishers : pc[p] = "done" /\ powerLosses = 0 => Staged(p) # p

\* An error other than "durability is uncertain" means that nothing of this
\* publisher has been published, and a publisher that ended, and was allowed
\* to clean up, left no staging behind.
FailureLeavesNothing == FailureIsInvisible /\ NoStagingLeft

\* Publication is all or nothing, and the result tells which: what is visible is
\* complete, what was reported published is durable where the file system lets a
\* directory be synchronized, what was reported failed left nothing behind.
PublicationIsAtomic == PublishedIsComplete /\ SuccessIsDurable /\ FailureLeavesNothing

=============================================================================
