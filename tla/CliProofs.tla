----------------------------- MODULE CliProofs -----------------------------
(***************************************************************************)
(* Proofs about the two processes of the CLI that others run beside.       *)
(*                                                                         *)
(* MigrationPublish, for every set of publishers, every clock and any      *)
(* number of power losses: publication is atomic, and nothing that was     *)
(* published is replaced or removed by a publisher.                        *)
(*                                                                         *)
(* DevSupervisor, for any number of edits: the state machine and the       *)
(* driver agree on the two children, and no edit is lost on its way from   *)
(* the watcher to the application.                                         *)
(***************************************************************************)
EXTENDS MigrationPublish, DevSupervisor, SequenceTheorems, TLAPS

-----------------------------------------------------------------------------
(***************************************************************************)
(* The inductive invariant. A timestamp is free while nothing is published *)
(* under it. Its staging path is then a lock: the one publisher at work    *)
(* under a free timestamp is the one whose directory is there. Once the    *)
(* timestamp is taken, the publishers that share it may meet each other's  *)
(* directories, but none of them can publish any more.                     *)
(***************************************************************************)
Free(t) == entries.final[t] = NoDirectory

Uncreated == {"idle", "parent", "staging"}
Working == {"up", "down", "sync", "publish"}

\* A directory is named for its publisher, and is under one of its two names.
EntriesInv ==
  \A t \in Stamps :
    /\ entries.staging[t] # NoDirectory =>
         LET d == entries.staging[t] IN stamp[d] = t /\ pc[d] \notin Uncreated
    /\ entries.final[t] # NoDirectory =>
         LET d == entries.final[t] IN
         stamp[d] = t /\ pc[d] \notin Uncreated \cup Working /\ result[d] # "failed"
    /\ entries.staging[t] = entries.final[t] => Free(t)

\* The durable entries are earlier ones: what is published there still is.
DiskInv ==
  \A t \in Stamps :
    /\ disk.entries.staging[t] # NoDirectory =>
         LET d == disk.entries.staging[t] IN stamp[d] = t /\ pc[d] \notin Uncreated
    /\ disk.entries.final[t] # NoDirectory => disk.entries.final[t] = entries.final[t]
    /\ disk.entries.staging[t] = disk.entries.final[t] => disk.entries.final[t] = NoDirectory

\* The staging path of a free timestamp is a lock.
LockInv ==
  \A p \in Publishers :
    pc[p] \in Working \cup {"drop"} /\ Free(stamp[p]) => Staged(p) = p

\* What is in a directory is its publisher's own.
Own(d, image) == image[d].up \in {d, Absent} /\ image[d].down \in {d, Absent}

\* What the publisher that holds it has written and, where that can be done,
\* synchronized.
WrittenInv ==
  \A p \in Publishers :
    /\ pc[p] \in Uncreated => files[p] = NoFiles /\ disk.files[p] = NoFiles
    /\ Free(stamp[p]) =>
         /\ pc[p] \in Working => Own(p, files) /\ Own(p, disk.files)
         /\ pc[p] \in {"down", "sync", "publish"} => files[p].up = p
         /\ pc[p] \in {"sync", "publish"} => files[p].down = p
         /\ pc[p] = "publish" => <<p, "sync">> \in skipped \/ disk.files[p] = files[p]

\* What is published was written by the publisher it is named for, and is whole
\* unless the power was lost before it had been synchronized.
PublishedInv ==
  \A t \in Stamps :
    LET d == entries.final[t] IN
    d # NoDirectory =>
      /\ Own(d, files) /\ Own(d, disk.files)
      /\ powerLosses = 0 \/ <<d, "sync">> \notin skipped => files[d].up = d /\ files[d].down = d
      /\ <<d, "sync">> \in skipped \/ disk.files[d] = files[d]

\* What each publisher knows once it has renamed, returned or given up.
ReturnInv ==
  \A p \in Publishers :
    /\ pc[p] = "sync_parent" => entries.final[stamp[p]] = p
    /\ pc[p] \in Uncreated \cup Working => result[p] = "none"
    /\ pc[p] \in {"drop_parent", "done"} /\ powerLosses = 0 => Staged(p) # p

\* What one that reported success published is there, and on disk.
ReportInv ==
  \A p \in Publishers :
    result[p] = "ok" =>
      /\ powerLosses = 0 => entries.final[stamp[p]] = p
      /\ ~lost /\ <<p, "sync_parent">> \notin skipped => disk.entries.final[stamp[p]] = p

ParentInv == ~migrations => entries = NoEntries

PInv ==
  /\ PublishTypeOK
  /\ EntriesInv
  /\ DiskInv
  /\ LockInv
  /\ WrittenInv
  /\ PublishedInv
  /\ ReturnInv
  /\ ReportInv
  /\ ParentInv

-----------------------------------------------------------------------------
\* Every step keeps the types.
LEMMA TypesPreserved ==
  ASSUME PublishTypeOK, [PublishNext]_publishVars
  PROVE  PublishTypeOK'
  <1>. USE DEF PublishTypeOK, Goto, Returns, FailArmed, fileVars
  <1>1. ASSUME NEW p \in Publishers, Begin(p) \/ ClockFails(p) \/ CreateParent(p)
                 \/ CreateParentFails(p) \/ CreateStagingFails(p)
        PROVE  PublishTypeOK'
    BY <1>1 DEF Begin, ClockFails, CreateParent, CreateParentFails, CreateStagingFails,
                Steps, Outcomes
  <1>2. ASSUME NEW p \in Publishers, CreateStaging(p)
        PROVE  PublishTypeOK'
    BY <1>2 DEF CreateStaging, Steps, Entries, Directory
  <1>3. ASSUME NEW p \in Publishers, NEW file \in {"up", "down"}, NEW next \in {"down", "sync"},
               WriteFile(p, file, next) \/ WriteFileFails(p, file)
        PROVE  PublishTypeOK'
    <2>1. Staged(p) \in Directory
      BY DEF Staged, Entries
    <2>2. files' \in [Publishers -> Files]
      <3>1. ASSUME NEW d \in Publishers, NEW c \in Content,
                   files' = [files EXCEPT ![d][file] = c]
            PROVE  files' \in [Publishers -> Files]
        BY <3>1 DEF Files
      <3>2. p \in Content /\ Partial \in Content
        BY DEF Content
      <3>. QED  BY <1>3, <2>1, <3>1, <3>2 DEF WriteFile, WriteFileFails, Directory
    <2>. QED  BY <1>3, <2>2 DEF WriteFile, WriteFileFails, Steps, Outcomes
  <1>4. ASSUME NEW p \in Publishers, SyncStaging(p)
        PROVE  PublishTypeOK'
    <2>1. Staged(p) \in Directory
      BY DEF Staged, Entries
    <2>2. skipped' \subseteq Publishers \X Syncs
      BY <1>4 DEF SyncStaging, SyncSkipped, Syncs
    <2>3. disk' \in [migrations : BOOLEAN, entries : Entries, files : [Publishers -> Files]]
      BY <1>4, <2>1 DEF SyncStaging, SyncSkipped, Directory
    <2>. QED  BY <1>4, <2>2, <2>3 DEF SyncStaging, Steps, Outcomes
  <1>5. ASSUME NEW p \in Publishers, Publish(p) \/ Drop(p)
        PROVE  PublishTypeOK'
    <2>1. entries' \in Entries
      <3>1. PICK d \in Directory : d = Staged(p)
        BY DEF Staged, Entries
      <3>2. NoDirectory \in Directory
        BY DEF Directory
      <3>3. CASE Publish(p)
        <4>1. entries' = entries
              \/ entries' = [entries EXCEPT !.final[stamp[p]] = d,
                                            !.staging[stamp[p]] = NoDirectory]
          BY <3>1, <3>3 DEF Publish
        <4>2. entries'.final \in [Stamps -> Directory] /\ entries'.staging \in [Stamps -> Directory]
          <5>1. CASE entries' = entries
            BY <5>1 DEF Entries
          <5>2. CASE entries' # entries
            <6>1. /\ entries'.final = [entries.final EXCEPT ![stamp[p]] = d]
                  /\ entries'.staging = [entries.staging EXCEPT ![stamp[p]] = NoDirectory]
              BY <4>1, <5>2 DEF Entries
            <6>. QED  BY <3>2, <6>1 DEF Entries
          <5>. QED  BY <5>1, <5>2
        <4>. QED  BY <4>1, <4>2 DEF Entries
      <3>4. CASE Drop(p)
        BY <3>2, <3>4 DEF Drop, Entries
      <3>. QED  BY <1>5, <3>3, <3>4
    <2>2. CASE Publish(p)
      BY <2>1, <2>2 DEF Publish, Steps, Outcomes
    <2>3. CASE Drop(p)
      <3>1. AfterRemoval(p) \in {"drop_parent", "done"}
        BY DEF AfterRemoval
      <3>. QED  BY <2>1, <2>3, <3>1 DEF Drop, Steps
    <2>. QED  BY <1>5, <2>2, <2>3
  <1>6. ASSUME NEW p \in Publishers, SyncParent(p) \/ DropParent(p) \/ Dies(p)
        PROVE  PublishTypeOK'
    <2>1. CASE SyncParent(p)
      <3>1. skipped' \subseteq Publishers \X Syncs
        BY <2>1 DEF SyncParent, SyncSkipped, Syncs
      <3>2. disk' \in [migrations : BOOLEAN, entries : Entries, files : [Publishers -> Files]]
        BY <2>1 DEF SyncParent, SyncSkipped
      <3>. QED  BY <2>1, <3>1, <3>2 DEF SyncParent, Steps, Outcomes
    <2>2. CASE DropParent(p) \/ Dies(p)
      BY <2>2 DEF DropParent, Dies, Steps
    <2>. QED  BY <1>6, <2>1, <2>2
  <1>7. ASSUME WriteBack PROVE PublishTypeOK'
    BY <1>7 DEF WriteBack, processVars
  <1>8. ASSUME PowerLoss PROVE PublishTypeOK'
    <2>1. NoEntries \in Entries
      BY DEF NoEntries, Entries, Directory
    <2>2. powerLosses' \in 0 .. MaxPowerLosses
      BY <1>8, MaxPowerLossesAssumption DEF PowerLoss
    <2>3. pc' \in [Publishers -> Steps]
      BY <1>8 DEF PowerLoss, Steps
    <2>4. lost' \in BOOLEAN
      BY <1>8 DEF PowerLoss
    <2>. QED  BY <1>8, <2>1, <2>2, <2>3, <2>4 DEF PowerLoss
  <1>9. CASE UNCHANGED publishVars
    BY <1>9 DEF publishVars, processVars
  <1>. QED  BY <1>1, <1>2, <1>3, <1>4, <1>5, <1>6, <1>7, <1>8, <1>9
            DEF PublishNext, PublishStep, Write

\* Nothing was reported in a step that returns nothing and keeps what is published.
LEMMA ReportsStand ==
  ASSUME PInv, UNCHANGED <<stamp, powerLosses, lost>>, skipped \subseteq skipped',
         \A q \in Publishers : result'[q] = "ok" => result[q] = "ok",
         disk'.entries \in {disk.entries, entries},
         \A t \in Stamps : entries.final[t] # NoDirectory => entries'.final[t] = entries.final[t]
  PROVE  ReportInv'
  <1>. SUFFICES ASSUME NEW p \in Publishers, result[p] = "ok"
                PROVE  /\ powerLosses = 0 => entries'.final[stamp[p]] = p
                       /\ ~lost /\ <<p, "sync_parent">> \notin skipped =>
                            disk'.entries.final[stamp[p]] = p
    BY DEF ReportInv
  <1>. USE DEF PInv, PublishTypeOK
  <1>1. stamp[p] \in Stamps /\ p # NoDirectory
    BY NoDirectoryAssumption
  <1>2. powerLosses = 0 => entries'.final[stamp[p]] = p
    BY <1>1 DEF ReportInv
  <1>3. ASSUME ~lost, <<p, "sync_parent">> \notin skipped
        PROVE  disk'.entries.final[stamp[p]] = p
    <2>1. disk.entries.final[stamp[p]] = p
      BY <1>3 DEF ReportInv
    <2>2. entries.final[stamp[p]] = p
      BY <1>1, <2>1 DEF DiskInv
    <2>. QED  BY <2>1, <2>2
  <1>. QED  BY <1>2, <1>3

\* What was written stands in a step that writes nothing and brings no publisher
\* further with its files.
LEMMA WritingStands ==
  ASSUME PInv, UNCHANGED <<stamp, files, disk.files>>,
         \A t \in Stamps : Free(t)' => Free(t),
         \A q \in Publishers : <<q, "sync">> \in skipped => <<q, "sync">> \in skipped',
         \A q \in Publishers :
           /\ pc'[q] \in Uncreated => pc[q] \in Uncreated
           /\ pc'[q] = "up" => pc[q] \in Uncreated \cup {"up"}
           /\ pc'[q] \in Working \ {"up"} => pc'[q] = pc[q]
  PROVE  WrittenInv'
  <1>. USE DEF PInv, PublishTypeOK
  <1>1. ASSUME NEW q \in Publishers, pc'[q] \in Uncreated
        PROVE  files[q] = NoFiles /\ disk.files[q] = NoFiles
    BY <1>1 DEF WrittenInv
  <1>2. ASSUME NEW q \in Publishers, Free(stamp[q])', pc'[q] \in Working
        PROVE  /\ Own(q, files) /\ Own(q, disk.files)
               /\ pc'[q] \in {"down", "sync", "publish"} => files[q].up = q
               /\ pc'[q] \in {"sync", "publish"} => files[q].down = q
               /\ pc'[q] = "publish" => <<q, "sync">> \in skipped' \/ disk.files[q] = files[q]
    <2>1. Free(stamp[q])
      BY <1>2 DEF Free
    <2>2. CASE pc'[q] = pc[q]
      BY <1>2, <2>1, <2>2 DEF WrittenInv
    <2>3. CASE pc[q] \in Uncreated /\ pc'[q] = "up"
      <3>1. files[q] = NoFiles /\ disk.files[q] = NoFiles
        BY <2>3 DEF WrittenInv
      <3>. QED  BY <2>3, <3>1 DEF Own, NoFiles
    <2>. QED  BY <1>2, <2>2, <2>3 DEF Working
  <1>3. ASSUME NEW q \in Publishers, pc'[q] \in {"down", "sync", "publish"}
        PROVE  pc'[q] \in Working
    BY <1>3 DEF Working
  <1>. QED  BY <1>1, <1>2, <1>3 DEF WrittenInv, Free, Own

(***************************************************************************)
(* A step of a publisher that leaves the entries, the files and the disk   *)
(* alone: it goes on to its first operation, fails, gives up or dies.      *)
(***************************************************************************)
PublisherMoves(p) ==
  /\ UNCHANGED <<stamp, entries, files, disk, powerLosses, lost, skipped>>
  /\ migrations' \/ entries = NoEntries
  /\ \E s \in Steps, o \in Outcomes :
       /\ pc' = [pc EXCEPT ![p] = s]
       /\ result' = [result EXCEPT ![p] = o]
       /\ \/ pc[p] \in Uncreated /\ s \in Uncreated /\ o = result[p]
          \/ pc[p] \in Uncreated /\ s \in {"drop_parent", "done"} /\ o = "failed"
          \/ pc[p] \in Working /\ s = "drop" /\ o = "failed"
          \/ pc[p] = "sync_parent" /\ s = "drop" /\ o = "uncertain"
          \/ pc[p] = "drop" /\ s = "leaked" /\ o = result[p]
          \/ pc[p] = "drop_parent" /\ s = "done" /\ o = result[p]
          \/ s = "dead" /\ o = result[p] /\ pc[p] \notin {"idle", "done", "leaked", "dead"}

\* Such a step preserves the invariant.
LEMMA MovesPreserve ==
  ASSUME PInv, PublishTypeOK', NEW p \in Publishers, PublisherMoves(p)
  PROVE  PInv'
  <1>. USE DEF PInv, PublishTypeOK
  <1>1. PICK s \in Steps, o \in Outcomes :
          /\ pc' = [pc EXCEPT ![p] = s]
          /\ result' = [result EXCEPT ![p] = o]
          /\ \/ pc[p] \in Uncreated /\ s \in Uncreated /\ o = result[p]
             \/ pc[p] \in Uncreated /\ s \in {"drop_parent", "done"} /\ o = "failed"
             \/ pc[p] \in Working /\ s = "drop" /\ o = "failed"
             \/ pc[p] = "sync_parent" /\ s = "drop" /\ o = "uncertain"
             \/ pc[p] = "drop" /\ s = "leaked" /\ o = result[p]
             \/ pc[p] = "drop_parent" /\ s = "done" /\ o = result[p]
             \/ s = "dead" /\ o = result[p] /\ pc[p] \notin {"idle", "done", "leaked", "dead"}
    BY DEF PublisherMoves
  <1>2. /\ UNCHANGED <<stamp, entries, files, disk, powerLosses, lost, skipped>>
        /\ migrations' \/ entries = NoEntries
    BY DEF PublisherMoves
  <1>3. \A q \in Publishers : q # p => pc'[q] = pc[q] /\ result'[q] = result[q]
    BY <1>1
  <1>4. pc'[p] = s /\ result'[p] = o
    BY <1>1
  <1>5. \A t \in Stamps : entries.staging[t] \in Directory /\ entries.final[t] \in Directory
                          /\ disk.entries.staging[t] \in Directory
    BY DEF Entries
  <1>6. EntriesInv'
    BY <1>1, <1>2, <1>3, <1>4, <1>5 DEF EntriesInv, Free, Uncreated, Working, Directory
  <1>7. DiskInv'
    BY <1>1, <1>2, <1>3, <1>4, <1>5 DEF DiskInv, Uncreated, Working, Directory
  <1>8. LockInv'
    <2>1. pc[p] = "sync_parent" => ~ Free(stamp[p])
      BY NoDirectoryAssumption DEF ReturnInv, Free
    <2>2. ASSUME NEW q \in Publishers, pc'[q] \in Working \cup {"drop"}, Free(stamp[q])
          PROVE  Staged(q) = q
      BY <1>1, <1>3, <1>4, <2>1, <2>2 DEF LockInv, Uncreated, Working
    <2>. QED  BY <1>2, <2>2 DEF LockInv, Free, Staged
  <1>9. WrittenInv'
    <2>1. ASSUME NEW q \in Publishers
          PROVE  /\ pc'[q] \in Uncreated => pc[q] \in Uncreated
                 /\ pc'[q] \in Working => pc'[q] = pc[q]
      BY <1>1, <1>3, <1>4 DEF Uncreated, Working
    <2>. QED  BY <1>2, <2>1 DEF WrittenInv, Free, Own, Working
  <1>10. PublishedInv'
    BY <1>2 DEF PublishedInv
  <1>11. ReturnInv'
    <2>1. ASSUME NEW q \in Publishers, pc'[q] = "sync_parent"
          PROVE  entries.final[stamp[q]] = q
      BY <1>1, <1>3, <1>4, <2>1 DEF ReturnInv, Uncreated
    <2>2. ASSUME NEW q \in Publishers, pc'[q] \in Uncreated \cup Working
          PROVE  result'[q] = "none"
      BY <1>1, <1>3, <1>4, <2>2 DEF ReturnInv, Uncreated, Working
    <2>3. ASSUME NEW q \in Publishers, pc'[q] \in {"drop_parent", "done"}, powerLosses = 0
          PROVE  Staged(q) # q
      BY <1>1, <1>3, <1>4, <2>3, NoDirectoryAssumption
         DEF ReturnInv, EntriesInv, Staged, Uncreated, Working
    <2>. QED  BY <1>2, <2>1, <2>2, <2>3 DEF ReturnInv, Staged
  <1>12. ReportInv'
    <2>1. \A q \in Publishers : result'[q] = "ok" => result[q] = "ok"
      BY <1>1, <1>3, <1>4
    <2>. QED  BY <1>2, <2>1, ReportsStand
  <1>13. ParentInv'
    BY <1>2 DEF ParentInv
  <1>. QED  BY <1>6, <1>7, <1>8, <1>9, <1>10, <1>11, <1>12, <1>13

\* The steps that are of that kind.
LEMMA MovesAre ==
  ASSUME PInv, NEW p \in Publishers,
         \/ Begin(p) \/ ClockFails(p) \/ CreateParent(p) \/ CreateParentFails(p)
         \/ CreateStagingFails(p) \/ DropParent(p) \/ Dies(p)
         \/ pc[p] \in Working /\ FailArmed(p)
  PROVE  PublisherMoves(p)
  <1>. USE DEF PInv, PublishTypeOK, ParentInv, Goto, Returns, At, fileVars
  <1>1. \A o : result[p] = o => result = [result EXCEPT ![p] = o]
    OBVIOUS
  <1>2. migrations \/ entries = NoEntries
    OBVIOUS
  <1>3. CASE Begin(p)
    BY <1>1, <1>2, <1>3 DEF Begin, PublisherMoves, Steps, Uncreated
  <1>4. CASE ClockFails(p)
    BY <1>2, <1>4 DEF ClockFails, PublisherMoves, Steps, Outcomes, Uncreated
  <1>5. CASE CreateParent(p)
    BY <1>1, <1>5 DEF CreateParent, PublisherMoves, Steps, Uncreated
  <1>6. CASE CreateParentFails(p)
    BY <1>2, <1>6 DEF CreateParentFails, PublisherMoves, Steps, Outcomes, Uncreated
  <1>7. CASE CreateStagingFails(p)
    <2>1. PICK s \in {"drop_parent", "done"} :
            s = IF parent_created[p] THEN "drop_parent" ELSE "done"
      OBVIOUS
    <2>. QED  BY <1>2, <1>7, <2>1 DEF CreateStagingFails, PublisherMoves, Steps, Outcomes, Uncreated
  <1>8. CASE DropParent(p)
    <2>1. migrations' \/ entries = NoEntries
      BY <1>2, <1>8 DEF DropParent
    <2>. QED  BY <1>1, <1>8, <2>1 DEF DropParent, PublisherMoves, Steps
  <1>9. CASE Dies(p)
    BY <1>1, <1>2, <1>9 DEF Dies, InProgress, PublisherMoves, Steps
  <1>10. CASE pc[p] \in Working /\ FailArmed(p)
    BY <1>2, <1>10 DEF FailArmed, PublisherMoves, Steps, Outcomes
  <1>. QED  BY <1>3, <1>4, <1>5, <1>6, <1>7, <1>8, <1>9, <1>10

-----------------------------------------------------------------------------
(***************************************************************************)
(* The file operations.                                                    *)
(***************************************************************************)
\* The staging directory was not there, so nobody holds the lock: now p does.
LEMMA CreateStagingPreserves ==
  ASSUME PInv, PublishTypeOK', NEW p \in Publishers, CreateStaging(p)
  PROVE  PInv'
  <1>. USE DEF PInv, PublishTypeOK
  <1>1. /\ pc' = [pc EXCEPT ![p] = "up"]
        /\ pc[p] = "staging" /\ Staged(p) = NoDirectory
        /\ migrations = TRUE
        /\ entries'.final = entries.final
        /\ entries'.staging = [entries.staging EXCEPT ![stamp[p]] = p]
        /\ UNCHANGED <<stamp, result, migrations, files, disk, powerLosses, lost, skipped>>
    BY DEF CreateStaging, At, Goto, Entries
  <1>2. \A q \in Publishers : q # p => pc'[q] = pc[q]
    BY <1>1
  <1>3. pc'[p] = "up"
    BY <1>1
  <1>4. /\ stamp[p] \in Stamps /\ entries'.staging[stamp[p]] = p
        /\ \A t \in Stamps : t # stamp[p] => entries'.staging[t] = entries.staging[t]
    BY <1>1 DEF Entries
  <1>5. \A t \in Stamps : entries.staging[t] \in Directory /\ entries.final[t] \in Directory
                          /\ disk.entries.staging[t] \in Directory
    BY DEF Entries
  <1>6. EntriesInv'
    BY <1>1, <1>2, <1>3, <1>4, <1>5 DEF EntriesInv, Free, Uncreated, Working, Directory
  <1>7. DiskInv'
    BY <1>1, <1>2, <1>3, <1>4, <1>5 DEF DiskInv, Uncreated, Directory
  <1>8. LockInv'
    <2>1. ASSUME NEW q \in Publishers, q # p, pc[q] \in Working \cup {"drop"}, Free(stamp[q])
          PROVE  entries'.staging[stamp[q]] = q
      <3>1. Staged(q) = q
        BY <2>1 DEF LockInv
      <3>2. stamp[q] # stamp[p]
        BY <1>1, <3>1, NoDirectoryAssumption DEF Staged
      <3>. QED  BY <1>4, <3>1, <3>2 DEF Staged
    <2>. QED  BY <1>1, <1>2, <1>4, <2>1 DEF LockInv, Free, Staged
  <1>9. WrittenInv'
    BY <1>1, <1>2, <1>3, WritingStands DEF Free, Uncreated, Working
  <1>10. PublishedInv'
    BY <1>1 DEF PublishedInv
  <1>11. ReturnInv'
    <2>1. ASSUME NEW q \in Publishers, q # p, Staged(q) # q
          PROVE  Staged(q)' # q
      BY <1>1, <1>4, <2>1 DEF Staged
    <2>. QED  BY <1>1, <1>2, <1>3, <2>1 DEF ReturnInv, Uncreated, Working
  <1>12. ReportInv'
    BY <1>1, ReportsStand
  <1>13. ParentInv'
    BY <1>1 DEF ParentInv
  <1>. QED  BY <1>6, <1>7, <1>8, <1>9, <1>10, <1>11, <1>12, <1>13

\* A file of a directory that is staged is not one that can be seen.
LEMMA StagedIsUnseen ==
  ASSUME PInv, NEW p \in Publishers, Staged(p) # NoDirectory
  PROVE  /\ Staged(p) \in Publishers /\ stamp[Staged(p)] = stamp[p]
         /\ \A t \in Stamps : entries.final[t] # Staged(p)
  <1>. USE DEF PInv, PublishTypeOK
  <1>1. stamp[p] \in Stamps /\ Staged(p) = entries.staging[stamp[p]]
    BY DEF Staged
  <1>2. Staged(p) \in Publishers /\ stamp[Staged(p)] = stamp[p]
    BY <1>1 DEF EntriesInv, Entries, Directory
  <1>3. ASSUME NEW t \in Stamps, entries.final[t] = Staged(p) PROVE FALSE
    <2>1. t = stamp[p]
      BY <1>2, <1>3 DEF EntriesInv
    <2>. QED  BY <1>1, <1>3, <2>1 DEF EntriesInv, Free
  <1>. QED  BY <1>2, <1>3

\* A writer under a free timestamp writes into its own directory; under one that
\* is taken it may write into another's, which nobody can publish any more.
LEMMA WritePreserves ==
  ASSUME PInv, PublishTypeOK', NEW p \in Publishers, NEW file \in {"up", "down"},
         NEW next \in {"down", "sync"},
         pc[p] = file, next = "sync" <=> file = "down",
         WriteFile(p, file, next) \/ WriteFileFails(p, file)
  PROVE  PInv'
  <1>. USE DEF PInv, PublishTypeOK
  <1>1. CASE WriteFileFails(p, file) /\ UNCHANGED files
    <2>1. pc[p] \in Working /\ FailArmed(p)
      BY <1>1 DEF WriteFileFails, FailArmed, Working, fileVars
    <2>. QED  BY <2>1, MovesAre, MovesPreserve
  <1>2. CASE WriteFile(p, file, next) \/ ~ UNCHANGED files
    <2>1. PICK d \in Publishers, c \in Content, s \in {next, "drop"} :
            /\ d = Staged(p) /\ Staged(p) # NoDirectory
            /\ files' = [files EXCEPT ![d][file] = c]
            /\ pc' = [pc EXCEPT ![p] = s]
            /\ s = next => c = p /\ result' = result
            /\ s = "drop" => result' = [result EXCEPT ![p] = "failed"]
      <3>1. Staged(p) # NoDirectory
        BY <1>2 DEF WriteFile, WriteFileFails
      <3>2. PICK d \in Publishers : d = Staged(p)
        BY <3>1, StagedIsUnseen
      <3>3. p \in Content /\ Partial \in Content /\ next # "drop"
        BY DEF Content
      <3>. QED  BY <1>2, <3>1, <3>2, <3>3 DEF WriteFile, WriteFileFails, Goto, Returns
    <2>2. UNCHANGED <<stamp, migrations, entries, disk, powerLosses, lost, skipped>>
      BY <1>2 DEF WriteFile, WriteFileFails
    <2>3. \A q \in Publishers : q # p => pc'[q] = pc[q] /\ result'[q] = result[q]
      BY <2>1
    <2>4. pc'[p] = s
      BY <2>1
    <2>5. \A q \in Publishers : q # d => files'[q] = files[q]
      BY <2>1
    <2>6. stamp[d] = stamp[p] /\ \A t \in Stamps : entries.final[t] # d
      BY <2>1, StagedIsUnseen
    <2>7. pc[p] \in Working /\ result[p] = "none"
      BY DEF Working, ReturnInv
    <2>8. EntriesInv'
      <3>1. ASSUME NEW t \in Stamps, entries.final[t] # NoDirectory
            PROVE  entries.final[t] \in Publishers \ {p}
        BY <2>7, <3>1 DEF EntriesInv, Entries, Directory
      <3>2. ASSUME NEW t \in Stamps, entries.staging[t] # NoDirectory
            PROVE  /\ entries.staging[t] \in Publishers
                   /\ pc'[entries.staging[t]] \notin Uncreated
        BY <2>1, <2>3, <2>4, <3>2 DEF EntriesInv, Entries, Directory, Uncreated
      <3>. QED  BY <2>2, <2>3, <3>1, <3>2 DEF EntriesInv, Free
    <2>9. DiskInv'
      BY <2>1, <2>2, <2>3, <2>4, <2>7 DEF DiskInv, Uncreated, Working
    <2>10. LockInv'
      BY <2>1, <2>2, <2>3, <2>4, <2>7 DEF LockInv, Free, Staged, Working
    <2>11. WrittenInv'
      <3>1. ASSUME NEW q \in Publishers, q # p, Free(stamp[q]),
                   pc[q] \in Working
            PROVE  q # d
        <4>1. Staged(q) = q
          BY <3>1 DEF LockInv, Working
        <4>2. stamp[q] = stamp[p] => FALSE
          BY <2>1, <2>7, <3>1, <4>1 DEF LockInv, Staged
        <4>. QED  BY <2>6, <4>2
      <3>2. ASSUME Free(stamp[p])
            PROVE  d = p
        BY <2>1, <2>7, <3>2 DEF LockInv
      <3>3. ASSUME s = next, Free(stamp[p])
            PROVE  /\ files'[p].up = p
                   /\ next = "sync" => files'[p].down = p
        <4>1. files[p] \in Files /\ c = p /\ d = p
          BY <2>1, <3>2, <3>3
        <4>2. CASE file = "up"
          BY <2>1, <4>1, <4>2 DEF Files
        <4>3. CASE file = "down"
          <5>1. files[p].up = p
            BY <3>3, <4>3 DEF WrittenInv
          <5>. QED  BY <2>1, <4>1, <4>3, <5>1 DEF Files
        <4>. QED  BY <4>2, <4>3
      <3>4. ASSUME s = next, Free(stamp[p])
            PROVE  Own(p, files') /\ Own(p, disk.files)
        <4>1. files[p] \in Files /\ c = p /\ d = p
          BY <2>1, <3>2, <3>4
        <4>2. Own(p, files) /\ Own(p, disk.files)
          BY <2>7, <3>4 DEF WrittenInv
        <4>. QED  BY <2>1, <4>1, <4>2 DEF Own, Files
      <3>5. ASSUME NEW q \in Publishers, pc'[q] \in Uncreated
            PROVE  files'[q] = NoFiles /\ disk.files[q] = NoFiles
        <4>1. pc[q] \in Uncreated /\ q # p
          BY <2>1, <2>3, <2>4, <3>5 DEF Uncreated
        <4>2. q # d
          BY <2>1, <4>1 DEF Staged, EntriesInv
        <4>. QED  BY <2>5, <4>1, <4>2 DEF WrittenInv
      <3>6. ASSUME NEW q \in Publishers, Free(stamp[q]), pc'[q] \in Working
            PROVE  /\ Own(q, files') /\ Own(q, disk.files)
                   /\ pc'[q] \in {"down", "sync", "publish"} => files'[q].up = q
                   /\ pc'[q] \in {"sync", "publish"} => files'[q].down = q
                   /\ pc'[q] = "publish" => <<q, "sync">> \in skipped \/ disk.files[q] = files'[q]
        <4>1. CASE q = p
          BY <2>1, <2>4, <3>3, <3>4, <3>6, <4>1 DEF Working
        <4>2. CASE q # p
          <5>1. pc'[q] = pc[q] /\ files'[q] = files[q]
            BY <2>3, <2>5, <3>1, <3>6, <4>2
          <5>. QED  BY <3>6, <5>1 DEF WrittenInv, Own
        <4>. QED  BY <4>1, <4>2
      <3>. QED  BY <2>2, <3>5, <3>6 DEF WrittenInv, Free, Own, Working
    <2>12. PublishedInv'
      <3>1. ASSUME NEW t \in Stamps, entries.final[t] # NoDirectory
            PROVE  files'[entries.final[t]] = files[entries.final[t]]
        BY <2>5, <2>6, <3>1 DEF Entries, Directory
      <3>. QED  BY <2>2, <3>1 DEF PublishedInv, Own
    <2>13. ReturnInv'
      BY <2>1, <2>2, <2>3, <2>4, <2>7 DEF ReturnInv, Uncreated, Working, Staged
    <2>14. ReportInv'
      <3>1. \A q \in Publishers : result'[q] = "ok" => result[q] = "ok"
        BY <2>1, <2>3
      <3>. QED  BY <2>2, <3>1, ReportsStand
    <2>15. ParentInv'
      BY <2>2 DEF ParentInv
    <2>. QED  BY <2>8, <2>9, <2>10, <2>11, <2>12, <2>13, <2>14, <2>15
  <1>. QED  BY <1>1, <1>2

\* Synchronizing a staging directory changes nothing for what is published.
LEMMA SyncStagingPreserves ==
  ASSUME PInv, PublishTypeOK', NEW p \in Publishers, SyncStaging(p)
  PROVE  PInv'
  <1>. USE DEF PInv, PublishTypeOK
  <1>1. CASE FailArmed(p)
    <2>1. pc[p] \in Working
      BY DEF SyncStaging, At, Working
    <2>. QED  BY <1>1, <2>1, MovesAre, MovesPreserve
  <1>2. CASE ~FailArmed(p)
    <2>1. Staged(p) # NoDirectory /\ pc[p] = "sync"
      BY <1>2 DEF SyncStaging, At
    <2>2. PICK d \in Publishers : d = Staged(p)
      BY <2>1, StagedIsUnseen
    <2>3. /\ \/ disk'.files = [disk.files EXCEPT ![d] = files[d]] /\ UNCHANGED skipped
             \/ disk'.files = disk.files /\ skipped' = skipped \cup {<<p, "sync">>}
          /\ disk'.entries = disk.entries
          /\ pc' = [pc EXCEPT ![p] = "publish"]
          /\ UNCHANGED <<stamp, result, migrations, entries, files, powerLosses, lost>>
      BY <1>2, <2>2 DEF SyncStaging, SyncSkipped, Goto, fileVars
    <2>4. \A q \in Publishers : q # p => pc'[q] = pc[q]
      BY <2>3
    <2>5. pc'[p] = "publish"
      BY <2>3
    <2>6. /\ skipped \subseteq skipped'
          /\ \A q \in Publishers : disk'.files[q] \in {disk.files[q], files[q]}
      BY <2>3
    <2>7. EntriesInv'
      BY <2>1, <2>3, <2>4, <2>5 DEF EntriesInv, Free, Uncreated, Working
    <2>8. DiskInv'
      BY <2>1, <2>3, <2>4, <2>5 DEF DiskInv, Uncreated
    <2>9. LockInv'
      BY <2>1, <2>3, <2>4, <2>5 DEF LockInv, Free, Staged, Working
    <2>10. WrittenInv'
      <3>1. Free(stamp[p]) => <<p, "sync">> \in skipped' \/ disk'.files[p] = files[p]
        BY <2>1, <2>2, <2>3 DEF LockInv, Working
      <3>2. ASSUME NEW q \in Publishers, pc'[q] \in Uncreated
            PROVE  files[q] = NoFiles /\ disk'.files[q] = NoFiles
        BY <2>4, <2>5, <2>6, <3>2 DEF WrittenInv, Uncreated
      <3>3. ASSUME NEW q \in Publishers, Free(stamp[q]), pc'[q] \in Working
            PROVE  /\ Own(q, files) /\ Own(q, disk'.files)
                   /\ pc'[q] \in {"down", "sync", "publish"} => files[q].up = q
                   /\ pc'[q] \in {"sync", "publish"} => files[q].down = q
                   /\ pc'[q] = "publish" => <<q, "sync">> \in skipped' \/ disk'.files[q] = files[q]
        BY <2>1, <2>4, <2>5, <2>6, <3>1, <3>3 DEF WrittenInv, Own, Working
      <3>. QED  BY <2>3, <3>2, <3>3 DEF WrittenInv, Free, Working
    <2>11. PublishedInv'
      <3>1. ASSUME NEW t \in Stamps, NEW e \in Publishers, e = entries.final[t]
            PROVE  /\ Own(e, files) /\ Own(e, disk'.files)
                   /\ powerLosses = 0 \/ <<e, "sync">> \notin skipped' =>
                        files[e].up = e /\ files[e].down = e
                   /\ <<e, "sync">> \in skipped' \/ disk'.files[e] = files[e]
        <4>1. e # NoDirectory
          BY NoDirectoryAssumption
        <4>. QED  BY <2>6, <3>1, <4>1 DEF PublishedInv, Own
      <3>. QED  BY <2>3, <3>1 DEF PublishedInv, Entries, Directory
    <2>12. ReturnInv'
      BY <2>1, <2>3, <2>4, <2>5 DEF ReturnInv, Uncreated, Working, Staged
    <2>13. ReportInv'
      BY <2>3, <2>6, ReportsStand
    <2>14. ParentInv'
      BY <2>3 DEF ParentInv
    <2>. QED  BY <2>7, <2>8, <2>9, <2>10, <2>11, <2>12, <2>13, <2>14
  <1>. QED  BY <1>1, <1>2

\* The one publisher at work under a free timestamp renames its own directory.
LEMMA PublishPreserves ==
  ASSUME PInv, PublishTypeOK', NEW p \in Publishers, Publish(p)
  PROVE  PInv'
  <1>. USE DEF PInv, PublishTypeOK
  <1>1. CASE FailArmed(p)
    <2>1. pc[p] \in Working
      BY DEF Publish, At, Working
    <2>. QED  BY <1>1, <2>1, MovesAre, MovesPreserve
  <1>2. CASE ~FailArmed(p)
    <2>1. /\ pc[p] = "publish" /\ Staged(p) # NoDirectory /\ Free(stamp[p])
          /\ stamp[p] \in Stamps
      BY <1>2 DEF Publish, At, Free
    <2>2. Staged(p) = p
      BY <2>1 DEF LockInv, Working
    <2>3. /\ entries'.final = [entries.final EXCEPT ![stamp[p]] = p]
          /\ entries'.staging = [entries.staging EXCEPT ![stamp[p]] = NoDirectory]
          /\ pc' = [pc EXCEPT ![p] = "sync_parent"]
          /\ UNCHANGED <<stamp, result, migrations, files, disk, powerLosses, lost, skipped>>
      <3>1. /\ entries' = [entries EXCEPT !.final[stamp[p]] = Staged(p),
                                           !.staging[stamp[p]] = NoDirectory]
            /\ pc' = [pc EXCEPT ![p] = "sync_parent"]
            /\ UNCHANGED <<stamp, result, migrations, files, disk, powerLosses, lost, skipped>>
        BY <1>2 DEF Publish, Goto
      <3>2. entries \in Entries
        OBVIOUS
      <3>. QED  BY <2>2, <3>1, <3>2 DEF Entries
    <2>4. \A q \in Publishers : q # p => pc'[q] = pc[q]
      BY <2>3
    <2>5. pc'[p] = "sync_parent"
      BY <2>3
    <2>6. /\ entries'.final[stamp[p]] = p
          /\ entries'.staging[stamp[p]] = NoDirectory
          /\ \A t \in Stamps : t # stamp[p] => /\ entries'.final[t] = entries.final[t]
                                               /\ entries'.staging[t] = entries.staging[t]
      BY <2>1, <2>3 DEF Entries
    <2>7. result[p] = "none" /\ p # NoDirectory
      BY <2>1, NoDirectoryAssumption DEF ReturnInv, Working
    <2>8. EntriesInv'
      <3>1. \A t \in Stamps : entries.staging[t] \in Directory /\ entries.final[t] \in Directory
        BY DEF Entries
      <3>. QED  BY <2>1, <2>3, <2>4, <2>5, <2>6, <2>7, <3>1
                DEF EntriesInv, Free, Uncreated, Working, Directory
    <2>9. DiskInv'
      <3>1. disk.entries.final[stamp[p]] = NoDirectory
        BY <2>1 DEF DiskInv, Free
      <3>. QED  BY <2>1, <2>3, <2>4, <2>5, <2>6, <3>1 DEF DiskInv, Uncreated
    <2>10. LockInv'
      BY <2>1, <2>3, <2>4, <2>5, <2>6, <2>7 DEF LockInv, Free, Staged, Working
    <2>11. WrittenInv'
      <3>1. \A t \in Stamps : Free(t)' => Free(t)
        BY <2>1, <2>6 DEF Free
      <3>. QED  BY <2>3, <2>4, <2>5, <3>1, WritingStands DEF Uncreated, Working
    <2>12. PublishedInv'
      <3>1. /\ Own(p, files) /\ Own(p, disk.files)
            /\ files[p].up = p /\ files[p].down = p
            /\ <<p, "sync">> \in skipped \/ disk.files[p] = files[p]
        BY <2>1 DEF WrittenInv, Working
      <3>. QED  BY <2>3, <2>6, <3>1 DEF PublishedInv, Own
    <2>13. ReturnInv'
      <3>1. ASSUME NEW q \in Publishers, pc'[q] = "sync_parent"
            PROVE  entries'.final[stamp[q]] = q
        BY <2>1, <2>4, <2>6, <3>1, NoDirectoryAssumption DEF ReturnInv, Free
      <3>2. ASSUME NEW q \in Publishers, Staged(q) # q
            PROVE  entries'.staging[stamp[q]] # q
        BY <2>6, <3>2, NoDirectoryAssumption DEF Staged
      <3>. QED  BY <2>3, <2>4, <2>5, <3>1, <3>2 DEF ReturnInv, Uncreated, Working, Staged
    <2>14. ReportInv'
      <3>1. \A t \in Stamps : entries.final[t] # NoDirectory => entries'.final[t] = entries.final[t]
        BY <2>1, <2>6 DEF Free
      <3>. QED  BY <2>3, <3>1, ReportsStand
    <2>15. ParentInv'
      <3>1. entries.staging[stamp[p]] # NoDirectory
        BY <2>1 DEF Staged
      <3>2. migrations
        BY <2>1, <3>1 DEF ParentInv, NoEntries
      <3>. QED  BY <2>3, <3>2 DEF ParentInv
    <2>. QED  BY <2>8, <2>9, <2>10, <2>11, <2>12, <2>13, <2>14, <2>15
  <1>. QED  BY <1>1, <1>2

\* From its return on, what a publisher published is on disk.
LEMMA SyncParentPreserves ==
  ASSUME PInv, PublishTypeOK', NEW p \in Publishers, SyncParent(p)
  PROVE  PInv'
  <1>. USE DEF PInv, PublishTypeOK
  <1>1. CASE pc' = [pc EXCEPT ![p] = "drop"]
    <2>1. pc[p] = "sync_parent" /\ "drop" # "done"
      BY DEF SyncParent, At
    <2>2. Returns(p, "uncertain") /\ UNCHANGED <<stamp, fileVars, disk, powerLosses, lost, skipped>>
      <3>1. pc'[p] = "drop"
        BY <1>1
      <3>2. ~ Goto(p, "done")
        BY <3>1 DEF Goto
      <3>. QED  BY <3>2 DEF SyncParent
    <2>3. migrations \/ entries = NoEntries
      BY DEF ParentInv
    <2>4. PublisherMoves(p)
      BY <1>1, <2>1, <2>2, <2>3 DEF PublisherMoves, Steps, Outcomes, Returns, fileVars
    <2>. QED  BY <2>4, MovesPreserve
  <1>2. CASE pc' = [pc EXCEPT ![p] = "done"]
    <2>1. pc[p] = "sync_parent" /\ stamp[p] \in Stamps
      BY DEF SyncParent, At
    <2>2. pc'[p] = "done"
      BY <1>2
    <2>3. /\ \/ disk'.entries = entries /\ UNCHANGED skipped
             \/ disk'.entries = disk.entries /\ skipped' = skipped \cup {<<p, "sync_parent">>}
          /\ disk'.files = disk.files
          /\ result' = [result EXCEPT ![p] = "ok"]
          /\ UNCHANGED <<stamp, migrations, entries, files, powerLosses, lost>>
      <3>1. ~ Goto(p, "drop")
        BY <2>2 DEF Goto
      <3>. QED  BY <3>1 DEF SyncParent, SyncSkipped, Returns, fileVars
    <2>4. \A q \in Publishers : q # p => pc'[q] = pc[q] /\ result'[q] = result[q]
      BY <1>2, <2>3
    <2>5. result'[p] = "ok"
      BY <2>3
    <2>6. entries.final[stamp[p]] = p /\ p # NoDirectory
      BY <2>1, NoDirectoryAssumption DEF ReturnInv
    <2>7. EntriesInv'
      <3>1. \A t \in Stamps : entries.staging[t] \in Directory /\ entries.final[t] \in Directory
        BY DEF Entries
      <3>. QED  BY <2>1, <2>2, <2>3, <2>4, <2>5, <3>1
                DEF EntriesInv, Free, Uncreated, Working, Directory
    <2>8. DiskInv'
      <3>1. CASE disk'.entries = entries
        BY <2>3, <2>7, <3>1 DEF DiskInv, EntriesInv, Free
      <3>2. CASE disk'.entries = disk.entries
        <4>1. \A t \in Stamps : disk.entries.staging[t] \in Directory
          BY DEF Entries
        <4>. QED  BY <2>1, <2>2, <2>3, <2>4, <3>2, <4>1 DEF DiskInv, Uncreated, Directory
      <3>. QED  BY <2>3, <3>1, <3>2
    <2>9. LockInv'
      BY <2>2, <2>3, <2>4 DEF LockInv, Free, Staged, Working
    <2>10. WrittenInv'
      <3>1. \A q \in Publishers : <<q, "sync">> \in skipped' <=> <<q, "sync">> \in skipped
        BY <2>3
      <3>. QED  BY <2>2, <2>3, <2>4, <3>1, WritingStands DEF Free, Uncreated, Working
    <2>11. PublishedInv'
      <3>1. \A e : <<e, "sync">> \in skipped' <=> <<e, "sync">> \in skipped
        BY <2>3
      <3>. QED  BY <2>3, <3>1 DEF PublishedInv, Own
    <2>12. ReturnInv'
      <3>1. Staged(p) # p
        BY <2>1, <2>6 DEF EntriesInv, Free, Staged
      <3>. QED  BY <2>2, <2>3, <2>4, <2>5, <2>6, <3>1 DEF ReturnInv, Uncreated, Working, Staged
    <2>13. ReportInv'
      <3>1. ASSUME NEW q \in Publishers, q # p, result[q] = "ok", ~lost,
                   <<q, "sync_parent">> \notin skipped
            PROVE  disk'.entries.final[stamp[q]] = q
        <4>1. disk.entries.final[stamp[q]] = q
          BY <3>1 DEF ReportInv
        <4>2. entries.final[stamp[q]] = q
          BY <4>1, NoDirectoryAssumption DEF DiskInv
        <4>. QED  BY <2>3, <4>1, <4>2
      <3>2. <<p, "sync_parent">> \notin skipped' => disk'.entries.final[stamp[p]] = p
        BY <2>3, <2>6
      <3>3. skipped \subseteq skipped'
        BY <2>3
      <3>. QED  BY <2>3, <2>4, <2>6, <3>1, <3>2, <3>3 DEF ReportInv
    <2>14. ParentInv'
      BY <2>3 DEF ParentInv
    <2>. QED  BY <2>7, <2>8, <2>9, <2>10, <2>11, <2>12, <2>13, <2>14
  <1>. QED  BY <1>1, <1>2 DEF SyncParent, Goto

\* A clean-up removes what is staged under the timestamp: under a free one, that
\* is its own directory.
LEMMA DropPreserves ==
  ASSUME PInv, PublishTypeOK', NEW p \in Publishers, Drop(p)
  PROVE  PInv'
  <1>. USE DEF PInv, PublishTypeOK
  <1>1. CASE pc' = [pc EXCEPT ![p] = "leaked"]
    <2>1. pc[p] = "drop" /\ pc'[p] = "leaked"
      BY <1>1 DEF Drop, At
    <2>2. UNCHANGED <<stamp, result, migrations, entries, files, disk, powerLosses, lost, skipped>>
      <3>1. ~ Goto(p, AfterRemoval(p))
        BY <2>1 DEF Goto, AfterRemoval
      <3>. QED  BY <3>1 DEF Drop
    <2>3. migrations \/ entries = NoEntries
      BY DEF ParentInv
    <2>4. result' = [result EXCEPT ![p] = result[p]]
      BY <2>2
    <2>5. PublisherMoves(p)
      BY <1>1, <2>1, <2>2, <2>3, <2>4 DEF PublisherMoves, Steps
    <2>. QED  BY <2>5, MovesPreserve
  <1>2. CASE pc' # [pc EXCEPT ![p] = "leaked"]
    <2>1. PICK s \in {"drop_parent", "done"} : s = AfterRemoval(p)
      BY DEF AfterRemoval
    <2>2. /\ pc[p] = "drop" /\ stamp[p] \in Stamps
          /\ pc' = [pc EXCEPT ![p] = s]
          /\ entries' = [entries EXCEPT !.staging[stamp[p]] = NoDirectory]
          /\ UNCHANGED <<stamp, result, migrations, files, disk, powerLosses, lost, skipped>>
      BY <1>2, <2>1 DEF Drop, At, Goto
    <2>3. \A q \in Publishers : q # p => pc'[q] = pc[q]
      BY <2>2
    <2>4. pc'[p] = s
      BY <2>2
    <2>5. /\ entries'.final = entries.final
          /\ entries'.staging[stamp[p]] = NoDirectory
          /\ \A t \in Stamps : t # stamp[p] => entries'.staging[t] = entries.staging[t]
      BY <2>2 DEF Entries
    <2>6. EntriesInv'
      <3>1. \A t \in Stamps : entries.staging[t] \in Directory /\ entries.final[t] \in Directory
        BY DEF Entries
      <3>. QED  BY <2>2, <2>3, <2>4, <2>5, <3>1
                DEF EntriesInv, Free, Uncreated, Working, Directory
    <2>7. DiskInv'
      BY <2>2, <2>3, <2>4, <2>5 DEF DiskInv, Uncreated
    <2>8. LockInv'
      <3>1. ASSUME NEW q \in Publishers, q # p, pc[q] \in Working \cup {"drop"}, Free(stamp[q])
            PROVE  entries'.staging[stamp[q]] = q
        <4>1. Staged(q) = q
          BY <3>1 DEF LockInv
        <4>2. CASE stamp[q] = stamp[p]
          BY <2>2, <3>1, <4>1, <4>2 DEF LockInv, Staged
        <4>3. CASE stamp[q] # stamp[p]
          BY <2>5, <4>1, <4>3 DEF Staged
        <4>. QED  BY <4>2, <4>3
      <3>. QED  BY <2>2, <2>3, <2>4, <2>5, <3>1 DEF LockInv, Free, Staged, Working
    <2>9. WrittenInv'
      <3>1. \A q \in Publishers : pc'[q] \in Uncreated \cup Working => pc'[q] = pc[q]
        BY <2>1, <2>3, <2>4 DEF Uncreated, Working
      <3>2. \A t : Free(t)' <=> Free(t)
        BY <2>5 DEF Free
      <3>3. files' = files /\ disk' = disk /\ skipped' = skipped /\ stamp' = stamp
        BY <2>2
      <3>4. WrittenInv
        OBVIOUS
      <3>. QED  BY ONLY <3>1, <3>2, <3>3, <3>4 DEF WrittenInv, Own, Uncreated, Working
    <2>10. PublishedInv'
      BY <2>2, <2>5 DEF PublishedInv, Own
    <2>11. ReturnInv'
      <3>1. ASSUME NEW q \in Publishers, Staged(q) # q
            PROVE  entries'.staging[stamp[q]] # q
        BY <2>5, <3>1, NoDirectoryAssumption DEF Staged
      <3>2. entries'.staging[stamp[p]] # p
        BY <2>5, NoDirectoryAssumption
      <3>. QED  BY <2>2, <2>3, <2>4, <2>5, <3>1, <3>2 DEF ReturnInv, Uncreated, Working, Staged
    <2>12. ReportInv'
      BY <2>2, <2>5, ReportsStand
    <2>13. ParentInv'
      <3>1. ASSUME entries = NoEntries PROVE entries' = NoEntries
        <4>1. entries.staging[stamp[p]] = NoDirectory
          BY <2>2, <3>1 DEF NoEntries
        <4>2. entries' = entries
          BY <2>2, <4>1 DEF Entries
        <4>. QED  BY <3>1, <4>2
      <3>. QED  BY <2>2, <3>1 DEF ParentInv
    <2>. QED  BY <2>6, <2>7, <2>8, <2>9, <2>10, <2>11, <2>12, <2>13
  <1>. QED  BY <1>1, <1>2

-----------------------------------------------------------------------------
(***************************************************************************)
(* The kernel and the power.                                               *)
(***************************************************************************)
\* What the kernel writes back early is no less true.
LEMMA WriteBackPreserves ==
  ASSUME PInv, PublishTypeOK', WriteBack
  PROVE  PInv'
  <1>. USE DEF PInv, PublishTypeOK
  <1>1. UNCHANGED <<pc, stamp, result, migrations, entries, files, powerLosses, lost, skipped>>
    BY DEF WriteBack, processVars, fileVars
  <1>2. disk'.entries \in {disk.entries, entries}
    BY DEF WriteBack
  <1>3. \A d \in Publishers : disk'.files[d] \in {disk.files[d], files[d]}
    BY DEF WriteBack
  <1>4. EntriesInv' /\ LockInv' /\ ParentInv'
    BY <1>1 DEF EntriesInv, LockInv, ParentInv, Free, Staged
  <1>5. DiskInv'
    BY <1>1, <1>2 DEF DiskInv, EntriesInv, Free
  <1>6. WrittenInv' /\ PublishedInv'
    <2>1. ASSUME NEW d \in Publishers
          PROVE  /\ Own(d, files) /\ Own(d, disk.files) => Own(d, disk'.files)
                 /\ files[d] = NoFiles /\ disk.files[d] = NoFiles => disk'.files[d] = NoFiles
                 /\ disk.files[d] = files[d] => disk'.files[d] = files[d]
      BY <1>3 DEF Own
    <2>2. WrittenInv'
      BY <1>1, <2>1 DEF WrittenInv, Free, Own
    <2>3. PublishedInv'
      BY <1>1, <2>1 DEF PublishedInv, Own, Entries, Directory
    <2>. QED  BY <2>2, <2>3
  <1>7. ReturnInv' /\ ReportInv'
    <2>1. ReportInv'
      BY <1>1, <1>2, ReportsStand
    <2>. QED  BY <1>1, <2>1 DEF ReturnInv, Staged
  <1>. QED  BY <1>4, <1>5, <1>6, <1>7

\* A power loss ends every publisher at work, and leaves what was synchronized.
LEMMA PowerLossPreserves ==
  ASSUME PInv, PublishTypeOK', PowerLoss
  PROVE  PInv'
  <1>. USE DEF PInv, PublishTypeOK
  <1>1. /\ pc' = [p \in Publishers |-> IF InProgress(p) THEN "dead" ELSE pc[p]]
        /\ powerLosses' = powerLosses + 1
        /\ lost' = (lost \/ (migrations /\ ~disk.migrations))
        /\ migrations' = disk.migrations
        /\ entries' = IF disk.migrations THEN disk.entries ELSE NoEntries
        /\ files' = disk.files
        /\ disk'.entries = entries' /\ disk'.files = disk.files
        /\ UNCHANGED <<stamp, result, skipped>>
    BY DEF PowerLoss
  <1>2. \A p \in Publishers :
          /\ pc'[p] \in {"idle", "done", "leaked", "dead"}
          /\ pc'[p] \in Uncreated => pc[p] = pc'[p]
    BY <1>1 DEF InProgress, Uncreated
  <1>3. powerLosses' # 0
    BY <1>1
  <1>4. \A t \in Stamps :
          /\ entries'.staging[t] \in {NoDirectory, disk.entries.staging[t]}
          /\ entries'.final[t] \in {NoDirectory, disk.entries.final[t]}
    BY <1>1 DEF NoEntries
  <1>5. \A t \in Stamps :
          /\ entries'.final[t] # NoDirectory => entries'.final[t] = entries.final[t]
          /\ entries'.staging[t] = entries'.final[t] => entries'.final[t] = NoDirectory
    BY <1>1, <1>4 DEF DiskInv, NoEntries
  <1>6. \A t \in Stamps : entries'.staging[t] \in Directory /\ entries'.final[t] \in Directory
    BY DEF Entries
  <1>7. EntriesInv'
    <2>1. ASSUME NEW t \in Stamps, entries'.staging[t] # NoDirectory
          PROVE  /\ stamp[entries'.staging[t]] = t
                 /\ pc'[entries'.staging[t]] \notin Uncreated
      BY <1>2, <1>4, <1>6, <2>1 DEF DiskInv, Directory
    <2>2. ASSUME NEW t \in Stamps, entries'.final[t] # NoDirectory
          PROVE  /\ stamp[entries'.final[t]] = t
                 /\ pc'[entries'.final[t]] \notin Uncreated \cup Working
                 /\ result[entries'.final[t]] # "failed"
      <3>1. /\ entries'.final[t] = entries.final[t]
            /\ entries.final[t] # NoDirectory /\ entries.final[t] \in Publishers
        BY <1>5, <1>6, <2>2 DEF Directory
      <3>2. PICK d \in Publishers : d = entries.final[t]
        BY <3>1
      <3>3. stamp[d] = t /\ pc[d] \notin Uncreated \cup Working /\ result[d] # "failed"
        BY <3>1, <3>2 DEF EntriesInv
      <3>. QED  BY <1>2, <3>1, <3>2, <3>3 DEF Working
    <2>. QED  BY <1>1, <1>5, <2>1, <2>2 DEF EntriesInv, Free
  <1>8. DiskInv'
    BY <1>1, <1>7 DEF DiskInv, EntriesInv, Free
  <1>9. LockInv' /\ WrittenInv'
    BY <1>1, <1>2 DEF LockInv, WrittenInv, Working
  <1>10. PublishedInv'
    <2>1. ASSUME NEW t \in Stamps, entries'.final[t] # NoDirectory
          PROVE  LET d == entries'.final[t] IN
                 /\ Own(d, disk.files)
                 /\ <<d, "sync">> \notin skipped => disk.files[d].up = d /\ disk.files[d].down = d
      BY <1>5, <2>1 DEF PublishedInv
    <2>. QED  BY <1>1, <1>3, <2>1 DEF PublishedInv, Own
  <1>11. ReturnInv' /\ ReportInv'
    <2>1. ASSUME NEW q \in Publishers, result[q] = "ok", ~lost', <<q, "sync_parent">> \notin skipped
          PROVE  entries'.final[stamp[q]] = q
      <3>1. disk.entries.final[stamp[q]] = q /\ entries.final[stamp[q]] = q
        <4>1. disk.entries.final[stamp[q]] = q
          BY <1>1, <2>1 DEF ReportInv
        <4>. QED  BY <4>1, NoDirectoryAssumption DEF DiskInv
      <3>2. migrations
        BY <3>1, NoDirectoryAssumption DEF ParentInv, NoEntries
      <3>3. disk.migrations
        BY <1>1, <2>1, <3>2
      <3>. QED  BY <1>1, <3>1, <3>3
    <2>2. ASSUME NEW q \in Publishers, pc'[q] \in Uncreated \cup Working
          PROVE  result[q] = "none"
      BY <1>2, <2>2 DEF ReturnInv, Working
    <2>3. ReturnInv'
      BY <1>1, <1>2, <1>3, <2>2 DEF ReturnInv
    <2>4. ReportInv'
      BY <1>1, <1>3, <2>1 DEF ReportInv
    <2>. QED  BY <2>3, <2>4
  <1>12. ParentInv'
    BY <1>1 DEF ParentInv
  <1>. QED  BY <1>7, <1>8, <1>9, <1>10, <1>11, <1>12

-----------------------------------------------------------------------------
\* At first there is nothing.
LEMMA PublishInitially == PublishInit => PInv
  <1>. SUFFICES ASSUME PublishInit PROVE PInv
    OBVIOUS
  <1>1. /\ \A p \in Publishers : pc[p] = "idle" /\ result[p] = "none"
        /\ entries = NoEntries /\ disk.entries = NoEntries
        /\ \A t \in Stamps : NoEntries.staging[t] = NoDirectory /\ NoEntries.final[t] = NoDirectory
    BY DEF PublishInit, NoEntries
  <1>2. PublishTypeOK
    <2>1. NoEntries \in Entries
      BY DEF NoEntries, Entries, Directory
    <2>2. NoFiles \in Files
      BY DEF NoFiles, Files, Content
    <2>3. 0 \in 0 .. MaxPowerLosses
      BY MaxPowerLossesAssumption
    <2>. QED  BY <2>1, <2>2, <2>3 DEF PublishInit, PublishTypeOK, Steps, Outcomes
  <1>3. EntriesInv /\ DiskInv /\ PublishedInv /\ ParentInv
    BY <1>1 DEF EntriesInv, DiskInv, PublishedInv, ParentInv, Free
  <1>4. LockInv /\ WrittenInv
    BY <1>1 DEF LockInv, WrittenInv, Working, PublishInit
  <1>5. ReturnInv /\ ReportInv
    BY <1>1 DEF ReturnInv, ReportInv
  <1>. QED  BY <1>2, <1>3, <1>4, <1>5 DEF PInv

\* No step breaks the invariant.
LEMMA PublishNextPreserves ==
  ASSUME PInv, [PublishNext]_publishVars
  PROVE  PInv'
  <1>1. PublishTypeOK'
    BY TypesPreserved DEF PInv
  <1>2. ASSUME NEW p \in Publishers, PublishStep(p) PROVE PInv'
    <2>1. CASE Write(p)
      BY <1>1, <2>1, WritePreserves DEF Write, At
    <2>2. CASE CreateStaging(p)
      BY <1>1, <2>2, CreateStagingPreserves
    <2>3. CASE SyncStaging(p)
      BY <1>1, <2>3, SyncStagingPreserves
    <2>4. CASE Publish(p)
      BY <1>1, <2>4, PublishPreserves
    <2>5. CASE SyncParent(p)
      BY <1>1, <2>5, SyncParentPreserves
    <2>6. CASE Drop(p)
      BY <1>1, <2>6, DropPreserves
    <2>7. CASE \/ Begin(p) \/ ClockFails(p) \/ CreateParent(p) \/ CreateParentFails(p)
               \/ CreateStagingFails(p) \/ DropParent(p) \/ Dies(p)
      BY <1>1, <2>7, MovesAre, MovesPreserve
    <2>. QED  BY <1>2, <2>1, <2>2, <2>3, <2>4, <2>5, <2>6, <2>7 DEF PublishStep
  <1>3. CASE WriteBack
    BY <1>1, <1>3, WriteBackPreserves
  <1>4. CASE PowerLoss
    BY <1>1, <1>4, PowerLossPreserves
  <1>5. CASE UNCHANGED publishVars
    BY <1>5 DEF publishVars, processVars, fileVars, PInv, PublishTypeOK, EntriesInv, DiskInv,
                LockInv, WrittenInv, PublishedInv, ReturnInv, ReportInv, ParentInv, Free, Own, Staged
  <1>. QED  BY <1>2, <1>3, <1>4, <1>5 DEF PublishNext

\* The invariant holds in every behaviour, whatever fails and whoever dies.
THEOREM PublishInvariance == PublishSpec => []PInv
  <1>1. PInv /\ [PublishNext]_publishVars => PInv'
    BY PublishNextPreserves
  <1>. QED  BY PublishInitially, <1>1, PTL DEF PublishSpec

\* Publication is all or nothing, and the result tells which: what is visible is
\* complete, before and after a power loss; what was reported published is
\* there; what was reported failed left nothing behind.
THEOREM PublicationAtomic == PublishSpec => []PublicationIsAtomic
  <1>1. ASSUME PInv PROVE PublicationIsAtomic
    <2>. USE <1>1 DEF PInv, PublishTypeOK
    <2>1. PublishedIsComplete
      BY DEF PublishedIsComplete, PublishedInv, Complete, Entries, Directory
    <2>2. SuccessIsDurable
      <3>1. ASSUME NEW p \in Publishers, result[p] = "ok", ~lost, <<p, "sync_parent">> \notin skipped
            PROVE  /\ disk.entries.final[stamp[p]] = p /\ p # NoDirectory
                   /\ entries.final[stamp[p]] = p /\ stamp[p] \in Stamps
        <4>1. disk.entries.final[stamp[p]] = p
          BY <3>1 DEF ReportInv
        <4>. QED  BY <4>1, NoDirectoryAssumption DEF DiskInv
      <3>2. ASSUME NEW p \in Publishers, result[p] = "ok", powerLosses = 0
            PROVE  entries.final[stamp[p]] = p
        BY <3>2 DEF ReportInv
      <3>3. ASSUME NEW p \in Publishers, NEW t \in Stamps, entries.final[t] = p, p # NoDirectory,
                   <<p, "sync">> \notin skipped
            PROVE  files[p].up = p
        BY <3>3 DEF PublishedInv
      <3>. QED  BY <3>1, <3>2, <3>3 DEF SuccessIsDurable
    <2>3. FailureIsInvisible
      <3>1. ASSUME NEW p \in Publishers, result[p] = "failed", NEW t \in Stamps,
                   NEW d \in Publishers, d = entries.final[t], d # NoDirectory
            PROVE  d # p /\ files[d].up # p /\ files[d].down # p
        <4>1. d # p /\ Own(d, files)
          BY <3>1 DEF EntriesInv, PublishedInv
        <4>2. p # Absent
          BY PublishersAssumption
        <4>. QED  BY <4>1, <4>2 DEF Own
      <3>. QED  BY <3>1 DEF FailureIsInvisible, Entries, Directory
    <2>4. NoStagingLeft
      BY DEF NoStagingLeft, ReturnInv
    <2>. QED  BY <2>1, <2>2, <2>3, <2>4 DEF PublicationIsAtomic, FailureLeavesNothing
  <1>. QED  BY <1>1, PublishInvariance, PTL

\* What was published stays as it is, whatever the other publishers and their
\* clean-ups do; only a power loss may take it.
THEOREM PublishedKept == PublishSpec => PublishedIsKept
  <1>. DEFINE Kept == \A t \in Stamps :
                        entries.final[t] # NoDirectory /\ powerLosses' = powerLosses =>
                          entries'.final[t] = entries.final[t]
  <1>1. ASSUME PInv, [PublishNext]_publishVars PROVE [Kept]_publishVars
    <2>. SUFFICES ASSUME ~ UNCHANGED publishVars, NEW t \in Stamps,
                         entries.final[t] # NoDirectory, powerLosses' = powerLosses
                  PROVE  entries'.final[t] = entries.final[t]
      OBVIOUS
    <2>. USE <1>1 DEF PInv, PublishTypeOK
    <2>1. ASSUME NEW p \in Publishers, CreateStaging(p) \/ Drop(p)
          PROVE  entries'.final[t] = entries.final[t]
      BY <2>1 DEF CreateStaging, Drop, Entries
    <2>2. ASSUME NEW p \in Publishers, Publish(p)
          PROVE  entries'.final[t] = entries.final[t]
      <3>1. CASE FailArmed(p)
        BY <3>1 DEF FailArmed, fileVars
      <3>2. CASE ~ FailArmed(p)
        <4>1. /\ entries.final[stamp[p]] = NoDirectory
              /\ entries'.final = [entries.final EXCEPT ![stamp[p]] = Staged(p)]
          BY <2>2, <3>2 DEF Publish, Entries
        <4>. QED  BY <4>1 DEF Entries
      <3>. QED  BY <3>1, <3>2
    <2>3. ASSUME NEW p \in Publishers, PublishStep(p),
                 ~ (CreateStaging(p) \/ Drop(p) \/ Publish(p))
          PROVE  UNCHANGED entries
      BY <2>3 DEF PublishStep, Begin, ClockFails, CreateParent, CreateParentFails,
                  CreateStagingFails, Write, WriteFile, WriteFileFails, SyncStaging, FailArmed,
                  SyncParent, DropParent, Dies, fileVars
    <2>4. CASE WriteBack
      BY <2>4 DEF WriteBack, fileVars
    <2>5. ~ PowerLoss
      BY DEF PowerLoss
    <2>. QED  BY <2>1, <2>2, <2>3, <2>4, <2>5 DEF PublishNext
  <1>2. PInv /\ [PublishNext]_publishVars => [Kept]_publishVars
    BY <1>1
  <1>. QED  BY <1>2, PublishInvariance, PTL DEF PublishSpec, PublishedIsKept

-----------------------------------------------------------------------------
(***************************************************************************)
(* The inductive invariant. While the loop runs, the pending actions are   *)
(* one of the lists transition() returns, or what is left of it, and each  *)
(* of them goes with one situation of the children: none is there when one *)
(* is to be started, one is there when one is to be stopped.               *)
(***************************************************************************)
BuildKnown == build_running = (build # NoTask)
BuildDue == build_running /\ build = NoTask

Settled ==
  /\ ~shutting_down
  /\ application_running = (application # NoApplication)
  /\ \/ actions = <<>> /\ BuildKnown
     \/ actions = <<Build>> /\ BuildDue

Starting ==
  /\ ~shutting_down
  /\ application_running
  /\ application = NoApplication
  /\ \E v \in Version :
       \/ actions = <<StartOf(v)>> /\ BuildKnown
       \/ actions = <<StartOf(v), Build>> /\ BuildDue

Replacing ==
  /\ ~shutting_down
  /\ application_running
  /\ application # NoApplication
  /\ \E v \in Version :
       \/ actions = <<Stop, StartOf(v)>> /\ BuildKnown
       \/ actions = <<Stop, StartOf(v), Build>> /\ BuildDue
       \/ actions = <<RestartOf(v)>> /\ BuildKnown

Leaving ==
  /\ shutting_down
  /\ ~application_running /\ ~build_running
  /\ build = NoTask
  /\ \/ actions = <<Exit>> /\ application = NoApplication
     \/ actions = <<Stop, Exit>> /\ application # NoApplication

ListInv == loop = "running" => Settled \/ Starting \/ Replacing \/ Leaving

\* An application was started from a build, and an impact waits only while one runs.
KnownInv ==
  loop = "running" =>
    /\ application_running => last_successful # NoBuild
    /\ ~build_running => pending = "None"

DevInv ==
  /\ DevTypeOK
  /\ ListInv
  /\ KnownInv
  /\ NothingLeftBehind
  /\ NoLostRebuild
  /\ NoStaleConfiguration

-----------------------------------------------------------------------------
(***************************************************************************)
(* Lemmas about channels and lists of actions.                             *)
(***************************************************************************)
\* Whether one of some values is in a channel.
Holds(channel, wanted) == \E i \in DOMAIN channel : channel[i] \in wanted

\* Sending adds one value to a channel.
LEMMA Sending ==
  ASSUME NEW S, NEW channel \in Seq(S), NEW e \in S, NEW wanted
  PROVE  /\ Append(channel, e) \in Seq(S)
         /\ Holds(Append(channel, e), wanted) <=> Holds(channel, wanted) \/ e \in wanted
  <1>1. /\ Append(channel, e) \in Seq(S)
        /\ Len(Append(channel, e)) = Len(channel) + 1
        /\ Append(channel, e)[Len(channel) + 1] = e
        /\ \A i \in 1 .. Len(channel) : Append(channel, e)[i] = channel[i]
        /\ Len(channel) \in Nat
        /\ DOMAIN channel = 1 .. Len(channel)
        /\ DOMAIN Append(channel, e) = 1 .. Len(channel) + 1
    OBVIOUS
  <1>2. Holds(channel, wanted) => Holds(Append(channel, e), wanted)
    BY <1>1 DEF Holds
  <1>3. e \in wanted => Holds(Append(channel, e), wanted)
    <2>1. Len(channel) + 1 \in DOMAIN Append(channel, e)
      BY <1>1
    <2>. QED  BY <1>1, <2>1 DEF Holds
  <1>4. ASSUME Holds(Append(channel, e), wanted), e \notin wanted
        PROVE  Holds(channel, wanted)
    <2>1. PICK i \in 1 .. Len(channel) + 1 : Append(channel, e)[i] \in wanted
      BY <1>1, <1>4 DEF Holds
    <2>2. i # Len(channel) + 1
      BY <1>1, <1>4, <2>1
    <2>3. i \in 1 .. Len(channel)
      BY <1>1, <2>1, <2>2
    <2>. QED  BY <1>1, <2>1, <2>3 DEF Holds
  <1>. QED  BY <1>1, <1>2, <1>3, <1>4

\* Receiving takes the first value off a channel.
LEMMA Receiving ==
  ASSUME NEW S, NEW channel \in Seq(S), channel # <<>>, NEW wanted
  PROVE  /\ Head(channel) \in S
         /\ Tail(channel) \in Seq(S)
         /\ Holds(channel, wanted) <=> Head(channel) \in wanted \/ Holds(Tail(channel), wanted)
  <1>1. /\ Head(channel) \in S /\ Head(channel) = channel[1]
        /\ Tail(channel) \in Seq(S)
        /\ Len(channel) \in Nat /\ Len(channel) > 0
        /\ Len(Tail(channel)) = Len(channel) - 1
        /\ \A i \in 1 .. Len(channel) - 1 : Tail(channel)[i] = channel[i + 1]
        /\ DOMAIN channel = 1 .. Len(channel)
        /\ DOMAIN Tail(channel) = 1 .. Len(channel) - 1
    OBVIOUS
  <1>2. Head(channel) \in wanted => Holds(channel, wanted)
    BY <1>1 DEF Holds
  <1>3. ASSUME Holds(Tail(channel), wanted) PROVE Holds(channel, wanted)
    <2>1. PICK i \in 1 .. Len(channel) - 1 : Tail(channel)[i] \in wanted
      BY <1>1, <1>3 DEF Holds
    <2>2. i + 1 \in DOMAIN channel /\ channel[i + 1] \in wanted
      BY <1>1, <2>1
    <2>. QED  BY <2>2 DEF Holds
  <1>4. ASSUME Holds(channel, wanted), Head(channel) \notin wanted
        PROVE  Holds(Tail(channel), wanted)
    <2>1. PICK i \in 1 .. Len(channel) : channel[i] \in wanted
      BY <1>1, <1>4 DEF Holds
    <2>2. i # 1
      BY <1>1, <1>4, <2>1
    <2>3. i - 1 \in 1 .. Len(channel) - 1 /\ (i - 1) + 1 = i
      BY <1>1, <2>1, <2>2
    <2>4. Tail(channel)[i - 1] = channel[i]
      BY <1>1, <2>3
    <2>. QED  BY <1>1, <2>1, <2>3, <2>4 DEF Holds
  <1>. QED  BY <1>1, <1>2, <1>3, <1>4

\* An impact is never weakened by another.
LEMMA Merging ==
  ASSUME NEW a \in Impacts, NEW b \in Impacts
  PROVE  /\ Merge(a, b) \in Impacts
         /\ Merge(a, b) = "Rebuild" <=> a = "Rebuild" \/ b = "Rebuild"
         /\ Merge(a, b) = "None" <=> a = "None" /\ b = "None"
  BY DEF Merge, Impacts, Rank

\* The kinds of the actions, and what they carry.
LEMMA Kinds ==
  /\ Build.kind = "Build" /\ Stop.kind = "Stop" /\ Exit.kind = "Exit"
  /\ \A v : /\ StartOf(v).kind = "Start" /\ StartOf(v).built = v
            /\ RestartOf(v).kind = "Restart" /\ RestartOf(v).built = v
  BY DEF Build, Stop, Exit, StartOf, RestartOf

\* The actions are actions.
LEMMA Actions ==
  /\ Build \in DevAction /\ Stop \in DevAction /\ Exit \in DevAction
  /\ \A v \in Version : StartOf(v) \in DevAction /\ RestartOf(v) \in DevAction
  BY DEF DevAction

\* Short lists, taken apart.
LEMMA Lists ==
  /\ \A a : Head(<<a>>) = a /\ Tail(<<a>>) = <<>> /\ <<a>> # <<>>
  /\ \A a, b : Head(<<a, b>>) = a /\ Tail(<<a, b>>) = <<b>> /\ <<a, b>> # <<>>
  /\ \A a, b, c : Head(<<a, b, c>>) = a /\ Tail(<<a, b, c>>) = <<b, c>> /\ <<a, b, c>> # <<>>
  OBVIOUS

\* Short lists, put together.
LEMMA Joined ==
  /\ <<>> \o <<>> = <<>>
  /\ \A a : <<>> \o <<a>> = <<a>> /\ <<a>> \o <<>> = <<a>>
  /\ \A a, b : <<a>> \o <<b>> = <<a, b>> /\ <<a, b>> \o <<>> = <<a, b>>
  /\ \A a, b, c : <<a, b>> \o <<c>> = <<a, b, c>>
  <1>1. <<>> \o <<>> = <<>>
    OBVIOUS
  <1>2. ASSUME NEW a PROVE <<>> \o <<a>> = <<a>>
    OBVIOUS
  <1>3. ASSUME NEW a PROVE <<a>> \o <<>> = <<a>>
    OBVIOUS
  <1>4. ASSUME NEW a, NEW b PROVE <<a>> \o <<b>> = <<a, b>>
    <2>. DEFINE s == <<a>> \o <<b>>
    <2>1. <<a>> \in Seq({a, b}) /\ <<b>> \in Seq({a, b})
      OBVIOUS
    <2>2. s \in Seq({a, b}) /\ Len(s) = 2 /\ s[1] = a /\ s[2] = b
      BY <2>1
    <2>. HIDE DEF s
    <2>3. \A i \in 1 .. 2 : s[i] = <<a, b>>[i]
      BY <2>2
    <2>4. s = <<a, b>>
      BY <2>1, <2>2, <2>3, SeqEqual
    <2>. QED  BY <2>4 DEF s
  <1>5. ASSUME NEW a, NEW b PROVE <<a, b>> \o <<>> = <<a, b>>
    OBVIOUS
  <1>6. ASSUME NEW a, NEW b, NEW c PROVE <<a, b>> \o <<c>> = <<a, b, c>>
    <2>. DEFINE s == <<a, b>> \o <<c>>
    <2>1. <<a, b>> \in Seq({a, b, c}) /\ <<c>> \in Seq({a, b, c})
      OBVIOUS
    <2>2. s \in Seq({a, b, c}) /\ Len(s) = 3 /\ s[1] = a /\ s[2] = b /\ s[3] = c
      BY <2>1
    <2>. HIDE DEF s
    <2>3. <<a, b, c>> \in Seq({a, b, c}) /\ \A i \in 1 .. 3 : s[i] = <<a, b, c>>[i]
      BY <2>2
    <2>4. s = <<a, b, c>>
      BY <2>2, <2>3, SeqEqual
    <2>. QED  BY <2>4 DEF s
  <1>. QED  BY <1>1, <1>2, <1>3, <1>4, <1>5, <1>6

\* Whether one of the actions of a list is of one of some kinds.
Due(list, kinds) == \E j \in DOMAIN list : list[j].kind \in kinds

\* What is due in the lists there are.
LEMMA DueIn ==
  ASSUME NEW kinds
  PROVE  /\ ~Due(<<>>, kinds)
         /\ \A a : Due(<<a>>, kinds) <=> a.kind \in kinds
         /\ \A a, b : Due(<<a, b>>, kinds) <=> a.kind \in kinds \/ b.kind \in kinds
         /\ \A a, b, c : Due(<<a, b, c>>, kinds) <=>
                             a.kind \in kinds \/ b.kind \in kinds \/ c.kind \in kinds
  BY DEF Due

\* What the lists with a start or a build have due.
LEMMA DueLists ==
  LET Replaces == {"Start", "Restart", "Build"} IN
  /\ Due(<<Build>>, {"Build"}) /\ Due(<<Build>>, Replaces)
  /\ \A v : /\ Due(<<StartOf(v)>>, Replaces) /\ Due(<<RestartOf(v)>>, Replaces)
            /\ Due(<<Stop, StartOf(v)>>, Replaces)
            /\ Due(<<StartOf(v), Build>>, Replaces) /\ Due(<<StartOf(v), Build>>, {"Build"})
            /\ Due(<<Stop, StartOf(v), Build>>, Replaces)
            /\ Due(<<Stop, StartOf(v), Build>>, {"Build"})
  <1>. DEFINE Replaces == {"Start", "Restart", "Build"}
  <1>1. Build.kind \in {"Build"} /\ Build.kind \in Replaces
    BY Kinds
  <1>2. \A v : StartOf(v).kind \in Replaces /\ RestartOf(v).kind \in Replaces
    BY Kinds
  <1>. HIDE DEF Replaces
  <1>3. Due(<<Build>>, {"Build"}) /\ Due(<<Build>>, Replaces)
    BY <1>1, DueIn
  <1>4. ASSUME NEW v
        PROVE  Due(<<StartOf(v)>>, Replaces) /\ Due(<<RestartOf(v)>>, Replaces)
    BY <1>2, DueIn
  <1>5. ASSUME NEW v
        PROVE  /\ Due(<<Stop, StartOf(v)>>, Replaces)
               /\ Due(<<StartOf(v), Build>>, Replaces) /\ Due(<<StartOf(v), Build>>, {"Build"})
    BY <1>1, <1>2, DueIn
  <1>6. ASSUME NEW v
        PROVE  /\ Due(<<Stop, StartOf(v), Build>>, Replaces)
               /\ Due(<<Stop, StartOf(v), Build>>, {"Build"})
    BY <1>1, <1>2, DueIn
  <1>. QED  BY <1>3, <1>4, <1>5, <1>6 DEF Replaces

\* The two ways an edit can be under way, in these terms, before a step and after it.
OnItsWay(wanted) ==
  Holds(events, wanted) \/ impact \in wanted \/ Holds(changes, wanted) \/ pending \in wanted

LEMMA Restated ==
  /\ WatchBroken <=> Holds(events, {"Error"}) \/ Holds(changes, {"Error"})
  /\ NoLostRebuild <=>
       (loop = "running" /\ ~shutting_down /\ ~WatchBroken /\ attempted # source =>
          OnItsWay({"Rebuild"}) \/ build = CargoReading \/ Due(actions, {"Build"}))
  /\ NoStaleConfiguration <=>
       (/\ loop = "running" /\ ~shutting_down /\ ~WatchBroken
        /\ application.kind = "running" /\ application.config # config
        /\ ~failed
        => \/ OnItsWay({"Restart", "Rebuild"})
           \/ build # NoTask
           \/ Due(actions, {"Start", "Restart", "Build"}))
  BY DEF Awaited, WatchBroken, NoLostRebuild, NoStaleConfiguration, Holds, Due, OnItsWay

\* The same of the next state.
LEMMA RestatedNext ==
  /\ WatchBroken' <=> Holds(events', {"Error"}) \/ Holds(changes', {"Error"})
  /\ NoLostRebuild' <=>
       (loop' = "running" /\ ~shutting_down' /\ ~WatchBroken' /\ attempted' # source' =>
          OnItsWay({"Rebuild"})' \/ build' = CargoReading \/ Due(actions', {"Build"}))
  /\ NoStaleConfiguration' <=>
       (/\ loop' = "running" /\ ~shutting_down' /\ ~WatchBroken'
        /\ application'.kind = "running" /\ application'.config # config'
        /\ ~failed'
        => \/ OnItsWay({"Restart", "Rebuild"})'
           \/ build' # NoTask
           \/ Due(actions', {"Start", "Restart", "Build"}))
  BY DEF Awaited, WatchBroken, NoLostRebuild, NoStaleConfiguration, Holds, Due, OnItsWay

\* The values a task or a process can be are told apart by their kinds.
LEMMA Children ==
  /\ NoTask.kind = "none" /\ CargoReading.kind = "reading" /\ FailedBuild.kind = "failed"
  /\ \A v : CargoCompiling(v).kind = "compiling" /\ CargoCompiling(v).version = v
  /\ NoApplication.kind = "none" /\ Exited.kind = "exited"
  /\ \A v, c : /\ Running(v, c).kind = "running" /\ Running(v, c).version = v
               /\ Running(v, c).config = c
  /\ \A task \in BuildTask : /\ task = NoTask <=> task.kind = "none"
                             /\ task = CargoReading <=> task.kind = "reading"
                             /\ task.kind = "compiling" => task.version \in Version
  /\ \A process \in Application : process = NoApplication <=> process.kind = "none"
  BY DEF NoTask, CargoReading, FailedBuild, CargoCompiling, NoApplication, Exited, Running,
         BuildTask, Application

\* When the loop waits for an event, the state machine knows both children.
LEMMA SelectingIsSettled ==
  ASSUME ListInv, Selecting
  PROVE  /\ loop = "running" /\ actions = <<>> /\ ~shutting_down
         /\ application_running = (application # NoApplication)
         /\ build_running = (build # NoTask)
  BY Lists DEF ListInv, Selecting, Settled, Starting, Replacing, Leaving, BuildKnown

-----------------------------------------------------------------------------
(***************************************************************************)
(* The answers of the state machine to the events of the loop.             *)
(***************************************************************************)
\* A successful build starts the application or replaces it, and builds again if
\* a source changed meanwhile.
LEMMA AnswerToSuccess ==
  ASSUME NEW v \in Version, application_running \in BOOLEAN, HandleBuildSucceeded(v)
  PROVE  /\ pending' = "None" /\ last_successful' = v /\ application_running' = TRUE
         /\ build_running' = (pending = "Rebuild")
         /\ \/ ~application_running /\ pending # "Rebuild" /\ actions' = <<StartOf(v)>>
            \/ ~application_running /\ pending = "Rebuild" /\ actions' = <<StartOf(v), Build>>
            \/ application_running /\ pending # "Rebuild" /\ actions' = <<Stop, StartOf(v)>>
            \/ application_running /\ pending = "Rebuild" /\ actions' = <<Stop, StartOf(v), Build>>
  <1>1. /\ pending' = "None" /\ last_successful' = v /\ application_running' = TRUE
        /\ build_running' = (pending = "Rebuild")
    BY DEF HandleBuildSucceeded
  <1>2. CASE application_running /\ pending = "Rebuild"
    <2>1. actions' = (<<Stop>> \o <<StartOf(v)>>) \o <<Build>>
      BY <1>2 DEF HandleBuildSucceeded
    <2>2. <<Stop>> \o <<StartOf(v)>> = <<Stop, StartOf(v)>>
      BY Joined
    <2>3. <<Stop, StartOf(v)>> \o <<Build>> = <<Stop, StartOf(v), Build>>
      BY Joined
    <2>. QED  BY <1>1, <1>2, <2>1, <2>2, <2>3
  <1>3. CASE application_running /\ pending # "Rebuild"
    <2>1. actions' = (<<Stop>> \o <<StartOf(v)>>) \o <<>>
      BY <1>3 DEF HandleBuildSucceeded
    <2>. QED  BY <1>1, <1>3, <2>1, Joined
  <1>4. CASE ~application_running /\ pending = "Rebuild"
    <2>1. actions' = (<<>> \o <<StartOf(v)>>) \o <<Build>>
      BY <1>4 DEF HandleBuildSucceeded
    <2>. QED  BY <1>1, <1>4, <2>1, Joined
  <1>5. CASE ~application_running /\ pending # "Rebuild"
    <2>1. actions' = (<<>> \o <<StartOf(v)>>) \o <<>>
      BY <1>5 DEF HandleBuildSucceeded
    <2>. QED  BY <1>1, <1>5, <2>1, Joined
  <1>. QED  BY <1>2, <1>3, <1>4, <1>5

\* A shutdown stops the application, if there is one, and exits.
LEMMA AnswerToShutdown ==
  ASSUME application_running \in BOOLEAN, HandleShutdown
  PROVE  /\ build_running' = FALSE /\ pending' = "None" /\ application_running' = FALSE
         /\ last_successful' = last_successful
         /\ \/ application_running /\ actions' = <<Stop, Exit>>
            \/ ~application_running /\ actions' = <<Exit>>
  <1>1. CASE application_running
    <2>1. actions' = <<Stop>> \o <<Exit>>
      BY <1>1 DEF HandleShutdown
    <2>. QED  BY <1>1, <2>1, Joined DEF HandleShutdown
  <1>2. CASE ~application_running
    <2>1. actions' = <<>> \o <<Exit>>
      BY <1>2 DEF HandleShutdown
    <2>. QED  BY <1>2, <2>1, Joined DEF HandleShutdown
  <1>. QED  BY <1>1, <1>2

\* A change is kept for the end of the build, or answered at once.
LEMMA AnswerToChange ==
  ASSUME NEW seen \in {"Restart", "Rebuild"}, build_running \in BOOLEAN,
         application_running \in BOOLEAN, pending \in Impacts, HandleChange(seen)
  PROVE  /\ last_successful' = last_successful
         /\ \/ /\ build_running /\ build_running' = build_running
               /\ application_running' = application_running
               /\ pending' = Merge(pending, seen) /\ actions' = <<>>
            \/ /\ ~build_running /\ seen = "Rebuild" /\ build_running' = TRUE
               /\ application_running' = application_running
               /\ pending' = pending /\ actions' = <<Build>>
            \/ /\ ~build_running /\ seen = "Restart" /\ build_running' = build_running
               /\ pending' = pending
               /\ \/ /\ last_successful = NoBuild /\ actions' = <<>>
                     /\ application_running' = application_running
                  \/ /\ last_successful # NoBuild /\ application_running' = TRUE
                     /\ \/ application_running /\ actions' = <<RestartOf(last_successful)>>
                        \/ ~application_running /\ actions' = <<StartOf(last_successful)>>
  <1>1. CASE build_running
    BY <1>1 DEF HandleChange, ChangeWhileBuilding
  <1>2. CASE ~build_running /\ seen = "Rebuild"
    BY <1>2 DEF HandleChange, ChangeWhileIdle, StartBuild
  <1>3. CASE ~build_running /\ seen = "Restart"
    <2>1. RestartLastSuccessful /\ UNCHANGED <<build_running, pending, last_successful>>
      BY <1>3 DEF HandleChange, ChangeWhileIdle
    <2>. QED  BY <1>3, <2>1 DEF RestartLastSuccessful
  <1>. QED  BY <1>1, <1>2, <1>3

-----------------------------------------------------------------------------
(***************************************************************************)
(* The steps.                                                              *)
(***************************************************************************)
\* The steps outside the loop: the world, the watch task and Cargo.
Outside == World \/ WatchTask \/ CargoReads

\* The steps of the loop that wait for an event.
Select ==
  \/ SelectShutdown \/ SelectChange \/ SelectBuild \/ SelectProcessCheck
  \/ ProcessCheckFails

\* The steps outside the loop keep the types.
LEMMA OutsideKeepsTypes ==
  ASSUME DevTypeOK, Outside
  PROVE  DevTypeOK'
  <1>. DEFINE Values == {"Restart", "Rebuild", "Error"}
  <1>. USE DEF DevTypeOK, worldVars, stateVars
  <1>1. events \in Seq(Values) /\ changes \in Seq(Values)
    OBVIOUS
  <1>2. DevStateTypeOK' <=> DevStateTypeOK
    BY DEF Outside, World, WatchTask, CargoReads, EditSource, EditConfig, WatcherFails, CtrlC,
           ApplicationExits, Gather, QuietPeriod, WatchTaskEnds, DevStateTypeOK
  <1>3. CASE EditSource
    <2>1. source' \in Version
      BY <1>3, MaxVersionAssumption DEF EditSource, Version
    <2>2. events' \in Seq(Values)
      BY <1>1, <1>3, Sending DEF EditSource
    <2>. QED  BY <1>2, <1>3, <2>1, <2>2 DEF EditSource
  <1>4. CASE EditConfig
    <2>1. config' \in Version
      BY <1>4, MaxVersionAssumption DEF EditConfig, Version
    <2>2. events' \in Seq(Values)
      BY <1>1, <1>4, Sending DEF EditConfig
    <2>. QED  BY <1>2, <1>4, <2>1, <2>2 DEF EditConfig
  <1>5. CASE WatcherFails
    <2>1. events' \in Seq(Values)
      BY <1>1, <1>5, Sending DEF WatcherFails
    <2>. QED  BY <1>2, <1>5, <2>1 DEF WatcherFails
  <1>6. CASE CtrlC \/ ApplicationExits
    <2>1. application' \in Application
      BY <1>6 DEF CtrlC, ApplicationExits, Application
    <2>. QED  BY <1>2, <1>6, <2>1 DEF CtrlC, ApplicationExits
  <1>7. CASE CargoReads
    <2>1. build' \in BuildTask
      BY <1>7 DEF CargoReads, BuildTask
    <2>. QED  BY <1>2, <1>7, <2>1 DEF CargoReads
  <1>8. CASE Gather
    <2>1. events' \in Seq(Values) /\ Head(events) \in {"Restart", "Rebuild"}
      BY <1>1, <1>8, Receiving DEF Gather
    <2>2. impact' \in Impacts
      BY <1>8, <2>1, Merging DEF Gather, Impacts
    <2>. QED  BY <1>2, <1>8, <2>1, <2>2 DEF Gather
  <1>9. CASE QuietPeriod
    <2>1. changes' \in Seq(Values)
      BY <1>1, <1>9, Sending DEF QuietPeriod, Impacts
    <2>. QED  BY <1>2, <1>9, <2>1 DEF QuietPeriod, Impacts
  <1>10. CASE WatchTaskEnds
    <2>1. events' \in Seq(Values) /\ changes' \in Seq(Values)
      BY <1>1, <1>10, Receiving, Sending DEF WatchTaskEnds
    <2>. QED  BY <1>2, <1>10, <2>1 DEF WatchTaskEnds, Impacts
  <1>. QED  BY <1>3, <1>4, <1>5, <1>6, <1>7, <1>8, <1>9, <1>10
            DEF Outside, World, WatchTask

\* The steps outside the loop leave the children as the state machine knows them.
LEMMA OutsideKeepsLists ==
  ASSUME DevTypeOK, ListInv, KnownInv, NothingLeftBehind, Outside
  PROVE  ListInv' /\ KnownInv' /\ NothingLeftBehind'
  <1>1. UNCHANGED <<stateVars, loop>>
    BY DEF Outside, World, WatchTask, CargoReads, EditSource, EditConfig, WatcherFails, CtrlC,
           ApplicationExits, Gather, QuietPeriod, WatchTaskEnds
  <1>2. /\ application' = NoApplication <=> application = NoApplication
        /\ build' = NoTask <=> build = NoTask
    <2>1. CASE ApplicationExits
      BY <2>1, Children DEF ApplicationExits, DevTypeOK
    <2>2. CASE CargoReads
      BY <2>2, Children DEF CargoReads
    <2>. QED  BY <2>1, <2>2
              DEF Outside, World, WatchTask, EditSource, EditConfig, WatcherFails, CtrlC,
                  Gather, QuietPeriod, WatchTaskEnds
  <1>3. ListInv'
    BY <1>1, <1>2 DEF ListInv, Settled, Starting, Replacing, Leaving, BuildKnown, BuildDue,
                      stateVars
  <1>. QED  BY <1>1, <1>2, <1>3 DEF KnownInv, NothingLeftBehind, stateVars

\* The steps outside the loop lose no edit.
LEMMA OutsideKeepsEdits ==
  ASSUME DevTypeOK, NoLostRebuild, NoStaleConfiguration, Outside
  PROVE  NoLostRebuild' /\ NoStaleConfiguration'
  <1>. DEFINE Values == {"Restart", "Rebuild", "Error"}
              Both == {"Restart", "Rebuild"}
  <1>. USE Restated, RestatedNext DEF stateVars, worldVars
  <1>1. events \in Seq(Values) /\ changes \in Seq(Values) /\ impact \in Impacts
    BY DEF DevTypeOK
  <1>2. CASE EditSource
    <2>1. \A wanted : Holds(events', wanted) <=> Holds(events, wanted) \/ "Rebuild" \in wanted
      BY <1>1, <1>2, Sending DEF EditSource
    <2>. QED  BY <1>2, <2>1 DEF EditSource, OnItsWay
  <1>3. CASE EditConfig
    <2>1. \A wanted : Holds(events', wanted) <=> Holds(events, wanted) \/ "Restart" \in wanted
      BY <1>1, <1>3, Sending DEF EditConfig
    <2>. QED  BY <1>3, <2>1 DEF EditConfig, OnItsWay
  <1>4. CASE WatcherFails
    <2>1. \A wanted : Holds(events', wanted) <=> Holds(events, wanted) \/ "Error" \in wanted
      BY <1>1, <1>4, Sending DEF WatcherFails
    <2>2. WatchBroken'
      BY <2>1
    <2>. QED  BY <2>2
  <1>5. CASE CtrlC
    BY <1>5 DEF CtrlC, OnItsWay
  <1>6. CASE ApplicationExits
    BY <1>6, Children DEF ApplicationExits, OnItsWay
  <1>7. CASE CargoReads
    <2>1. build' # NoTask
      BY <1>7, Children DEF CargoReads
    <2>. QED  BY <1>7, <2>1 DEF CargoReads, OnItsWay
  <1>8. CASE Gather
    <2>1. \A wanted : Holds(events, wanted) <=> Head(events) \in wanted \/ Holds(events', wanted)
      BY <1>1, <1>8, Receiving DEF Gather
    <2>2. Head(events) \in {"Restart", "Rebuild"}
      BY <1>1, <1>8, Receiving DEF Gather
    <2>3. /\ impact' = "Rebuild" <=> impact = "Rebuild" \/ Head(events) = "Rebuild"
          /\ impact' \in Both
      BY <1>1, <1>8, <2>2, Merging DEF Gather, Impacts
    <2>4. WatchBroken' <=> WatchBroken
      BY <1>8, <2>1, <2>2 DEF Gather
    <2>5. OnItsWay({"Rebuild"}) => OnItsWay({"Rebuild"})'
      BY <1>8, <2>1, <2>3 DEF Gather, OnItsWay
    <2>6. OnItsWay(Both)'
      BY <2>3 DEF OnItsWay
    <2>. QED  BY <1>8, <2>4, <2>5, <2>6 DEF Gather
  <1>9. CASE QuietPeriod
    <2>1. impact \in Both
      BY <1>1, <1>9 DEF QuietPeriod, Impacts
    <2>2. \A wanted : Holds(changes', wanted) <=> Holds(changes, wanted) \/ impact \in wanted
      BY <1>1, <1>9, <2>1, Sending DEF QuietPeriod
    <2>3. WatchBroken' <=> WatchBroken
      BY <1>9, <2>1, <2>2 DEF QuietPeriod
    <2>4. \A wanted \in {{"Rebuild"}, Both} : OnItsWay(wanted) => OnItsWay(wanted)'
      BY <1>9, <2>2 DEF QuietPeriod, OnItsWay
    <2>. QED  BY <1>9, <2>3, <2>4 DEF QuietPeriod
  <1>10. CASE WatchTaskEnds
    <2>1. \A wanted : Holds(changes', wanted) <=> Holds(changes, wanted) \/ "Error" \in wanted
      BY <1>1, <1>10, Sending DEF WatchTaskEnds
    <2>2. WatchBroken'
      BY <2>1
    <2>. QED  BY <2>2
  <1>. QED  BY <1>2, <1>3, <1>4, <1>5, <1>6, <1>7, <1>8, <1>9, <1>10
            DEF Outside, World, WatchTask

\* What the next action tells about the situation it is executed in.
LEMMA NextAction ==
  ASSUME ListInv
  PROVE  /\ Executing("Build") => Settled /\ actions = <<Build>> /\ BuildDue
         /\ Executing("Start") =>
              /\ Starting
              /\ \E v \in Version : \/ actions = <<StartOf(v)>> /\ BuildKnown
                                    \/ actions = <<StartOf(v), Build>> /\ BuildDue
         /\ Executing("Stop") =>
              \/ /\ Replacing
                 /\ \E v \in Version : \/ actions = <<Stop, StartOf(v)>> /\ BuildKnown
                                       \/ actions = <<Stop, StartOf(v), Build>> /\ BuildDue
              \/ Leaving /\ actions = <<Stop, Exit>>
         /\ Executing("Restart") =>
              /\ Replacing /\ BuildKnown
              /\ \E v \in Version : actions = <<RestartOf(v)>>
         /\ Executing("Exit") => Leaving /\ actions = <<Exit>> /\ application = NoApplication
  <1>1. Executing("Build") \/ Executing("Start") \/ Executing("Stop") \/ Executing("Restart")
          \/ Executing("Exit")
        => loop = "running" /\ actions # <<>>
    BY DEF Executing
  <1>2. CASE Settled /\ actions # <<>>
    <2>1. Head(actions).kind = "Build"
      BY <1>2, Kinds, Lists DEF Settled
    <2>. QED  BY <1>2, <2>1 DEF Executing, Settled
  <1>3. CASE Starting
    <2>1. PICK v \in Version : \/ actions = <<StartOf(v)>> /\ BuildKnown
                               \/ actions = <<StartOf(v), Build>> /\ BuildDue
      BY <1>3 DEF Starting
    <2>2. Head(actions).kind = "Start"
      BY <2>1, Kinds, Lists
    <2>. QED  BY <1>3, <2>1, <2>2 DEF Executing
  <1>4. CASE Replacing
    <2>1. PICK v \in Version :
            \/ actions = <<Stop, StartOf(v)>> /\ BuildKnown
            \/ actions = <<Stop, StartOf(v), Build>> /\ BuildDue
            \/ actions = <<RestartOf(v)>> /\ BuildKnown
      BY <1>4 DEF Replacing
    <2>2. CASE actions = <<RestartOf(v)>> /\ BuildKnown
      <3>1. Head(actions).kind = "Restart"
        BY <2>2, Kinds, Lists
      <3>. QED  BY <1>4, <2>2, <3>1 DEF Executing
    <2>3. CASE \/ actions = <<Stop, StartOf(v)>> /\ BuildKnown
               \/ actions = <<Stop, StartOf(v), Build>> /\ BuildDue
      <3>1. Head(actions).kind = "Stop"
        BY <2>3, Kinds, Lists
      <3>. QED  BY <1>4, <2>3, <3>1 DEF Executing
    <2>. QED  BY <2>1, <2>2, <2>3
  <1>5. CASE Leaving
    <2>1. CASE actions = <<Exit>> /\ application = NoApplication
      <3>1. Head(actions).kind = "Exit"
        BY <2>1, Kinds, Lists
      <3>. QED  BY <1>5, <2>1, <3>1 DEF Executing
    <2>2. CASE actions = <<Stop, Exit>>
      <3>1. Head(actions).kind = "Stop"
        BY <2>2, Kinds, Lists
      <3>. QED  BY <1>5, <2>2, <3>1 DEF Executing
    <2>. QED  BY <1>5, <2>1, <2>2 DEF Leaving
  <1>. QED  BY <1>1, <1>2, <1>3, <1>4, <1>5 DEF ListInv

\* What is left of the actions once one is executed, case by case.
LEMMA ExecuteSteps ==
  ASSUME DevTypeOK, ListInv, Execute
  PROVE  \/ /\ ExecuteBuild /\ ~shutting_down /\ actions' = <<>> /\ build' # NoTask
            /\ application_running = (application # NoApplication)
            /\ build_running /\ build = NoTask
         \/ /\ ExecuteStart /\ ~shutting_down /\ application_running
            /\ \E v \in Version : application' = Running(v, config)
            /\ \/ actions' = <<>> /\ BuildKnown
               \/ actions' = <<Build>> /\ BuildDue
         \/ /\ ExecuteStop /\ ~shutting_down /\ application_running
            /\ application' = NoApplication
            /\ \E v \in Version : \/ actions' = <<StartOf(v)>> /\ BuildKnown
                                  \/ actions' = <<StartOf(v), Build>> /\ BuildDue
         \/ /\ ExecuteStop /\ Leaving /\ application' = NoApplication /\ actions' = <<Exit>>
         \/ /\ ExecuteRestart /\ ~shutting_down /\ application_running /\ BuildKnown
            /\ application' = NoApplication
            /\ \E v \in Version : actions' = <<StartOf(v)>>
         \/ /\ StartRefused \/ StopFails
            /\ loop' = "failing" /\ actions' = <<>>
            /\ application' \in {application, NoApplication}
         \/ /\ ExecuteExit /\ loop' = "ok" /\ actions' = <<>>
            /\ build = NoTask /\ application = NoApplication
  <1>1. CASE ExecuteBuild
    <2>1. Settled /\ actions = <<Build>> /\ BuildDue
      BY <1>1, NextAction DEF ExecuteBuild
    <2>2. build' # NoTask
      BY <1>1, Children DEF ExecuteBuild
    <2>. QED  BY <1>1, <2>1, <2>2, Lists DEF ExecuteBuild, Executed, Settled, BuildDue
  <1>2. CASE ExecuteStart
    <2>1. Starting
      BY <1>2, NextAction DEF ExecuteStart
    <2>2. PICK v \in Version : \/ actions = <<StartOf(v)>> /\ BuildKnown
                               \/ actions = <<StartOf(v), Build>> /\ BuildDue
      BY <1>2, NextAction DEF ExecuteStart
    <2>3. application' = Running(v, config)
      BY <1>2, <2>2, Kinds, Lists DEF ExecuteStart
    <2>4. \/ actions' = <<>> /\ BuildKnown
          \/ actions' = <<Build>> /\ BuildDue
      BY <1>2, <2>2, Lists DEF ExecuteStart, Executed
    <2>. QED  BY <1>2, <2>1, <2>3, <2>4 DEF Starting
  <1>3. CASE ExecuteStop
    <2>1. application' = NoApplication /\ Executing("Stop") /\ Executed
      BY <1>3 DEF ExecuteStop
    <2>2. CASE Leaving /\ actions = <<Stop, Exit>>
      <3>1. actions' = <<Exit>>
        BY <2>1, <2>2, Lists DEF Executed
      <3>. QED  BY <1>3, <2>1, <2>2, <3>1
    <2>3. CASE /\ Replacing
               /\ \E v \in Version : \/ actions = <<Stop, StartOf(v)>> /\ BuildKnown
                                     \/ actions = <<Stop, StartOf(v), Build>> /\ BuildDue
      <3>1. PICK v \in Version : \/ actions = <<Stop, StartOf(v)>> /\ BuildKnown
                                 \/ actions = <<Stop, StartOf(v), Build>> /\ BuildDue
        BY <2>3
      <3>2. \/ actions' = <<StartOf(v)>> /\ BuildKnown
            \/ actions' = <<StartOf(v), Build>> /\ BuildDue
        <4>1. Tail(<<Stop, StartOf(v)>>) = <<StartOf(v)>>
              /\ Tail(<<Stop, StartOf(v), Build>>) = <<StartOf(v), Build>>
          BY Lists
        <4>2. actions' = Tail(actions)
          BY <2>1 DEF Executed
        <4>. QED  BY <3>1, <4>1, <4>2
      <3>. QED  BY <1>3, <2>1, <2>3, <3>2 DEF Replacing
    <2>. QED  BY <2>1, <2>2, <2>3, NextAction
  <1>4. CASE ExecuteRestart
    <2>1. /\ application' = NoApplication /\ Executing("Restart")
          /\ actions' = <<StartOf(Head(actions).built)>> \o Tail(actions)
      BY <1>4 DEF ExecuteRestart
    <2>2. PICK v \in Version : actions = <<RestartOf(v)>>
      BY <2>1, NextAction
    <2>3. actions' = <<StartOf(v)>>
      <3>1. Head(actions).built = v /\ Tail(actions) = <<>>
        BY <2>2, Kinds, Lists
      <3>. QED  BY <2>1, <3>1, Joined
    <2>. QED  BY <1>4, <2>1, <2>3, NextAction DEF Replacing
  <1>5. CASE StartRefused \/ StopFails
    BY <1>5 DEF StartRefused, StopFails
  <1>6. CASE ExecuteExit
    BY <1>6, NextAction DEF ExecuteExit, Leaving
  <1>. QED  BY <1>1, <1>2, <1>3, <1>4, <1>5, <1>6 DEF Execute

\* Executing an action keeps the types.
LEMMA ExecuteKeepsTypes ==
  ASSUME DevTypeOK, ListInv, Execute
  PROVE  DevTypeOK'
  <1>. USE DEF DevTypeOK, DevStateTypeOK, worldVars, decidedVars
  <1>1. UNCHANGED <<decidedVars, worldVars, interrupted>>
    BY DEF Execute, ExecuteBuild, ExecuteStart, StartRefused, ExecuteStop, ExecuteRestart,
           StopFails, ExecuteExit
  <1>2. build' \in BuildTask /\ attempted' \in Version \cup {NoBuild} /\ failed' \in BOOLEAN
    BY DEF Execute, ExecuteBuild, ExecuteStart, StartRefused, ExecuteStop, ExecuteRestart,
           StopFails, ExecuteExit, BuildTask
  <1>3. application' \in Application
    <2>1. NoApplication \in Application
          /\ \A v \in Version : Running(v, config) \in Application
      BY DEF Application
    <2>. QED  BY <2>1, ExecuteSteps DEF ExecuteBuild, StartRefused, StopFails, ExecuteExit
  <1>4. actions' \in Seq(DevAction)
    <2>1. \/ actions' = <<>> \/ actions' = <<Build>> \/ actions' = <<Exit>>
          \/ \E v \in Version : actions' = <<StartOf(v)>> \/ actions' = <<StartOf(v), Build>>
      BY ExecuteSteps
    <2>2. /\ <<>> \in Seq(DevAction)
          /\ \A a \in DevAction : <<a>> \in Seq(DevAction)
          /\ \A a, b \in DevAction : <<a, b>> \in Seq(DevAction)
      OBVIOUS
    <2>. QED  BY <2>1, <2>2, Actions
  <1>5. loop' \in Loops
    BY DEF Execute, ExecuteBuild, ExecuteStart, StartRefused, ExecuteStop, ExecuteRestart,
           StopFails, ExecuteExit, Loops
  <1>. QED  BY <1>1, <1>2, <1>3, <1>4, <1>5

\* Executing an action leads to the situation the next one expects.
LEMMA ExecuteKeepsLists ==
  ASSUME DevTypeOK, ListInv, KnownInv, Execute
  PROVE  ListInv' /\ KnownInv' /\ NothingLeftBehind'
  <1>. USE DEF BuildKnown, BuildDue, decidedVars
  <1>1. UNCHANGED decidedVars /\ loop = "running"
    BY DEF Execute, ExecuteBuild, ExecuteStart, StartRefused, ExecuteStop, ExecuteRestart,
           StopFails, ExecuteExit, Executing
  <1>2. KnownInv'
    BY <1>1 DEF KnownInv
  <1>3. CASE ExecuteBuild
    <2>1. /\ ~shutting_down /\ actions' = <<>> /\ build' # NoTask
          /\ application_running = (application # NoApplication) /\ build_running
          /\ UNCHANGED <<application, loop>>
      <3>1. Settled /\ actions = <<Build>> /\ BuildDue
        BY <1>3, NextAction DEF ExecuteBuild
      <3>2. build' # NoTask
        BY <1>3, Children DEF ExecuteBuild
      <3>. QED  BY <1>3, <3>1, <3>2, Lists DEF ExecuteBuild, Executed, Settled
    <2>2. Settled'
      BY <1>1, <2>1 DEF Settled
    <2>. QED  BY <1>1, <1>2, <2>1, <2>2 DEF ListInv, NothingLeftBehind
  <1>4. CASE /\ ExecuteStart /\ ~shutting_down /\ application_running
             /\ \E v \in Version : application' = Running(v, config)
             /\ \/ actions' = <<>> /\ BuildKnown
                \/ actions' = <<Build>> /\ BuildDue
    <2>1. UNCHANGED <<build, loop>>
      BY <1>4 DEF ExecuteStart
    <2>2. application' # NoApplication
      BY <1>4, Children
    <2>3. Settled'
      BY <1>1, <1>4, <2>1, <2>2 DEF Settled
    <2>. QED  BY <1>1, <1>2, <2>1, <2>3 DEF ListInv, NothingLeftBehind
  <1>5. CASE /\ ExecuteStop /\ ~shutting_down /\ application_running
             /\ application' = NoApplication
             /\ \E v \in Version : \/ actions' = <<StartOf(v)>> /\ BuildKnown
                                   \/ actions' = <<StartOf(v), Build>> /\ BuildDue
    <2>1. UNCHANGED <<build, loop>>
      BY <1>5 DEF ExecuteStop
    <2>2. Starting'
      BY <1>1, <1>5, <2>1 DEF Starting
    <2>. QED  BY <1>1, <1>2, <2>1, <2>2 DEF ListInv, NothingLeftBehind
  <1>6. CASE ExecuteStop /\ Leaving /\ application' = NoApplication /\ actions' = <<Exit>>
    <2>1. UNCHANGED <<build, loop>>
      BY <1>6 DEF ExecuteStop
    <2>2. Leaving'
      BY <1>1, <1>6, <2>1 DEF Leaving
    <2>. QED  BY <1>1, <1>2, <2>1, <2>2 DEF ListInv, NothingLeftBehind
  <1>7. CASE /\ ExecuteRestart /\ ~shutting_down /\ application_running /\ BuildKnown
             /\ application' = NoApplication
             /\ \E v \in Version : actions' = <<StartOf(v)>>
    <2>1. UNCHANGED <<build, loop>>
      BY <1>7 DEF ExecuteRestart
    <2>2. Starting'
      BY <1>1, <1>7, <2>1 DEF Starting
    <2>. QED  BY <1>1, <1>2, <2>1, <2>2 DEF ListInv, NothingLeftBehind
  <1>8. CASE loop' = "failing"
    BY <1>2, <1>8 DEF ListInv, NothingLeftBehind
  <1>9. CASE ExecuteExit /\ loop' = "ok" /\ build = NoTask /\ application = NoApplication
    BY <1>2, <1>9 DEF ExecuteExit, ListInv, NothingLeftBehind
  <1>. QED  BY <1>3, <1>4, <1>5, <1>6, <1>7, <1>8, <1>9, ExecuteSteps

\* Executing an action loses no edit.
LEMMA ExecuteKeepsEdits ==
  ASSUME DevTypeOK, ListInv, NoLostRebuild, NoStaleConfiguration, Execute
  PROVE  NoLostRebuild' /\ NoStaleConfiguration'
  <1>. USE Restated, RestatedNext DEF worldVars, decidedVars
  <1>1. UNCHANGED <<decidedVars, worldVars>>
    BY DEF Execute, ExecuteBuild, ExecuteStart, StartRefused, ExecuteStop, ExecuteRestart,
           StopFails, ExecuteExit
  <1>2. /\ WatchBroken' <=> WatchBroken
        /\ \A wanted : OnItsWay(wanted)' <=> OnItsWay(wanted)
    BY <1>1 DEF OnItsWay
  <1>3. CASE ExecuteBuild
    <2>1. build' # NoTask
      BY <1>3, ExecuteSteps, Children DEF ExecuteBuild
    <2>2. build' = CargoReading \/ attempted' = source
      BY <1>3 DEF ExecuteBuild
    <2>. QED  BY <1>1, <2>1, <2>2
  <1>4. CASE /\ ExecuteStart
             /\ \E v \in Version : application' = Running(v, config)
             /\ \/ actions' = <<>> /\ BuildKnown
                \/ actions' = <<Build>> /\ BuildDue
    <2>1. UNCHANGED <<build, attempted, loop>> /\ application'.config = config
      BY <1>4, Children DEF ExecuteStart
    <2>2. Due(actions, {"Build"}) => Due(actions', {"Build"})
      <3>1. PICK v \in Version : \/ actions = <<StartOf(v)>> /\ BuildKnown
                                 \/ actions = <<StartOf(v), Build>> /\ BuildDue
        BY <1>4, NextAction DEF ExecuteStart
      <3>2. CASE actions = <<StartOf(v)>>
        BY <3>2, Kinds, DueIn
      <3>3. CASE actions = <<StartOf(v), Build>>
        <4>1. actions' = <<Build>>
          BY <1>4, <3>3, Lists DEF ExecuteStart, Executed
        <4>. QED  BY <4>1, Kinds, DueIn
      <3>. QED  BY <3>1, <3>2, <3>3
    <2>. QED  BY <1>1, <1>2, <2>1, <2>2
  <1>5. CASE ExecuteStop \/ ExecuteRestart
    <2>1. UNCHANGED <<build, attempted, loop>> /\ application'.kind = "none"
      BY <1>5, Children DEF ExecuteStop, ExecuteRestart
    <2>2. Due(actions, {"Build"}) /\ ~shutting_down' => Due(actions', {"Build"})
      <3>1. CASE ExecuteStop /\ ~shutting_down
        <4>1. PICK v \in Version : \/ actions = <<Stop, StartOf(v)>> /\ BuildKnown
                                   \/ actions = <<Stop, StartOf(v), Build>> /\ BuildDue
          BY <3>1, NextAction DEF ExecuteStop, Leaving
        <4>2. CASE actions = <<Stop, StartOf(v)>>
          BY <4>2, Kinds, DueIn
        <4>3. CASE actions = <<Stop, StartOf(v), Build>>
          <5>1. actions' = <<StartOf(v), Build>>
            BY <3>1, <4>3, Lists DEF ExecuteStop, Executed
          <5>. QED  BY <5>1, Kinds, DueIn
        <4>. QED  BY <4>1, <4>2, <4>3
      <3>2. CASE ExecuteRestart
        <4>1. PICK v \in Version : actions = <<RestartOf(v)>>
          BY <3>2, NextAction DEF ExecuteRestart
        <4>. QED  BY <4>1, Kinds, DueIn
      <3>. QED  BY <1>1, <1>5, <3>1, <3>2
    <2>. QED  BY <1>1, <1>2, <2>1, <2>2
  <1>6. CASE loop' # "running"
    BY <1>6
  <1>. QED  BY <1>3, <1>4, <1>5, <1>6, ExecuteSteps

\* Waiting for an event keeps the types.
LEMMA SelectKeepsTypes ==
  ASSUME DevTypeOK, ListInv, Select \/ CleanUp
  PROVE  DevTypeOK'
  <1>. DEFINE Values == {"Restart", "Rebuild", "Error"}
  <1>. USE DEF DevTypeOK, DevStateTypeOK, worldVars, stateVars
  <1>1. /\ <<>> \in Seq(DevAction)
        /\ \A a \in DevAction : <<a>> \in Seq(DevAction)
        /\ \A a, b \in DevAction : <<a, b>> \in Seq(DevAction)
        /\ \A a, b, c \in DevAction : <<a, b, c>> \in Seq(DevAction)
    OBVIOUS
  <1>2. NoTask \in BuildTask /\ NoApplication \in Application /\ "failing" \in Loops
        /\ "error" \in Loops
    BY DEF BuildTask, Application, Loops
  <1>3. Select => Selecting
    BY DEF Select, SelectShutdown, SelectChange, SelectBuild, SelectBuildSucceeded,
           SelectBuildFailed, SelectProcessCheck, ProcessCheckFails
  <1>4. CASE SelectShutdown
    <2>1. ~shutting_down
      BY <1>4, SelectingIsSettled DEF SelectShutdown
    <2>2. CASE Transition(HandleShutdown, TRUE) /\ UNCHANGED loop
      <3>1. HandleShutdown /\ shutting_down' = TRUE
        BY <2>1, <2>2 DEF Transition
      <3>2. DevStateTypeOK'
        BY <1>1, <3>1, AnswerToShutdown, Actions DEF Impacts
      <3>. QED  BY <1>2, <1>4, <2>2, <3>2 DEF SelectShutdown
    <2>3. CASE loop' = "failing" /\ UNCHANGED stateVars
      BY <1>2, <1>4, <2>3 DEF SelectShutdown
    <2>. QED  BY <1>4, <2>2, <2>3 DEF SelectShutdown
  <1>5. CASE SelectChange
    <2>1. ~shutting_down
      BY <1>5, SelectingIsSettled DEF SelectChange
    <2>2. Head(changes) \in Values /\ changes' \in Seq(Values)
      BY <1>5, Receiving DEF SelectChange
    <2>3. CASE Head(changes) = "Error"
      BY <1>2, <1>5, <2>2, <2>3 DEF SelectChange
    <2>4. CASE Head(changes) # "Error"
      <3>1. PICK seen \in {"Restart", "Rebuild"} : seen = Head(changes)
        BY <2>2, <2>4
      <3>2. HandleChange(seen) /\ shutting_down' = FALSE /\ UNCHANGED loop
        BY <1>5, <2>1, <2>4, <3>1 DEF SelectChange, Transition
      <3>3. Merge(pending, seen) \in Impacts
        BY Merging DEF Impacts
      <3>4. last_successful = NoBuild \/ last_successful \in Version
        OBVIOUS
      <3>5. DevStateTypeOK'
        BY <1>1, <3>2, <3>3, <3>4, AnswerToChange, Actions
      <3>. QED  BY <1>5, <2>2, <3>2, <3>5 DEF SelectChange
    <2>. QED  BY <2>3, <2>4
  <1>6. CASE SelectBuildSucceeded
    <2>1. ~shutting_down
      BY <1>6, SelectingIsSettled DEF SelectBuildSucceeded
    <2>2. PICK v \in Version : v = build.version
      BY <1>6, Children DEF SelectBuildSucceeded
    <2>3. HandleBuildSucceeded(v) /\ shutting_down' = FALSE
      BY <1>6, <2>1, <2>2 DEF SelectBuildSucceeded, Transition
    <2>4. /\ pending' = "None" /\ last_successful' = v /\ application_running' = TRUE
          /\ build_running' = (pending = "Rebuild")
          /\ \/ ~application_running /\ pending # "Rebuild" /\ actions' = <<StartOf(v)>>
             \/ ~application_running /\ pending = "Rebuild" /\ actions' = <<StartOf(v), Build>>
             \/ application_running /\ pending # "Rebuild" /\ actions' = <<Stop, StartOf(v)>>
             \/ application_running /\ pending = "Rebuild" /\ actions' = <<Stop, StartOf(v), Build>>
      BY <2>3, AnswerToSuccess
    <2>5. actions' \in Seq(DevAction)
      BY <1>1, <2>4, Actions
    <2>6. DevStateTypeOK'
      BY <2>3, <2>4, <2>5 DEF Impacts
    <2>. QED  BY <1>2, <1>6, <2>6 DEF SelectBuildSucceeded
  <1>7. CASE SelectBuildFailed
    <2>1. ~shutting_down
      BY <1>7, SelectingIsSettled DEF SelectBuildFailed
    <2>2. CASE Transition(HandleBuildFailed, FALSE) /\ failed' = TRUE /\ UNCHANGED loop
      <3>1. HandleBuildFailed /\ shutting_down' = FALSE
        BY <2>1, <2>2 DEF Transition
      <3>2. DevStateTypeOK'
        BY <1>1, <3>1, Actions DEF HandleBuildFailed, Impacts
      <3>. QED  BY <1>2, <1>7, <2>2, <3>2 DEF SelectBuildFailed
    <2>3. CASE loop' = "failing" /\ UNCHANGED <<stateVars, failed>>
      BY <1>2, <1>7, <2>3 DEF SelectBuildFailed
    <2>. QED  BY <1>7, <2>2, <2>3 DEF SelectBuildFailed
  <1>8. CASE SelectProcessCheck
    <2>1. ~shutting_down
      BY <1>8, SelectingIsSettled DEF SelectProcessCheck
    <2>2. HandleApplicationExited /\ shutting_down' = FALSE
      BY <1>8, <2>1 DEF SelectProcessCheck, Transition
    <2>3. DevStateTypeOK'
      BY <1>1, <2>2 DEF HandleApplicationExited
    <2>. QED  BY <1>2, <1>8, <2>3 DEF SelectProcessCheck
  <1>9. CASE ProcessCheckFails \/ CleanUp
    BY <1>2, <1>9 DEF ProcessCheckFails, CleanUp
  <1>. QED  BY <1>4, <1>5, <1>6, <1>7, <1>8, <1>9 DEF Select, SelectBuild

\* What a change does to the children: nothing yet.
LEMMA SelectKeepsLists ==
  ASSUME DevTypeOK, ListInv, KnownInv, NothingLeftBehind, Select \/ CleanUp
  PROVE  ListInv' /\ KnownInv' /\ NothingLeftBehind'
  <1>. USE DEF BuildKnown, BuildDue, stateVars
  <1>1. CASE loop' \in {"failing", "error"}
    BY <1>1 DEF Select, CleanUp, SelectShutdown, SelectChange, SelectBuild,
                SelectBuildSucceeded, SelectBuildFailed, SelectProcessCheck, ProcessCheckFails,
                Selecting, ListInv, KnownInv, NothingLeftBehind
  <1>2. CASE Select /\ loop' \notin {"failing", "error"}
    <2>1. Selecting
      BY <1>2 DEF Select, SelectShutdown, SelectChange, SelectBuild, SelectBuildSucceeded,
                  SelectBuildFailed, SelectProcessCheck, ProcessCheckFails
    <2>2. /\ loop = "running" /\ actions = <<>> /\ ~shutting_down
          /\ application_running = (application # NoApplication)
          /\ build_running = (build # NoTask)
      BY <2>1, SelectingIsSettled
    <2>3. /\ application_running => last_successful # NoBuild
          /\ ~build_running => pending = "None"
      BY <2>2 DEF KnownInv
    <2>4. /\ application_running \in BOOLEAN /\ build_running \in BOOLEAN
          /\ pending \in Impacts /\ last_successful \in Version \cup {NoBuild}
          /\ \A v \in Version : v # NoBuild
      BY DEF DevTypeOK, DevStateTypeOK, Version, NoBuild
    <2>5. loop' = "running"
      BY <1>2, <2>2 DEF Select, SelectShutdown, SelectChange, SelectBuild,
                        SelectBuildSucceeded, SelectBuildFailed, SelectProcessCheck,
                        ProcessCheckFails
    <2>6. CASE SelectShutdown
      <3>1. HandleShutdown /\ shutting_down' = TRUE /\ build' = NoTask /\ UNCHANGED application
        BY <2>2, <2>5, <2>6 DEF SelectShutdown, Transition
      <3>2. Leaving'
        BY <2>2, <2>4, <3>1, AnswerToShutdown DEF Leaving
      <3>3. KnownInv'
        BY <2>4, <3>1, AnswerToShutdown DEF KnownInv
      <3>. QED  BY <2>5, <3>2, <3>3 DEF ListInv, NothingLeftBehind
    <2>7. CASE SelectChange
      <3>1. PICK seen \in {"Restart", "Rebuild"} : seen = Head(changes)
        <4>1. Head(changes) \in {"Restart", "Rebuild", "Error"} /\ Head(changes) # "Error"
          BY <2>2, <2>5, <2>7, Receiving DEF SelectChange, DevTypeOK
        <4>. QED  BY <4>1
      <3>2. /\ HandleChange(seen) /\ shutting_down' = FALSE
            /\ UNCHANGED <<build, application>>
        BY <2>2, <2>7, <3>1 DEF SelectChange, Transition
      <3>3. CASE actions' = <<>> \/ actions' = <<Build>>
        <4>1. application_running' = application_running
              /\ \/ actions' = <<>> /\ build_running' = build_running
                 \/ actions' = <<Build>> /\ build_running' = TRUE /\ ~build_running
          <5>1. /\ actions' # <<RestartOf(last_successful)>>
                /\ actions' # <<StartOf(last_successful)>>
            BY <3>3, Lists, Kinds
          <5>. QED  BY <2>4, <3>2, <5>1, AnswerToChange, Lists
        <4>2. Settled'
          BY <2>2, <3>2, <4>1 DEF Settled
        <4>3. KnownInv'
          BY <2>3, <2>4, <3>2, <3>3, <4>1, AnswerToChange DEF KnownInv
        <4>. QED  BY <2>5, <4>2, <4>3 DEF ListInv, NothingLeftBehind
      <3>4. CASE ~(actions' = <<>> \/ actions' = <<Build>>)
        <4>1. /\ build_running' = build_running /\ pending' = pending
              /\ last_successful' = last_successful /\ last_successful # NoBuild
              /\ application_running' = TRUE
              /\ \/ application_running /\ actions' = <<RestartOf(last_successful)>>
                 \/ ~application_running /\ actions' = <<StartOf(last_successful)>>
          BY <2>4, <3>2, <3>4, AnswerToChange
        <4>2. PICK v \in Version : v = last_successful
          BY <2>4, <4>1
        <4>3. Starting' \/ Replacing'
          BY <2>2, <3>2, <4>1, <4>2 DEF Starting, Replacing
        <4>4. KnownInv'
          BY <2>3, <4>1 DEF KnownInv
        <4>. QED  BY <2>5, <4>3, <4>4 DEF ListInv, NothingLeftBehind
      <3>. QED  BY <3>3, <3>4
    <2>8. CASE SelectBuildSucceeded
      <3>1. PICK v \in Version : v = build.version
        BY <2>8, Children DEF SelectBuildSucceeded, DevTypeOK
      <3>2. /\ HandleBuildSucceeded(v) /\ shutting_down' = FALSE
            /\ build' = NoTask /\ UNCHANGED application
        BY <2>2, <2>8, <3>1 DEF SelectBuildSucceeded, Transition
      <3>3. /\ pending' = "None" /\ last_successful' = v /\ application_running' = TRUE
            /\ build_running' = (pending = "Rebuild")
            /\ \/ ~application_running /\ pending # "Rebuild" /\ actions' = <<StartOf(v)>>
               \/ ~application_running /\ pending = "Rebuild" /\ actions' = <<StartOf(v), Build>>
               \/ application_running /\ pending # "Rebuild" /\ actions' = <<Stop, StartOf(v)>>
               \/ application_running /\ pending = "Rebuild" /\ actions' = <<Stop, StartOf(v), Build>>
        BY <2>4, <3>2, AnswerToSuccess
      <3>4. Starting' \/ Replacing'
        <4>1. CASE application_running
          <5>1. Replacing'
            BY <2>2, <2>4, <3>2, <3>3, <4>1 DEF Replacing
          <5>. QED  BY <5>1
        <4>2. CASE ~application_running
          <5>1. Starting'
            BY <2>2, <2>4, <3>2, <3>3, <4>2 DEF Starting
          <5>. QED  BY <5>1
        <4>. QED  BY <4>1, <4>2
      <3>5. KnownInv'
        BY <2>4, <3>3 DEF KnownInv
      <3>. QED  BY <2>5, <3>4, <3>5 DEF ListInv, NothingLeftBehind
    <2>9. CASE SelectBuildFailed
      <3>1. /\ HandleBuildFailed /\ shutting_down' = FALSE
            /\ build' = NoTask /\ UNCHANGED application
        BY <2>2, <2>5, <2>9 DEF SelectBuildFailed, Transition
      <3>2. Settled'
        BY <2>2, <3>1 DEF Settled, HandleBuildFailed
      <3>3. KnownInv'
        BY <2>3, <3>1 DEF KnownInv, HandleBuildFailed
      <3>. QED  BY <2>5, <3>2, <3>3 DEF ListInv, NothingLeftBehind
    <2>10. CASE SelectProcessCheck
      <3>1. /\ HandleApplicationExited /\ shutting_down' = FALSE
            /\ application' = NoApplication /\ UNCHANGED build
        BY <2>2, <2>10 DEF SelectProcessCheck, Transition
      <3>2. Settled'
        BY <2>2, <3>1 DEF Settled, HandleApplicationExited
      <3>3. KnownInv'
        BY <2>3, <3>1 DEF KnownInv, HandleApplicationExited
      <3>. QED  BY <2>5, <3>2, <3>3 DEF ListInv, NothingLeftBehind
    <2>11. ~ProcessCheckFails
      BY <2>5 DEF ProcessCheckFails
    <2>. QED  BY <1>2, <2>6, <2>7, <2>8, <2>9, <2>10, <2>11 DEF Select, SelectBuild
  <1>. QED  BY <1>1, <1>2 DEF CleanUp

\* No event makes the loop forget an edit.
LEMMA SelectKeepsEdits ==
  ASSUME DevTypeOK, ListInv, KnownInv, NoLostRebuild, NoStaleConfiguration, Select \/ CleanUp
  PROVE  NoLostRebuild' /\ NoStaleConfiguration'
  <1>. DEFINE Both == {"Restart", "Rebuild"}
  <1>. USE Restated, RestatedNext DEF worldVars, stateVars
  <1>1. CASE loop' # "running" \/ CleanUp
    BY <1>1 DEF CleanUp
  <1>2. CASE Select /\ loop' = "running"
    <2>1. Selecting
      BY <1>2 DEF Select, SelectShutdown, SelectChange, SelectBuild, SelectBuildSucceeded,
                  SelectBuildFailed, SelectProcessCheck, ProcessCheckFails
    <2>2. /\ loop = "running" /\ actions = <<>> /\ ~shutting_down
          /\ application_running = (application # NoApplication)
          /\ build_running = (build # NoTask)
      BY <2>1, SelectingIsSettled
    <2>3. /\ application_running \in BOOLEAN /\ build_running \in BOOLEAN /\ pending \in Impacts
          /\ application_running => last_successful # NoBuild
          /\ application.kind = "running" => application_running
      BY <2>2, Children DEF KnownInv, DevTypeOK, DevStateTypeOK
    <2>4. \A kinds : ~Due(actions, kinds)
      BY <2>2, DueIn
    <2>5. CASE SelectShutdown
      BY <1>2, <2>2, <2>5 DEF SelectShutdown, Transition
    <2>6. CASE SelectChange
      <3>1. /\ Head(changes) \in Both
            /\ \A wanted : Holds(changes, wanted)
                             <=> Head(changes) \in wanted \/ Holds(changes', wanted)
        <4>1. Head(changes) # "Error"
          BY <1>2, <2>2, <2>6 DEF SelectChange
        <4>. QED  BY <2>6, <4>1, Receiving DEF SelectChange, DevTypeOK
      <3>2. PICK seen \in Both : seen = Head(changes)
        BY <3>1
      <3>3. /\ HandleChange(seen) /\ shutting_down' = FALSE
            /\ UNCHANGED <<source, config, events, impact, build, attempted, application, failed>>
        BY <2>2, <2>6, <3>1, <3>2 DEF SelectChange, Transition
      <3>4. WatchBroken' <=> WatchBroken
        BY <3>1, <3>3
      <3>5. CASE build_running
        <4>1. pending' = Merge(pending, seen)
          BY <2>3, <3>3, <3>5, AnswerToChange
        <4>2. /\ pending' \in Both
              /\ pending' = "Rebuild" <=> pending = "Rebuild" \/ seen = "Rebuild"
          BY <2>3, <4>1, Merging DEF Impacts
        <4>3. OnItsWay({"Rebuild"}) => OnItsWay({"Rebuild"})'
          BY <3>1, <3>2, <3>3, <4>2 DEF OnItsWay
        <4>4. OnItsWay(Both)'
          BY <4>2 DEF OnItsWay
        <4>. QED  BY <2>2, <2>4, <3>3, <3>4, <4>3, <4>4
      <3>6. CASE ~build_running /\ seen = "Rebuild"
        <4>1. actions' = <<Build>>
          BY <2>3, <3>3, <3>6, AnswerToChange
        <4>2. Due(actions', {"Build"}) /\ Due(actions', {"Start", "Restart", "Build"})
          BY <4>1, DueLists
        <4>. QED  BY <4>2
      <3>7. CASE ~build_running /\ seen = "Restart"
        <4>1. /\ pending' = pending
              /\ application_running => actions' = <<RestartOf(last_successful)>>
          BY <2>3, <3>3, <3>7, AnswerToChange
        <4>2. application_running => Due(actions', {"Start", "Restart", "Build"})
          BY <4>1, DueLists
        <4>3. OnItsWay({"Rebuild"}) => OnItsWay({"Rebuild"})'
          BY <3>1, <3>2, <3>3, <3>7, <4>1 DEF OnItsWay
        <4>. QED  BY <2>2, <2>3, <2>4, <3>3, <3>4, <4>2, <4>3
      <3>. QED  BY <3>5, <3>6, <3>7
    <2>7. CASE SelectBuildSucceeded
      <3>1. PICK v \in Version : v = build.version
        BY <2>7, Children DEF SelectBuildSucceeded, DevTypeOK
      <3>2. /\ HandleBuildSucceeded(v) /\ build.kind = "compiling"
            /\ UNCHANGED <<worldVars, attempted, application, failed>>
        BY <2>2, <2>7, <3>1 DEF SelectBuildSucceeded, Transition
      <3>3. \/ pending # "Rebuild" /\ actions' = <<StartOf(v)>>
            \/ pending = "Rebuild" /\ actions' = <<StartOf(v), Build>>
            \/ pending # "Rebuild" /\ actions' = <<Stop, StartOf(v)>>
            \/ pending = "Rebuild" /\ actions' = <<Stop, StartOf(v), Build>>
        BY <2>3, <3>2, AnswerToSuccess
      <3>4. /\ Due(actions', {"Start", "Restart", "Build"})
            /\ pending = "Rebuild" => Due(actions', {"Build"})
        <4>1. CASE actions' = <<StartOf(v)>> /\ pending # "Rebuild"
          BY <4>1, DueLists
        <4>2. CASE actions' = <<StartOf(v), Build>>
          BY <4>2, DueLists
        <4>3. CASE actions' = <<Stop, StartOf(v)>> /\ pending # "Rebuild"
          BY <4>3, DueLists
        <4>4. CASE actions' = <<Stop, StartOf(v), Build>>
          BY <4>4, DueLists
        <4>. QED  BY <3>3, <4>1, <4>2, <4>3, <4>4
      <3>5. build # CargoReading
        BY <3>2, Children
      <3>6. (WatchBroken' <=> WatchBroken)
            /\ (OnItsWay({"Rebuild"}) => OnItsWay({"Rebuild"})' \/ pending = "Rebuild")
        BY <3>2 DEF OnItsWay
      <3>. QED  BY <2>2, <2>4, <3>2, <3>4, <3>5, <3>6
    <2>8. CASE SelectBuildFailed
      <3>1. /\ HandleBuildFailed /\ failed' = TRUE /\ build.kind \in {"compiling", "failed"}
            /\ UNCHANGED <<worldVars, attempted, application>>
        BY <1>2, <2>2, <2>8 DEF SelectBuildFailed, Transition
      <3>2. pending = "Rebuild" => Due(actions', {"Build"})
        BY <3>1, DueLists DEF HandleBuildFailed
      <3>3. build # CargoReading
        BY <3>1, Children
      <3>4. (WatchBroken' <=> WatchBroken)
            /\ (OnItsWay({"Rebuild"}) => OnItsWay({"Rebuild"})' \/ pending = "Rebuild")
        BY <3>1 DEF OnItsWay
      <3>. QED  BY <2>2, <2>4, <3>1, <3>2, <3>3, <3>4
    <2>9. CASE SelectProcessCheck
      <3>1. /\ HandleApplicationExited /\ application' = NoApplication
            /\ UNCHANGED <<worldVars, build, attempted, failed>>
        BY <2>2, <2>9 DEF SelectProcessCheck, Transition
      <3>2. application'.kind # "running"
        BY <3>1, Children
      <3>3. (WatchBroken' <=> WatchBroken) /\ \A wanted : OnItsWay(wanted)' <=> OnItsWay(wanted)
        BY <3>1 DEF OnItsWay, HandleApplicationExited
      <3>. QED  BY <2>2, <2>4, <3>1, <3>2, <3>3
    <2>10. ~ProcessCheckFails
      BY <1>2 DEF ProcessCheckFails
    <2>. QED  BY <1>2, <2>5, <2>6, <2>7, <2>8, <2>9, <2>10 DEF Select, SelectBuild
  <1>. QED  BY <1>1, <1>2

-----------------------------------------------------------------------------
\* The first action is the first build.
LEMMA DevInitially == DevInit => DevInv
  <1>. SUFFICES ASSUME DevInit PROVE DevInv
    OBVIOUS
  <1>1. /\ last_successful = NoBuild /\ application_running = FALSE /\ build_running = TRUE
        /\ pending = "None" /\ shutting_down = FALSE /\ actions = <<Build>>
        /\ source = 0 /\ config = 0 /\ events = <<>> /\ impact = "None" /\ changes = <<>>
        /\ build = NoTask /\ attempted = NoBuild /\ application = NoApplication
        /\ interrupted = FALSE /\ failed = FALSE /\ loop = "running"
    BY DEF DevInit, StateInit
  <1>2. DevTypeOK
    <2>1. 0 \in Version
      BY MaxVersionAssumption DEF Version
    <2>2. <<Build>> \in Seq(DevAction)
      BY Actions
    <2>3. DevStateTypeOK
      BY <1>1, <2>2 DEF DevStateTypeOK, Impacts
    <2>4. /\ build \in BuildTask /\ application \in Application /\ loop \in Loops
          /\ impact \in Impacts
      BY <1>1 DEF BuildTask, Application, Loops, Impacts
    <2>5. /\ events \in Seq({"Restart", "Rebuild", "Error"})
          /\ changes \in Seq({"Restart", "Rebuild", "Error"})
      BY <1>1
    <2>6. attempted \in Version \cup {NoBuild} /\ interrupted \in BOOLEAN /\ failed \in BOOLEAN
      BY <1>1
    <2>7. source \in Version /\ config \in Version
      BY <1>1, <2>1
    <2>. QED  BY <2>3, <2>4, <2>5, <2>6, <2>7 DEF DevTypeOK
  <1>3. ListInv /\ KnownInv /\ NothingLeftBehind
    BY <1>1 DEF ListInv, KnownInv, NothingLeftBehind, Settled, BuildDue
  <1>4. NoLostRebuild /\ NoStaleConfiguration
    <2>1. Due(actions, {"Build"}) /\ application.kind # "running"
      BY <1>1, Kinds, DueIn, Children
    <2>. QED  BY <2>1, Restated
  <1>. QED  BY <1>2, <1>3, <1>4 DEF DevInv

\* No step breaks the invariant.
LEMMA DevNextPreserves ==
  ASSUME DevInv, [DevNext]_devVars
  PROVE  DevInv'
  <1>. USE DEF DevInv
  <1>1. CASE Outside
    BY <1>1, OutsideKeepsTypes, OutsideKeepsLists, OutsideKeepsEdits
  <1>2. CASE Execute
    BY <1>2, ExecuteKeepsTypes, ExecuteKeepsLists, ExecuteKeepsEdits
  <1>3. CASE Select \/ CleanUp
    BY <1>3, SelectKeepsTypes, SelectKeepsLists, SelectKeepsEdits
  <1>4. CASE UNCHANGED devVars
    <2>1. DevTypeOK' /\ ListInv' /\ KnownInv' /\ NothingLeftBehind'
      BY <1>4 DEF devVars, stateVars, worldVars, DevTypeOK, DevStateTypeOK, ListInv, KnownInv,
                  NothingLeftBehind, Settled, Starting, Replacing, Leaving, BuildKnown, BuildDue
    <2>2. NoLostRebuild' /\ NoStaleConfiguration'
      BY <1>4 DEF devVars, stateVars, worldVars, NoLostRebuild, NoStaleConfiguration,
                  Awaited, WatchBroken
    <2>. QED  BY <2>1, <2>2
  <1>. QED  BY <1>1, <1>2, <1>3, <1>4 DEF DevNext, Outside, Select

\* The invariant holds in every behaviour of the supervisor.
THEOREM DevInvariance == DevSpec => []DevInv
  <1>1. DevInv /\ [DevNext]_devVars => DevInv'
    BY DevNextPreserves
  <1>. QED  BY DevInitially, <1>1, PTL DEF DevSpec

\* No edit is lost between the watcher and the application: a version that has
\* not been tried is on its way, and so is a configuration the application does
\* not have, unless a build failed.
THEOREM EditsReachTheBuild == DevSpec => []NoEditIsLost
  <1>1. DevInv => NoEditIsLost
    BY DEF DevInv, NoEditIsLost
  <1>. QED  BY <1>1, DevInvariance, PTL

\* Each action in turn makes the application present, makes it absent, or does
\* neither.
LEMMA PresentAfterOneMore ==
  ASSUME actions \in Seq(DevAction)
  PROVE  /\ PresentAfter(0) <=> application.kind # "none"
         /\ \A n \in Nat : n + 1 \in DOMAIN actions =>
              /\ actions[n + 1].kind \in {"Start", "Restart"} => PresentAfter(n + 1)
              /\ actions[n + 1].kind = "Stop" => ~PresentAfter(n + 1)
              /\ ~Moves(actions[n + 1]) => (PresentAfter(n + 1) <=> PresentAfter(n))
  <1>1. Len(actions) \in Nat /\ DOMAIN actions = 1 .. Len(actions)
    OBVIOUS
  <1>2. \A j \in DOMAIN actions : ~(j <= 0)
    BY <1>1
  <1>3. PresentAfter(0) <=> application.kind # "none"
    BY <1>2 DEF PresentAfter
  <1>4. ASSUME NEW n \in Nat, n + 1 \in DOMAIN actions
        PROVE  /\ actions[n + 1].kind \in {"Start", "Restart"} => PresentAfter(n + 1)
               /\ actions[n + 1].kind = "Stop" => ~PresentAfter(n + 1)
               /\ ~Moves(actions[n + 1]) => (PresentAfter(n + 1) <=> PresentAfter(n))
    <2>1. \A j \in DOMAIN actions : /\ j <= n + 1 <=> j <= n \/ j = n + 1
                                    /\ j < n + 1 <=> j <= n
                                    /\ ~(n + 1 < j /\ j <= n + 1)
                                    /\ ~(n + 1 <= n)
      BY <1>1
    <2>2. n + 1 <= n + 1
      OBVIOUS
    <2>3. actions[n + 1].kind \in {"Start", "Restart"} => PresentAfter(n + 1)
      BY <1>4, <2>1, <2>2 DEF PresentAfter
    <2>4. actions[n + 1].kind = "Stop" => ~PresentAfter(n + 1)
      BY <1>4, <2>1, <2>2 DEF PresentAfter, Moves
    <2>5. ASSUME ~Moves(actions[n + 1])
          PROVE  PresentAfter(n + 1) <=> PresentAfter(n)
      <3>1. (\A j \in DOMAIN actions : j <= n + 1 => ~Moves(actions[j]))
              <=> (\A j \in DOMAIN actions : j <= n => ~Moves(actions[j]))
        BY <2>1, <2>5
      <3>2. ASSUME NEW j \in DOMAIN actions
            PROVE  (\A k \in DOMAIN actions : j < k /\ k <= n + 1 => ~Moves(actions[k]))
                     <=> (\A k \in DOMAIN actions : j < k /\ k <= n => ~Moves(actions[k]))
        BY <2>1, <2>5
      <3>3. \A j \in DOMAIN actions :
              actions[j].kind \in {"Start", "Restart"} => (j <= n + 1 <=> j <= n)
        BY <2>1, <2>5 DEF Moves
      <3>. QED  BY <3>1, <3>2, <3>3 DEF PresentAfter
    <2>. QED  BY <2>3, <2>4, <2>5
  <1>. QED  BY <1>3, <1>4

\* The places in the lists there are.
LEMMA Places ==
  /\ Len(<<>>) = 0 /\ DOMAIN <<>> = {}
  /\ \A a : Len(<<a>>) = 1 /\ DOMAIN <<a>> = {1} /\ <<a>>[1] = a
  /\ \A a, b : /\ Len(<<a, b>>) = 2 /\ DOMAIN <<a, b>> = {1, 2}
               /\ <<a, b>>[1] = a /\ <<a, b>>[2] = b
  /\ \A a, b, c : /\ Len(<<a, b, c>>) = 3 /\ DOMAIN <<a, b, c>> = {1, 2, 3}
                  /\ <<a, b, c>>[1] = a /\ <<a, b, c>>[2] = b /\ <<a, b, c>>[3] = c
  <1>1. 1 .. 0 = {} /\ 1 .. 1 = {1} /\ 1 .. 2 = {1, 2} /\ 1 .. 3 = {1, 2, 3}
    OBVIOUS
  <1>2. Len(<<>>) = 0 /\ DOMAIN <<>> = {}
    OBVIOUS
  <1>3. ASSUME NEW a PROVE Len(<<a>>) = 1 /\ DOMAIN <<a>> = {1} /\ <<a>>[1] = a
    BY <1>1
  <1>4. ASSUME NEW a, NEW b
        PROVE  /\ Len(<<a, b>>) = 2 /\ DOMAIN <<a, b>> = {1, 2}
               /\ <<a, b>>[1] = a /\ <<a, b>>[2] = b
    BY <1>1
  <1>5. ASSUME NEW a, NEW b, NEW c
        PROVE  /\ Len(<<a, b, c>>) = 3 /\ DOMAIN <<a, b, c>> = {1, 2, 3}
               /\ <<a, b, c>>[1] = a /\ <<a, b, c>>[2] = b /\ <<a, b, c>>[3] = c
    BY <1>1
  <1>. QED  BY <1>2, <1>3, <1>4, <1>5

\* Each list makes one application of the two children, and one build.
LEMMA ListsAgree ==
  ASSUME DevTypeOK, ListInv
  PROVE  OneApplication /\ OneBuild
  <1>. DEFINE Goal ==
         /\ application_running = PresentAfter(Len(actions))
         /\ \A j \in DOMAIN actions : actions[j].kind = "Start" => ~PresentAfter(j - 1)
         /\ Due(actions, {"Build"}) => build = NoTask
         /\ build_running = (Due(actions, {"Build"}) \/ build # NoTask)
  <1>. SUFFICES ASSUME loop = "running" PROVE Goal
    <2>1. {j \in DOMAIN actions : actions[j].kind = "Build"} # {} <=> Due(actions, {"Build"})
      BY DEF Due
    <2>. QED  BY <2>1 DEF OneApplication, OneBuild
  <1>1. /\ application = NoApplication <=> application.kind = "none"
        /\ actions \in Seq(DevAction)
        /\ application_running \in BOOLEAN /\ build_running \in BOOLEAN
    BY Children DEF DevTypeOK, DevStateTypeOK
  <1>2. PresentAfter(0) <=> application # NoApplication
    BY <1>1, PresentAfterOneMore
  <1>3. \A n \in {0, 1, 2} : n + 1 \in DOMAIN actions =>
          /\ actions[n + 1].kind \in {"Start", "Restart"} => PresentAfter(n + 1)
          /\ actions[n + 1].kind = "Stop" => ~PresentAfter(n + 1)
          /\ actions[n + 1].kind \in {"Build", "Exit"} => (PresentAfter(n + 1) <=> PresentAfter(n))
    BY <1>1, PresentAfterOneMore DEF Moves
  <1>4. /\ 1 \in DOMAIN actions =>
             /\ actions[1].kind \in {"Start", "Restart"} => PresentAfter(1)
             /\ actions[1].kind = "Stop" => ~PresentAfter(1)
             /\ actions[1].kind \in {"Build", "Exit"} => (PresentAfter(1) <=> PresentAfter(0))
        /\ 2 \in DOMAIN actions =>
             /\ actions[2].kind \in {"Start", "Restart"} => PresentAfter(2)
             /\ actions[2].kind \in {"Build", "Exit"} => (PresentAfter(2) <=> PresentAfter(1))
        /\ 3 \in DOMAIN actions =>
             (actions[3].kind = "Build" => (PresentAfter(3) <=> PresentAfter(2)))
    <2>1. 0 + 1 = 1 /\ 1 + 1 = 2 /\ 2 + 1 = 3
      OBVIOUS
    <2>. QED  BY <1>3, <2>1
  <1>5. /\ 1 - 1 = 0 /\ 2 - 1 = 1
        /\ PresentAfter(Len(actions)) \in BOOLEAN
    BY DEF PresentAfter
  <1>. HIDE DEF Goal
  <1>6. CASE Settled
    <2>1. CASE actions = <<>> /\ BuildKnown
      <3>1. Len(actions) = 0 /\ DOMAIN actions = {} /\ ~Due(actions, {"Build"})
        BY <2>1, Places, DueIn
      <3>. QED  BY <1>2, <1>5, <1>6, <2>1, <3>1 DEF Settled, BuildKnown, Goal
    <2>2. CASE actions = <<Build>> /\ BuildDue
      <3>1. /\ Len(actions) = 1 /\ DOMAIN actions = {1} /\ actions[1].kind = "Build"
            /\ Due(actions, {"Build"})
        <4>1. Due(actions, {"Build"})
          BY <2>2, DueIn, Kinds
        <4>. QED  BY <2>2, <4>1, Places, Kinds
      <3>2. PresentAfter(1) <=> PresentAfter(0)
        BY <1>4, <3>1
      <3>. QED  BY <1>1, <1>2, <1>5, <1>6, <2>2, <3>1, <3>2 DEF Settled, BuildDue, Goal
    <2>. QED  BY <1>6, <2>1, <2>2 DEF Settled
  <1>7. CASE Starting
    <2>1. ~PresentAfter(0)
      BY <1>2, <1>7 DEF Starting
    <2>2. PICK v \in Version : \/ actions = <<StartOf(v)>> /\ BuildKnown
                               \/ actions = <<StartOf(v), Build>> /\ BuildDue
      BY <1>7 DEF Starting
    <2>3. CASE actions = <<StartOf(v)>> /\ BuildKnown
      <3>1. /\ Len(actions) = 1 /\ DOMAIN actions = {1} /\ actions[1].kind = "Start"
            /\ ~Due(actions, {"Build"})
        <4>1. ~Due(actions, {"Build"})
          BY <2>3, DueIn, Kinds
        <4>. QED  BY <2>3, <4>1, Places, Kinds
      <3>2. PresentAfter(1)
        BY <1>4, <3>1
      <3>. QED  BY <1>1, <1>5, <1>7, <2>1, <2>3, <3>1, <3>2 DEF Starting, BuildKnown, Goal
    <2>4. CASE actions = <<StartOf(v), Build>> /\ BuildDue
      <3>1. /\ Len(actions) = 2 /\ DOMAIN actions = {1, 2}
            /\ actions[1].kind = "Start" /\ actions[2].kind = "Build"
            /\ Due(actions, {"Build"})
        <4>1. Due(actions, {"Build"})
          BY <2>4, DueIn, Kinds
        <4>. QED  BY <2>4, <4>1, Places, Kinds
      <3>2. PresentAfter(2)
        BY <1>4, <3>1
      <3>. QED  BY <1>1, <1>5, <1>7, <2>1, <2>4, <3>1, <3>2 DEF Starting, BuildDue, Goal
    <2>. QED  BY <2>2, <2>3, <2>4
  <1>8. CASE Replacing
    <2>1. PICK v \in Version :
            \/ actions = <<Stop, StartOf(v)>> /\ BuildKnown
            \/ actions = <<Stop, StartOf(v), Build>> /\ BuildDue
            \/ actions = <<RestartOf(v)>> /\ BuildKnown
      BY <1>8 DEF Replacing
    <2>2. CASE actions = <<Stop, StartOf(v)>> /\ BuildKnown
      <3>1. /\ Len(actions) = 2 /\ DOMAIN actions = {1, 2}
            /\ actions[1].kind = "Stop" /\ actions[2].kind = "Start"
            /\ ~Due(actions, {"Build"})
        <4>1. ~Due(actions, {"Build"})
          BY <2>2, DueIn, Kinds
        <4>. QED  BY <2>2, <4>1, Places, Kinds
      <3>2. ~PresentAfter(1) /\ PresentAfter(2)
        BY <1>4, <3>1
      <3>. QED  BY <1>1, <1>5, <1>8, <2>2, <3>1, <3>2 DEF Replacing, BuildKnown, Goal
    <2>3. CASE actions = <<Stop, StartOf(v), Build>> /\ BuildDue
      <3>1. /\ Len(actions) = 3 /\ DOMAIN actions = {1, 2, 3}
            /\ actions[1].kind = "Stop" /\ actions[2].kind = "Start"
            /\ actions[3].kind = "Build"
            /\ Due(actions, {"Build"})
        <4>1. Due(actions, {"Build"})
          BY <2>3, DueIn, Kinds
        <4>. QED  BY <2>3, <4>1, Places, Kinds
      <3>2. ~PresentAfter(1) /\ PresentAfter(3)
        BY <1>4, <3>1
      <3>. QED  BY <1>1, <1>5, <1>8, <2>3, <3>1, <3>2 DEF Replacing, BuildDue, Goal
    <2>4. CASE actions = <<RestartOf(v)>> /\ BuildKnown
      <3>1. /\ Len(actions) = 1 /\ DOMAIN actions = {1} /\ actions[1].kind = "Restart"
            /\ ~Due(actions, {"Build"})
        <4>1. ~Due(actions, {"Build"})
          BY <2>4, DueIn, Kinds
        <4>. QED  BY <2>4, <4>1, Places, Kinds
      <3>2. PresentAfter(1)
        BY <1>4, <3>1
      <3>. QED  BY <1>1, <1>5, <1>8, <2>4, <3>1, <3>2 DEF Replacing, BuildKnown, Goal
    <2>. QED  BY <2>1, <2>2, <2>3, <2>4
  <1>9. CASE Leaving
    <2>1. CASE actions = <<Exit>> /\ application = NoApplication
      <3>1. /\ Len(actions) = 1 /\ DOMAIN actions = {1} /\ actions[1].kind = "Exit"
            /\ ~Due(actions, {"Build"})
        <4>1. ~Due(actions, {"Build"})
          BY <2>1, DueIn, Kinds
        <4>. QED  BY <2>1, <4>1, Places, Kinds
      <3>2. ~PresentAfter(1)
        BY <1>2, <1>4, <2>1, <3>1
      <3>. QED  BY <1>1, <1>5, <1>9, <3>1, <3>2 DEF Leaving, Goal
    <2>2. CASE actions = <<Stop, Exit>>
      <3>1. /\ Len(actions) = 2 /\ DOMAIN actions = {1, 2}
            /\ actions[1].kind = "Stop" /\ actions[2].kind = "Exit"
            /\ ~Due(actions, {"Build"})
        <4>1. ~Due(actions, {"Build"})
          BY <2>2, DueIn, Kinds
        <4>. QED  BY <2>2, <4>1, Places, Kinds
      <3>2. ~PresentAfter(2)
        BY <1>4, <3>1
      <3>. QED  BY <1>1, <1>5, <1>9, <3>1, <3>2 DEF Leaving, Goal
    <2>. QED  BY <1>9, <2>1, <2>2 DEF Leaving
  <1>. QED  BY <1>6, <1>7, <1>8, <1>9 DEF ListInv

\* The state machine and the driver agree on both children, no start meets a
\* process, no build meets a build, and nothing is left once the loop returned.
THEOREM ChildrenAreKnown == DevSpec => []StateMatchesChildren
  <1>1. DevInv => StateMatchesChildren
    BY ListsAgree DEF DevInv, StateMatchesChildren
  <1>. QED  BY <1>1, DevInvariance, PTL

=============================================================================
