------------------------------- MODULE Handoff -------------------------------
(***************************************************************************)
(* The Windows update handoff (src/internal/update/replace_windows.go).    *)
(*                                                                         *)
(* A running program cannot be replaced on Windows.  The updater stages    *)
(* the new files beside the old ones, names a backup for each, writes all  *)
(* of it into a transaction file and starts a helper, a copy of the new    *)
(* program.  The helper waits for the updater to exit, moves each old file *)
(* to its backup and the staged one to its place, removes the backups and  *)
(* has the new program clean up.  A step that fails rolls the files back;  *)
(* a helper that died is started again with the same transaction.          *)
(***************************************************************************)
EXTENDS Integers, Sequences

CONSTANTS
    Files,          \* the files of the package in order, the executable first
    Installed,      \* what those files may hold when the updater starts
    MaxBreaks       \* steps that fail, helpers that die or are interrupted

Contents == {"none", "old", "new"}
Places == 1..Len(Files)
Exe == Files[1]
Package == {Files[i] : i \in Places}

ASSUME HandoffAssumption ==
    /\ Len(Files) \in Nat \ {0}
    /\ \A i, j \in Places : Files[i] = Files[j] => i = j
    /\ Installed \subseteq [Package -> Contents]
    /\ \A installed \in Installed : installed[Exe] # "none"
    /\ MaxBreaks \in Nat

VARIABLES
    before,     \* what each file held at first; "new" is what it is to hold
    target,     \* what it holds
    backup,     \* what its backup holds
    source,     \* the files that are staged
    attached,   \* of the helper and the transaction, those that are written
    phase,      \* where the updater, then the helper, is
    place,      \* the file the helper is at
    records,    \* for each file it came to: put in place, and has an old one
    spoiled,    \* a step of the rollback has failed
    interrupted,    \* the helper has been told to stop
    undone,     \* rollbacks begun: none, one, or more (2)
    result,     \* what the last helper returned
    breaks

handoffVars == <<before, target, backup, source, attached, phase, place, records,
                 spoiled, interrupted, undone, result, breaks>>

outcome == <<spoiled, interrupted, undone, result>>

HelperPhases == {"waiting", "validating", "looking", "moving", "putting", "committing",
                 "unputting", "restoring", "refreshing"}

HandoffInit ==
    /\ before \in Installed
    /\ target = before
    /\ backup = [f \in Package |-> "none"]
    /\ source = {}
    /\ attached = {}
    /\ phase = "comparing"
    /\ place = 1
    /\ records = <<>>
    /\ spoiled = FALSE /\ interrupted = FALSE /\ undone = 0
    /\ result = "none"
    /\ breaks = 0

Break ==
    /\ breaks < MaxBreaks
    /\ breaks' = breaks + 1

HelperReturns(what) == phase' = "over" /\ result' = what

----------------------------------------------------------------------------
(* The updater.                                                            *)

\* Nothing is done if every file is the one of the release.
Compare ==
    /\ phase = "comparing"
    /\ IF \A f \in Package : target[f] = "new"
         THEN HelperReturns("current")
         ELSE phase' = "staging" /\ result' = result
    /\ UNCHANGED <<before, target, backup, source, attached, place, records, spoiled,
                   interrupted, undone, breaks>>

\* The files are staged in order, then the helper, then the transaction, which
\* names the backup of each file.
Stage ==
    /\ phase = "staging"
    /\ IF source # Package
         THEN /\ \E i \in Places :
                    /\ Files[i] \notin source
                    /\ \A j \in 1..(i - 1) : Files[j] \in source
                    /\ source' = source \cup {Files[i]}
              /\ UNCHANGED <<attached, phase>>
         ELSE /\ attached' = IF "helper" \in attached THEN {"helper", "transaction"}
                                                      ELSE {"helper"}
              /\ phase' = IF "helper" \in attached THEN "launching" ELSE phase
              /\ UNCHANGED source
    /\ UNCHANGED <<before, target, backup, place, records, outcome, breaks>>

\* What was staged is removed again.
StagingFails ==
    /\ phase \in {"staging", "launching"}
    /\ Break
    /\ source' = {}
    /\ attached' = {}
    /\ HelperReturns("failed")
    /\ UNCHANGED <<before, target, backup, place, records, spoiled, interrupted, undone>>

Launch ==
    /\ phase = "launching"
    /\ phase' = "waiting"
    /\ UNCHANGED <<before, target, backup, source, attached, place, records, outcome, breaks>>

----------------------------------------------------------------------------
(* The helper.                                                             *)

\* The updater has exited.
ParentExits ==
    /\ phase = "waiting"
    /\ phase' = "validating"
    /\ UNCHANGED <<before, target, backup, source, attached, place, records, outcome, breaks>>

\* It has not in two minutes, or its number is another process's by now.
WaitFails ==
    /\ phase = "waiting"
    /\ IF interrupted THEN UNCHANGED breaks ELSE Break
    /\ HelperReturns("failed")
    /\ UNCHANGED <<before, target, backup, source, attached, place, records, spoiled,
                   interrupted, undone>>

\* The states an interrupted handoff can have left: a file is staged or in place,
\* and one that is not yet replaced has no backup.
SourcesValid ==
    \A f \in Package :
        /\ f \in source \/ target[f] = "new"
        /\ target[f] # "none" /\ backup[f] # "none" => target[f] = "new"
        /\ f = Exe => target[f] # "none" \/ backup[f] # "none"

\* Mutant: a helper that takes up a transaction keeps the records it found.
Validate_KeepsRecords ==
    /\ phase = "validating"
    /\ IF SourcesValid
         THEN phase' = "looking" /\ result' = result
         ELSE HelperReturns("failed")
    /\ place' = 1
    /\ records' = records
    /\ UNCHANGED <<before, target, backup, source, attached, spoiled, interrupted, undone, breaks>>

Validate ==
    /\ phase = "validating"
    /\ IF SourcesValid
         THEN phase' = "looking" /\ result' = result
         ELSE HelperReturns("failed")
    /\ place' = 1
    /\ records' = <<>>
    /\ UNCHANGED <<before, target, backup, source, attached, spoiled, interrupted, undone, breaks>>

\* The helper turns to a file.  One that is in place counts as put there.
Looked(f) == [put |-> target[f] = "new", kept |-> backup[f] # "none"]

NextPlace ==
    /\ place' = IF place < Len(Files) THEN place + 1 ELSE 1
    /\ phase' = IF place < Len(Files) THEN "looking" ELSE "committing"

Rollback ==
    /\ phase' = "unputting"
    /\ undone' = IF undone < 2 THEN undone + 1 ELSE 2

Look ==
    /\ phase = "looking"
    /\ LET f == Files[place] IN
       IF interrupted \/ (f = Exe /\ target[f] = "none" /\ backup[f] = "none")
         THEN HelperReturns("failed") /\ UNCHANGED <<records, place, undone>>
         ELSE /\ records' = Append(records, Looked(f))
              /\ result' = result
              /\ IF target[f] = "new"
                   THEN NextPlace /\ UNCHANGED undone
                   ELSE /\ IF f \notin source \/ (target[f] # "none" /\ backup[f] # "none")
                             THEN Rollback
                             ELSE /\ phase' = IF target[f] = "none" THEN "putting" ELSE "moving"
                                  /\ UNCHANGED undone
                        /\ UNCHANGED place
    /\ UNCHANGED <<before, target, backup, source, attached, spoiled, interrupted, breaks>>

\* A file cannot be looked at: the helper returns at once, and what earlier files
\* hold stays.
LookFails ==
    /\ phase \in {"validating", "looking"}
    /\ Break
    /\ HelperReturns("failed")
    /\ UNCHANGED <<before, target, backup, source, attached, place, records, spoiled,
                   interrupted, undone>>

\* Mutant: the old file is removed, not renamed.
Move_Drops ==
    /\ phase = "moving"
    /\ ~interrupted
    /\ target' = [target EXCEPT ![Files[place]] = "none"]
    /\ records' = [records EXCEPT ![place].kept = FALSE]
    /\ phase' = "putting"
    /\ UNCHANGED <<before, backup, source, attached, place, outcome, breaks>>

\* The old file becomes the backup.
Move ==
    /\ phase = "moving"
    /\ ~interrupted
    /\ backup' = [backup EXCEPT ![Files[place]] = target[Files[place]]]
    /\ target' = [target EXCEPT ![Files[place]] = "none"]
    /\ records' = [records EXCEPT ![place].kept = TRUE]
    /\ phase' = "putting"
    /\ UNCHANGED <<before, source, attached, place, outcome, breaks>>

\* The staged file takes its place.
Put ==
    /\ phase = "putting"
    /\ ~interrupted
    /\ target' = [target EXCEPT ![Files[place]] = "new"]
    /\ source' = source \ {Files[place]}
    /\ records' = [records EXCEPT ![place].put = TRUE]
    /\ NextPlace
    /\ UNCHANGED <<before, backup, attached, outcome, breaks>>

\* A file that is in use keeps a rename from succeeding for thirty seconds; an
\* interrupted helper does not try.
RenameFails ==
    /\ phase \in {"moving", "putting"}
    /\ IF interrupted THEN UNCHANGED breaks ELSE Break
    /\ Rollback
    /\ UNCHANGED <<before, target, backup, source, attached, place, records, spoiled,
                   interrupted, result>>

\* Every file is in place: the backups go, and the staged files that were not
\* needed.
Commit ==
    /\ phase = "committing"
    /\ backup' = [backup EXCEPT ![Files[place]] = "none"]
    /\ IF place < Len(Files)
         THEN place' = place + 1 /\ UNCHANGED <<phase, source>>
         ELSE place' = 1 /\ phase' = "refreshing" /\ source' = {}
    /\ UNCHANGED <<before, target, attached, records, outcome, breaks>>

CommitFails ==
    /\ phase = "committing"
    /\ Break
    /\ HelperReturns("failed")
    /\ UNCHANGED <<before, target, backup, source, attached, place, records, spoiled,
                   interrupted, undone>>

----------------------------------------------------------------------------
(* The rollback, from the last file the helper came to.                    *)

Last == Files[Len(records)]
LastRecord == records[Len(records)]

\* The new file is removed.
Unput ==
    /\ phase = "unputting"
    /\ phase' = "restoring"
    /\ IF LastRecord.put
         THEN \/ /\ target' = [target EXCEPT ![Last] = "none"]
                 /\ spoiled' = (spoiled \/ target[Last] = "none")
                 /\ UNCHANGED breaks
              \/ /\ Break
                 /\ spoiled' = TRUE
                 /\ UNCHANGED target
         ELSE UNCHANGED <<target, spoiled, breaks>>
    /\ UNCHANGED <<before, backup, source, attached, place, records, interrupted, undone, result>>

\* The old file returns to its place, if there was one.
Restored(brought) ==
    /\ target' = IF brought THEN [target EXCEPT ![Last] = backup[Last]] ELSE target
    /\ backup' = IF brought \/ ~LastRecord.kept THEN [backup EXCEPT ![Last] = "none"] ELSE backup
    /\ spoiled' = (spoiled \/ (LastRecord.kept /\ ~brought))
    /\ records' = SubSeq(records, 1, Len(records) - 1)
    /\ IF Len(records) > 1
         THEN phase' = "unputting" /\ result' = result
         ELSE HelperReturns(IF spoiled' THEN "broken" ELSE "restored")

Restore ==
    /\ phase = "restoring"
    /\ Restored(LastRecord.kept /\ backup[Last] # "none" /\ ~interrupted)
    /\ UNCHANGED <<before, source, attached, place, interrupted, undone, breaks>>

RestoreFails ==
    /\ phase = "restoring"
    /\ LastRecord.kept
    /\ Break
    /\ Restored(FALSE)
    /\ UNCHANGED <<before, source, attached, place, interrupted, undone>>

----------------------------------------------------------------------------
(* After the files are in place.                                           *)

\* The new program refreshes the services, whether or not that succeeds, and is
\* started once more to clean up.
Refresh ==
    /\ phase = "refreshing"
    /\ phase' = "cleaning"
    /\ result' = "done"
    /\ UNCHANGED <<before, target, backup, source, attached, place, records, spoiled,
                   interrupted, undone, breaks>>

CleanupNotStarted ==
    /\ phase = "refreshing"
    /\ Break
    /\ HelperReturns("done")
    /\ UNCHANGED <<before, target, backup, source, attached, place, records, spoiled,
                   interrupted, undone>>

\* The helper has exited: its file and the transaction are removed.
Clean ==
    /\ phase = "cleaning"
    /\ phase' = "over"
    /\ attached' = {}
    /\ UNCHANGED <<before, target, backup, source, place, records, outcome, breaks>>

----------------------------------------------------------------------------

Interrupt ==
    /\ phase \in HelperPhases
    /\ ~interrupted
    /\ Break
    /\ interrupted' = TRUE
    /\ UNCHANGED <<before, target, backup, source, attached, phase, place, records, spoiled,
                   undone, result>>

HelperDies ==
    /\ phase \in HelperPhases
    /\ Break
    /\ phase' = "dead"
    /\ UNCHANGED <<before, target, backup, source, attached, place, records, outcome>>

\* A later helper takes up the transaction.
Resume ==
    /\ phase \in {"dead", "over"}
    /\ attached = {"helper", "transaction"}
    /\ phase' = "waiting"
    /\ interrupted' = FALSE
    /\ spoiled' = FALSE
    /\ result' = "none"
    /\ UNCHANGED <<before, target, backup, source, attached, place, records, undone, breaks>>

HandoffWork ==
    \/ Compare \/ Stage \/ Launch \/ ParentExits \/ Validate \/ Look \/ Move \/ Put
    \/ Commit \/ Unput \/ Restore \/ Refresh \/ Clean \/ RenameFails

HandoffNext ==
    \/ HandoffWork
    \/ StagingFails \/ WaitFails \/ LookFails \/ CommitFails \/ RestoreFails \/ CleanupNotStarted
    \/ Interrupt \/ HelperDies \/ Resume

HandoffSpec == HandoffInit /\ [][HandoffNext]_handoffVars

----------------------------------------------------------------------------

\* Every variable has its type, and the helper has a record of each file it has
\* come to and of no other.
HandoffTypeOK ==
    /\ before \in Installed
    /\ target \in [Package -> Contents]
    /\ backup \in [Package -> Contents]
    /\ source \subseteq Package
    /\ attached \in {{}, {"helper"}, {"helper", "transaction"}}
    /\ phase \in HelperPhases \cup {"comparing", "staging", "launching", "cleaning",
                                    "dead", "over"}
    /\ place \in Places
    /\ records \in Seq([put : BOOLEAN, kept : BOOLEAN])
    /\ {spoiled, interrupted} \subseteq BOOLEAN
    /\ undone \in 0..2
    /\ result \in {"none", "current", "done", "failed", "restored", "broken"}
    /\ breaks \in 0..MaxBreaks
    /\ phase = "looking" => Len(records) = place - 1
    /\ phase \in {"moving", "putting"} => Len(records) = place
    /\ phase \in {"unputting", "restoring"} => Len(records) \in Places
    /\ phase \in HelperPhases \cup {"dead", "cleaning"} => attached = {"helper", "transaction"}

\* The old copy of a file that changes is not lost before the new one has its
\* place: wherever a helper stops, one of them is there.
ChangedKept ==
    \A f \in Package : before[f] = "old" => target[f] # "none" \/ backup[f] # "none"

\* A rollback that reports no failure of its own has put back every file that was
\* to change, even one that an earlier helper had put in place, unless it follows
\* a rollback that was cut short.
RollbackRestores ==
    phase = "over" /\ result = "restored" /\ undone = 1 =>
        \A f \in Package : before[f] # "new" => target[f] = before[f] /\ backup[f] = "none"

\* A handoff that succeeds is whole: every file is the new one, and no backup, no
\* staged file and, after the cleanup, no helper and no transaction is left.
DoneIsWhole ==
    result = "done" =>
        /\ \A f \in Package : target[f] = "new" /\ backup[f] = "none"
        /\ source = {}

\* An update of several files ends with all the new ones or all the old ones, as
\* far as its result says so, and with one of the two wherever it is cut short.
HandoffAtomic == ChangedKept /\ RollbackRestores /\ DoneIsWhole

\* A rollback that reports no failure of its own has put back every file.
RollbackRestoresAll ==
    phase = "over" /\ result = "restored" => target = before

=============================================================================
