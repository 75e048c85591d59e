---------------------------- MODULE BulkActions ----------------------------
(***************************************************************************)
(* Bulk actions (useBulkActions.tsx) and their dialog                      *)
(* (BulkActionModal.tsx): a loop over the selected resources that can be   *)
(* paused, and a backup of them before.  Closing the dialog stops neither. *)
(***************************************************************************)
EXTENDS Naturals, Sequences

CONSTANTS
  Selections, \* how many resources are selected at each opening: a sequence
  Backups,    \* names of the backups, used in order
  NoLoop, NoBackup

BulkAssumption ==
  /\ Selections \in Seq(Nat \ {0}) /\ Backups \subseteq Nat
  /\ NoLoop \notin DOMAIN Selections /\ NoBackup \notin Backups

VARIABLES
  isOpen, opening,  \* opening counts, and names the loop that it confirms
  bulkProgress,     \* [current, total, status, results]
  pausedRef, resumeResolver,
  loop,             \* of each opening: [pc, results, delay]
  backupProgress,   \* [status, current, total]
  backupAbort,      \* backupAbortRef
  backup,           \* [pc, of, fetched, aborted]
  stray             \* the dialog was opened while a loop or a backup went on

bulkVars == <<isOpen, opening, bulkProgress, pausedRef, resumeResolver, loop,
  backupProgress, backupAbort, backup, stray>>
loopVars == <<bulkProgress, pausedRef, resumeResolver, loop>>
backupVars == <<backupProgress, backupAbort, backup>>

Openings == DOMAIN Selections

Progress(total) == [current |-> 0, total |-> total, status |-> "idle", results |-> <<>>]
NoBackupProgress == [status |-> "idle", current |-> 0, total |-> 0]

Init ==
  /\ isOpen = FALSE /\ opening = 0 /\ bulkProgress = Progress(0)
  /\ pausedRef = FALSE /\ resumeResolver = NoLoop
  /\ loop = [l \in Openings |-> [pc |-> "off", results |-> <<>>, delay |-> FALSE]]
  /\ backupProgress = NoBackupProgress /\ backupAbort = NoBackup
  /\ backup = [b \in Backups |-> [pc |-> "off", of |-> 0, fetched |-> 0, aborted |-> FALSE]]
  /\ stray = FALSE

LoopGoesOn == \E l \in Openings : loop[l].pc \notin {"off", "complete"}
BackupGoesOn == \E b \in Backups : backup[b].pc \in {"fetch", "save"}

-----------------------------------------------------------------------------
(* The dialog resets its backup when it is opened. *)
OpenBulkAction ==
  /\ ~isOpen /\ opening + 1 \in Openings
  /\ isOpen' = TRUE /\ opening' = opening + 1
  /\ bulkProgress' = Progress(Selections[opening + 1]) /\ backupProgress' = NoBackupProgress
  /\ stray' = (stray \/ LoopGoesOn \/ BackupGoesOn)
  /\ UNCHANGED <<pausedRef, resumeResolver, loop, backupAbort, backup>>

CancelBackup ==
  /\ backupAbort' = NoBackup
  /\ backup' = [b \in Backups |-> IF b = backupAbort THEN [backup[b] EXCEPT !.aborted = TRUE] ELSE backup[b]]

(* The button that closes a completed action does not cancel. *)
CloseBulkAction ==
  /\ isOpen /\ isOpen' = FALSE /\ bulkProgress' = Progress(0)
  /\ CancelBackup \/ (bulkProgress.status = "complete" /\ UNCHANGED <<backupAbort, backup>>)
  /\ UNCHANGED <<opening, pausedRef, resumeResolver, loop, backupProgress, stray>>

MayAct == isOpen /\ bulkProgress.status = "idle" /\ backupProgress.status = "idle"

ConfirmBulkAction(delay) ==
  /\ MayAct
  /\ pausedRef' = FALSE /\ resumeResolver' = NoLoop
  /\ loop' = [loop EXCEPT ![opening] = [pc |-> "call", results |-> <<>>, delay |-> delay]]
  /\ bulkProgress' = [bulkProgress EXCEPT !.status = "inProgress", !.results = <<>>]
  /\ UNCHANGED <<isOpen, opening, backupVars, stray>>

PauseBulkAction ==
  /\ isOpen /\ bulkProgress.status = "inProgress"
  /\ pausedRef' = TRUE /\ bulkProgress' = [bulkProgress EXCEPT !.status = "paused"]
  /\ UNCHANGED <<isOpen, opening, resumeResolver, loop, backupVars, stray>>

(* Mutant: the flag stays set. *)
ResumeBulkActionPaused ==
  /\ isOpen /\ bulkProgress.status = "paused"
  /\ bulkProgress' = [bulkProgress EXCEPT !.status = "inProgress"] /\ resumeResolver' = NoLoop
  /\ loop' = [l \in Openings |-> IF l = resumeResolver THEN [loop[l] EXCEPT !.pc = "call"] ELSE loop[l]]
  /\ UNCHANGED <<isOpen, opening, pausedRef, backupVars, stray>>

ResumeBulkAction ==
  /\ isOpen /\ bulkProgress.status = "paused"
  /\ pausedRef' = FALSE /\ bulkProgress' = [bulkProgress EXCEPT !.status = "inProgress"]
  /\ resumeResolver' = NoLoop
  /\ loop' = [l \in Openings |-> IF l = resumeResolver THEN [loop[l] EXCEPT !.pc = "call"] ELSE loop[l]]
  /\ UNCHANGED <<isOpen, opening, backupVars, stray>>

(* The next item, unless the loop is paused; it then waits for its resolver. *)
NextItem(l, results) ==
  /\ loop' = [loop EXCEPT ![l].results = results, ![l].pc = IF pausedRef THEN "blocked" ELSE "call"]
  /\ resumeResolver' = IF pausedRef THEN l ELSE resumeResolver

(* The API answers, or fails. *)
ItemEnds(l, success) ==
  LET results == Append(loop[l].results, success)
      last == Len(results) = Selections[l]
  IN  /\ loop[l].pc = "call"
      /\ bulkProgress' = [bulkProgress EXCEPT !.current = Len(results), !.results = results,
                                              !.status = IF last THEN "complete" ELSE @]
      /\ \/ ~last /\ ~loop[l].delay /\ NextItem(l, results)
         \/ /\ last \/ loop[l].delay
            /\ loop' = [loop EXCEPT ![l].results = results, ![l].pc = IF last THEN "complete" ELSE "sleep"]
            /\ UNCHANGED resumeResolver
      /\ UNCHANGED <<isOpen, opening, pausedRef, backupVars, stray>>

SleepEnds(l) ==
  /\ loop[l].pc = "sleep" /\ NextItem(l, loop[l].results)
  /\ UNCHANGED <<isOpen, opening, bulkProgress, pausedRef, backupVars, stray>>

-----------------------------------------------------------------------------
HandleBackup(b) ==
  /\ MayAct /\ backup[b].pc = "off" /\ \A c \in Backups : c < b => backup[c].pc # "off"
  /\ backupAbort' = b
  /\ backup' = [backup EXCEPT ![b] = [pc |-> "fetch", of |-> opening, fetched |-> 0, aborted |-> FALSE]]
  /\ backupProgress' = [status |-> "inProgress", current |-> 0, total |-> Selections[opening]]
  /\ UNCHANGED <<isOpen, opening, loopVars, stray>>

CancelClicked ==
  /\ isOpen /\ bulkProgress.status = "idle" /\ backupProgress.status = "inProgress" /\ CancelBackup
  /\ UNCHANGED <<isOpen, opening, loopVars, backupProgress, stray>>

(* The YAML of an item, or why there is none; then the next, or the file. *)
ItemFetched(b) ==
  LET fetched == backup[b].fetched + 1
      total == Selections[backup[b].of]
  IN  /\ backup[b].pc = "fetch"
      /\ backup' = [backup EXCEPT ![b].fetched = fetched,
                      ![b].pc = IF fetched = total \/ backup[b].aborted THEN "save" ELSE "fetch"]
      /\ backupProgress' = [status |-> "inProgress", current |-> fetched, total |-> total]
      /\ UNCHANGED <<isOpen, opening, loopVars, backupAbort, stray>>

(* The user has chosen a file, or has not. *)
BackupSaved(b) ==
  /\ backup[b].pc = "save" /\ backup' = [backup EXCEPT ![b].pc = "ended"]
  /\ backupAbort' = NoBackup /\ backupProgress' = NoBackupProgress
  /\ UNCHANGED <<isOpen, opening, loopVars, stray>>

Next ==
  \/ OpenBulkAction \/ CloseBulkAction \/ PauseBulkAction \/ ResumeBulkAction \/ CancelClicked
  \/ \E delay \in BOOLEAN : ConfirmBulkAction(delay)
  \/ \E l \in Openings : SleepEnds(l) \/ \E success \in BOOLEAN : ItemEnds(l, success)
  \/ \E b \in Backups : HandleBackup(b) \/ ItemFetched(b) \/ BackupSaved(b)

Spec == Init /\ [][Next]_bulkVars

-----------------------------------------------------------------------------
TypeOK ==
  /\ isOpen \in BOOLEAN /\ opening \in Openings \cup {0}
  /\ bulkProgress.status \in {"idle", "inProgress", "paused", "complete"}
  /\ pausedRef \in BOOLEAN /\ resumeResolver \in Openings \cup {NoLoop}
  /\ \A l \in Openings : loop[l].pc \in {"off", "call", "sleep", "blocked", "complete"}
  /\ backupProgress.status \in {"idle", "inProgress"} /\ backupAbort \in Backups \cup {NoBackup}
  /\ \A b \in Backups : backup[b].pc \in {"off", "fetch", "save", "ended"}
  /\ stray \in BOOLEAN

(* The dialog shows the action that was confirmed in it: what has been      *)
(* done, and no end before everything is.                                  *)
ProgressExact ==
  isOpen => LET l == loop[opening] IN
    /\ bulkProgress.results = l.results /\ bulkProgress.current = Len(l.results)
    /\ bulkProgress.status = "idle" <=> l.pc = "off"
    /\ bulkProgress.status = "complete" <=> Len(l.results) = Selections[opening]

(* A paused action rests after the item under way, and can be resumed; one  *)
(* that is not paused does not rest.                                       *)
PausedCanResume ==
  isOpen => LET l == loop[opening] IN
    /\ bulkProgress.status = "paused" => pausedRef
    /\ bulkProgress.status = "inProgress" => ~pausedRef /\ l.pc \in {"call", "sleep"}
    /\ l.pc = "blocked" => bulkProgress.status = "paused" /\ resumeResolver = opening

(* Nothing is done to a resource whose backup is being made, and a backup   *)
(* can be cancelled until it has everything.                               *)
BackupComesFirst ==
  \A b \in Backups : backup[b].pc = "fetch" =>
    loop[backup[b].of].pc = "off" /\ (backup[b].aborted \/ backupAbort = b)

(* All this as long as nothing of an earlier opening goes on.               *)
BulkSound == stray \/ (ProgressExact /\ PausedCanResume /\ BackupComesFirst)
=============================================================================
