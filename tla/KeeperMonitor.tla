---------------------------- MODULE KeeperMonitor ----------------------------
(***************************************************************************)
(* RpcLagMonitor and KeeperHealthTracker (sdk/src/rpcSync.ts) on top of the *)
(* file store (sdk/src/persistence.ts), taken apart into its two writes.    *)
(*                                                                          *)
(* A keeper records the ledgers it has processed, in any order, asks a node *)
(* for its head to see how far it is behind, and stores its progress. A     *)
(* check and a save are under way while ledgers go on being recorded; one   *)
(* save at a time. The process may die anywhere; the file, and a temporary  *)
(* file that was not renamed yet, are left.                                 *)
(***************************************************************************)
EXTENDS Integers

CONSTANTS
  MaxLedger,            \* bound on the chain
  warningLedgers, criticalLedgers,
  MaxErrors             \* bound on errorCount

VARIABLES
  recorded,     \* the highest ledger the keeper ever processed
  processed,    \* this.processedLedger
  asked,        \* the ledger a check was called with, or NoLedger
  report,       \* the last report: [head, lag], or NoReport
  saving,       \* the ledger a save was called with, or NoLedger
  file,         \* the stored nextLedger, NoFile, or Newer than this program
  temp,         \* the same of the temporary file
  health        \* KeeperHealthTracker: [errorCount, lastSeverity]

vars == <<recorded, processed, asked, report, saving, file, temp, health>>

NoLedger == -1
NoReport == [head |-> -1, lag |-> -1]
NoFile   == -1
Newer    == -2

Larger(a, b) == IF a > b THEN a ELSE b

NewHealth == [errorCount |-> 0, lastSeverity |-> "none"]

Init ==
  /\ recorded = 0 /\ processed = 0
  /\ asked = NoLedger /\ report = NoReport /\ saving = NoLedger
  /\ file \in {NoFile, Newer} /\ temp = NoFile
  /\ health = NewHealth

(* recordProcessedLedger never goes back.                                   *)
recordProcessedLedger(sequence) == processed' = Larger(processed, sequence)

Record ==
  /\ \E sequence \in 0..MaxLedger :
       recorded' = Larger(recorded, sequence) /\ recordProcessedLedger(sequence)
  /\ UNCHANGED <<asked, report, saving, file, temp, health>>

(* Mutant: the ledger to resume from counts as processed.                   *)
RestoresNext(nextLedger) == nextLedger

(* createCheckpoint and normalizeCheckpoint: lastProcessedLedger.           *)
lastProcessedLedger(nextLedger) == nextLedger - 1

(* FileCheckpointStore.load, then restore; a file of a newer version throws.*)
Restore ==
  /\ file >= 0
  /\ recordProcessedLedger(Larger(0, lastProcessedLedger(file)))
  /\ UNCHANGED <<recorded, asked, report, saving, file, temp, health>>

(* persist up to the first write of save.                                   *)
Persist ==
  /\ saving = NoLedger
  /\ saving' = processed + 1
  /\ UNCHANGED <<recorded, processed, asked, report, file, temp, health>>

WriteTemp ==
  /\ saving # NoLedger /\ temp # saving
  /\ temp' = saving
  /\ UNCHANGED <<recorded, processed, asked, report, saving, file, health>>

Rename ==
  /\ saving # NoLedger /\ temp = saving
  /\ file' = temp /\ temp' = NoFile /\ saving' = NoLedger
  /\ UNCHANGED <<recorded, processed, asked, report, health>>

(* Either write fails: the temporary file is removed if it can be.          *)
SaveFails ==
  /\ saving # NoLedger
  /\ temp' \in {temp, NoFile} /\ saving' = NoLedger
  /\ UNCHANGED <<recorded, processed, asked, report, file, health>>

Clear ==
  /\ saving = NoLedger
  /\ file' = NoFile /\ temp' \in {temp, NoFile}
  /\ UNCHANGED <<recorded, processed, asked, report, saving, health>>

-----------------------------------------------------------------------------
computeLedgerLag(processedLedger, headLedger) == Larger(0, headLedger - processedLedger)

classifyLag(lagLedgers) ==
  IF lagLedgers >= criticalLedgers THEN "critical"
  ELSE IF lagLedgers >= warningLedgers THEN "warning" ELSE "ok"

(* check: the processed ledger is read before the node is asked.            *)
BeginCheck ==
  /\ asked = NoLedger
  /\ asked' = processed
  /\ UNCHANGED <<recorded, processed, report, saving, file, temp, health>>

(* checkRpcLag: the node may be ahead of the keeper or behind it.           *)
CheckAnswered ==
  /\ asked # NoLedger
  /\ \E head \in 0..MaxLedger :
       /\ report' = [head |-> head, lag |-> computeLedgerLag(asked, head)]
       /\ health' = [health EXCEPT !.lastSeverity = classifyLag(report'.lag)]
  /\ asked' = NoLedger
  /\ UNCHANGED <<recorded, processed, saving, file, temp>>

CheckFails ==
  /\ asked # NoLedger
  /\ asked' = NoLedger
  /\ health' = [health EXCEPT !.errorCount = IF @ < MaxErrors THEN @ + 1 ELSE @]
  /\ UNCHANGED <<recorded, processed, report, saving, file, temp>>

Crash ==
  /\ processed' = 0 /\ asked' = NoLedger /\ saving' = NoLedger
  /\ report' = NoReport /\ health' = NewHealth
  /\ UNCHANGED <<recorded, file, temp>>

Next ==
  \/ Record \/ Restore \/ Persist \/ WriteTemp \/ Rename \/ SaveFails \/ Clear
  \/ BeginCheck \/ CheckAnswered \/ CheckFails \/ Crash

Spec == Init /\ [][Next]_vars

-----------------------------------------------------------------------------
(* Properties.                                                             *)

(* A report never makes the keeper look closer to the head than it is: the  *)
(* progress it is measured by was made, whether it was recorded by this     *)
(* process or stored by an earlier one, as the next ledger, and read back.  *)
(* So is the stored position: a keeper that resumes there skips nothing.    *)
LagNotUnderstated ==
  /\ report # NoReport => report.lag >= report.head - recorded
  /\ file >= 0 => file <= recorded + 1
=============================================================================
