-------------------------------- MODULE QueryLog --------------------------------
(***************************************************************************)
(* The query log: every search may append one line to a log file that the  *)
(* user has made, several processes at a time, while the file is rotated,  *)
(* removed or made unsafe.                                                 *)
(*                                                                         *)
(* Source: yams-core/src/query_log.rs.  A record is one indivisible line   *)
(* that names its writer; a short write leaves a part of it.               *)
(***************************************************************************)
EXTENDS Naturals, Sequences, FiniteSets

CONSTANTS
    Loggers,       \* searches, each logging once
    NoLog,
    MaxLogFiles,   \* bound on files that are ever the log
    MaxLogTroubles \* bound on rotations, mode changes and failing calls

ASSUME QueryLogAssumption ==
    IsFiniteSet(Loggers) /\ MaxLogFiles \in Nat \ {0} /\ MaxLogTroubles \in Nat

VARIABLES
    logName,     \* the file the log path denotes
    logSafe,     \* the files that are private, regular and singly linked
    logLines,    \* what each file holds: pieces of records
    logPc,       \* the step of each search, at the end its QueryLogOutcome
    logFirst,    \* first_named
    logFd,       \* descriptor
    logTroubles

logVars == <<logName, logSafe, logLines, logPc, logFirst, logFd, logTroubles>>
theLog == <<logName, logSafe, logLines>>

LogFiles == 1 .. MaxLogFiles
LogOutcome == {"appended", "disabled", "skipped", "rejected", "failed"}

QueryLogInit ==
    /\ logName \in {NoLog, 1}
    /\ logSafe \in {{}, LogFiles}
    /\ logLines = [f \in LogFiles |-> <<>>]
    /\ logPc = [q \in Loggers |-> "idle"]
    /\ logFirst = [q \in Loggers |-> NoLog]
    /\ logFd = [q \in Loggers |-> NoLog]
    /\ logTroubles = 0

-----------------------------------------------------------------------------
LogStep(q, pc) == logPc[q] = pc /\ UNCHANGED logTroubles
LogGoto(q, pc) == logPc' = [logPc EXCEPT ![q] = pc]

(* append_with_runtime: an ineligible operation, or a record that          *)
(* compose_line refuses as invalid or oversized, never touches the log.    *)
ComposeLine(q) ==
    /\ LogStep(q, "idle")
    /\ \E pc \in {"skipped", "named"} : LogGoto(q, pc)
    /\ UNCHANGED <<theLog, logFirst, logFd>>

(* named_state and validate_log_state give the name a verdict; a name that *)
(* is gone means that logging is off.                                      *)
NamedVerdict(f) == IF f = NoLog THEN "disabled" ELSE IF f \in logSafe THEN "safe" ELSE "rejected"

(* append_existing: the name first... *)
InspectName(q) ==
    /\ LogStep(q, "named")
    /\ IF NamedVerdict(logName) = "safe" THEN LogGoto(q, "open")
                                         ELSE LogGoto(q, NamedVerdict(logName))
    /\ logFirst' = [logFirst EXCEPT ![q] = logName]
    /\ UNCHANGED <<theLog, logFd>>

(* ... then the file, which must be the one that was inspected... *)
OpenLog(q) ==
    /\ LogStep(q, "open")
    /\ \/ logName = NoLog /\ LogGoto(q, "disabled")
       \/ /\ logName # NoLog
          /\ LogGoto(q, IF logName \in logSafe /\ logName = logFirst[q]
                        THEN "revalidate" ELSE "rejected")
    /\ logFd' = [logFd EXCEPT ![q] = logName]
    /\ UNCHANGED <<theLog, logFirst>>

(* ... then both again, immediately before the write. *)
FinalValidation(q) ==
    /\ LogStep(q, "revalidate")
    /\ \/ logName = NoLog /\ LogGoto(q, "disabled")
       \/ /\ logName # NoLog
          /\ LogGoto(q, IF {logName, logFd[q]} \subseteq logSafe /\ logName = logFd[q]
                        THEN "write" ELSE "rejected")
    /\ UNCHANGED <<theLog, logFirst, logFd>>

(* A call of one of these three inspections fails otherwise than by a      *)
(* missing name or a symbolic link: AppendError::Io.                       *)
InspectionFails(q) ==
    /\ logPc[q] \in {"named", "open", "revalidate"} /\ logTroubles < MaxLogTroubles
    /\ logTroubles' = logTroubles + 1
    /\ LogGoto(q, "failed")
    /\ UNCHANGED <<theLog, logFirst, logFd>>

Append1(q, piece) ==
    logLines' = [logLines EXCEPT ![logFd[q]] = Append(@, [by |-> q, piece |-> piece])]

(* A bug: a failed record is appended once more. *)
WriteTwice(q) ==
    \/ /\ LogStep(q, "write") /\ LogGoto(q, "appended") /\ Append1(q, "whole")
       /\ UNCHANGED <<logName, logSafe, logFirst, logFd>>
    \/ /\ logPc[q] = "write" /\ logTroubles < MaxLogTroubles
       /\ logTroubles' = logTroubles + 1
       /\ LogGoto(q, "write") /\ Append1(q, "part")
       /\ UNCHANGED <<logName, logSafe, logFirst, logFd>>

(* One write, in append mode, to the descriptor: all, a part or nothing. *)
WriteRecord(q) ==
    \/ /\ LogStep(q, "write") /\ LogGoto(q, "appended") /\ Append1(q, "whole")
       /\ UNCHANGED <<logName, logSafe, logFirst, logFd>>
    \/ /\ logPc[q] = "write" /\ logTroubles < MaxLogTroubles
       /\ logTroubles' = logTroubles + 1
       /\ LogGoto(q, "failed")
       /\ Append1(q, "part") \/ UNCHANGED logLines
       /\ UNCHANGED <<logName, logSafe, logFirst, logFd>>

(* The log is rotated, removed or made by somebody else, or its mode       *)
(* changes.                                                                *)
RotateLog ==
    /\ logTroubles < MaxLogTroubles /\ logTroubles' = logTroubles + 1
    /\ \/ logName' \in (LogFiles \cup {NoLog}) \ {logName} /\ UNCHANGED logSafe
       \/ /\ \E f \in LogFiles : logSafe' = IF f \in logSafe THEN logSafe \ {f}
                                                            ELSE logSafe \cup {f}
          /\ UNCHANGED logName
    /\ UNCHANGED <<logLines, logPc, logFirst, logFd>>

QueryLogNext ==
    \/ \E q \in Loggers :
        \/ ComposeLine(q) \/ InspectName(q) \/ OpenLog(q) \/ FinalValidation(q)
        \/ InspectionFails(q) \/ WriteRecord(q)
    \/ RotateLog

QueryLogSpec == QueryLogInit /\ [][QueryLogNext]_logVars

-----------------------------------------------------------------------------
(* All the pieces that a search has left, in whichever files. *)
Pieces(q) ==
    {x \in LogFiles \X (1 .. Cardinality(Loggers)) :
        x[2] <= Len(logLines[x[1]]) /\ logLines[x[1]][x[2]].by = q}

(* append_query_log is honest and writes once: a search that reports       *)
(* Appended has left exactly one piece, the whole line, in the file it     *)
(* inspected first and checked last; one that reports Failed has left at   *)
(* most a part of a line; every other outcome has left nothing, though the *)
(* log is rotated between any two of its steps.                            *)
QueryLogHonest ==
    \A q \in Loggers :
        LET pieces == {[file |-> x[1], piece |-> logLines[x[1]][x[2]].piece] : x \in Pieces(q)}
        IN CASE logPc[q] = "appended" ->
                    /\ pieces = {[file |-> logFirst[q], piece |-> "whole"]}
                    /\ Cardinality(Pieces(q)) = 1
             [] logPc[q] = "failed" ->
                    pieces \subseteq {[file |-> logFirst[q], piece |-> "part"]}
             [] OTHER -> pieces = {}
=============================================================================
