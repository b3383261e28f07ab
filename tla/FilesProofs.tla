------------------------------ MODULE FilesProofs ------------------------------
(***************************************************************************)
(* Proofs about three protocols over shared files: the query log, the      *)
(* model cache and the opening of a store.  They share nothing, and each   *)
(* has an invariant of its own.                                            *)
(***************************************************************************)
EXTENDS StoreOpen, ModelCache, QueryLog, FiniteSetTheorems, TLAPS

-----------------------------------------------------------------------------
(* The query log.                                                          *)

Lines == [by : Loggers, piece : {"whole", "part"}]

LogTypes ==
    /\ logName \in LogFiles \cup {NoLog}
    /\ logLines \in [LogFiles -> Seq(Lines)]
    /\ DOMAIN logPc = Loggers /\ DOMAIN logFirst = Loggers /\ DOMAIN logFd = Loggers

(* Those that have written. *)
Writers == {q \in Loggers : logPc[q] \in {"appended", "failed"}}

(* What is written is written to the file that was inspected. *)
Inspected(q) ==
    /\ logPc[q] = "revalidate" => logFd[q] = logFirst[q]
    /\ logPc[q] \in {"write", "appended"} => logFd[q] = logFirst[q] /\ logFd[q] \in LogFiles

(* What a search has left, in whichever file. *)
Left(q) ==
    /\ logPc[q] \notin {"appended", "failed"} =>
         \A f \in LogFiles : \A i \in 1 .. Len(logLines[f]) : logLines[f][i].by # q
    /\ logPc[q] = "appended" =>
         \E i \in 1 .. Len(logLines[logFd[q]]) :
            /\ logLines[logFd[q]][i] = [by |-> q, piece |-> "whole"]
            /\ \A f \in LogFiles : \A j \in 1 .. Len(logLines[f]) :
                 logLines[f][j].by = q => f = logFd[q] /\ j = i
    /\ logPc[q] = "failed" =>
         \A f \in LogFiles : \A j \in 1 .. Len(logLines[f]) :
            logLines[f][j].by = q => f = logFirst[q] /\ logLines[f][j].piece = "part"

(* No file has more lines than there were writers. *)
LinesBounded == \A f \in LogFiles : Len(logLines[f]) <= Cardinality(Writers)

LogInv == LogTypes /\ (\A q \in Loggers : Inspected(q) /\ Left(q)) /\ LinesBounded

LEMMA LogInit == QueryLogInit => LogInv
<1> SUFFICES ASSUME QueryLogInit PROVE LogInv
  OBVIOUS
<1>1. 1 \in LogFiles
  BY QueryLogAssumption DEF LogFiles
<1>2. LogTypes
  BY <1>1 DEF QueryLogInit, LogTypes
<1>3. \A q \in Loggers : Inspected(q) /\ Left(q)
  BY DEF QueryLogInit, Inspected, Left
<1>4. Writers = {}
  BY DEF QueryLogInit, Writers
<1>5. LinesBounded
  BY <1>4, FS_EmptySet DEF LinesBounded, QueryLogInit
<1> QED
  BY <1>2, <1>3, <1>5 DEF LogInv

(* A step that writes nothing, and that nobody takes who has written. *)
LEMMA LogUnwritten ==
    ASSUME LogInv, UNCHANGED logLines, LogTypes', NEW q \in Loggers,
           logPc[q] \notin {"appended", "failed"}, logPc'[q] \notin {"appended", "failed"},
           \A w \in Loggers \ {q} :
             logPc'[w] = logPc[w] /\ logFd'[w] = logFd[w] /\ logFirst'[w] = logFirst[w],
           Inspected(q)'
    PROVE  LogInv'
<1>1. \A w \in Loggers : Inspected(w)'
  BY DEF LogInv, Inspected
<1>2. \A w \in Loggers : Left(w)'
  <2>1. Left(q)'
    BY DEF LogInv, Left
  <2>2. ASSUME NEW w \in Loggers, w # q PROVE Left(w)'
    BY <2>2 DEF LogInv, Left
  <2> QED
    BY <2>1, <2>2
<1>3. Writers' = Writers
  BY DEF Writers
<1>4. LinesBounded'
  BY <1>3 DEF LogInv, LinesBounded
<1> QED
  BY <1>1, <1>2, <1>4 DEF LogInv

(* The write leaves one line, at the end of the file that was checked. *)
LEMMA LogWritten ==
    ASSUME LogInv, NEW q \in Loggers, logPc[q] = "write", NEW piece \in {"whole", "part"},
           Append1(q, piece), UNCHANGED <<logName, logFirst, logFd>>,
           LogGoto(q, IF piece = "whole" THEN "appended" ELSE "failed")
    PROVE  LogInv'
<1>1. PICK g \in LogFiles : g = logFd[q] /\ g = logFirst[q]
  BY DEF LogInv, Inspected
<1>2. PICK line \in Lines : line = [by |-> q, piece |-> piece]
  BY DEF Lines
<1>3. /\ logLines \in [LogFiles -> Seq(Lines)]
      /\ logLines' = [logLines EXCEPT ![g] = Append(@, line)]
  BY <1>1, <1>2 DEF LogInv, LogTypes, Append1
<1>4. /\ logLines' \in [LogFiles -> Seq(Lines)]
      /\ Len(logLines'[g]) = Len(logLines[g]) + 1
      /\ logLines'[g][Len(logLines[g]) + 1] = line
      /\ \A i \in 1 .. Len(logLines[g]) : logLines'[g][i] = logLines[g][i]
      /\ \A f \in LogFiles \ {g} : logLines'[f] = logLines[f]
      /\ Len(logLines[g]) \in Nat
  BY <1>3
<1>5. /\ DOMAIN logPc' = Loggers
      /\ logPc'[q] = IF piece = "whole" THEN "appended" ELSE "failed"
      /\ \A w \in Loggers \ {q} : logPc'[w] = logPc[w]
  BY DEF LogInv, LogTypes, LogGoto
<1>6. LogTypes'
  BY <1>4, <1>5 DEF LogInv, LogTypes
<1>7. \A w \in Loggers : Inspected(w)'
  BY <1>1, <1>5 DEF LogInv, Inspected
<1>8. \A f \in LogFiles : \A i \in 1 .. Len(logLines'[f]) :
         \/ f = g /\ i = Len(logLines[g]) + 1 /\ logLines'[f][i] = line
         \/ i \in 1 .. Len(logLines[f]) /\ logLines'[f][i] = logLines[f][i]
  BY <1>4
<1>9. \A f \in LogFiles : \A i \in 1 .. Len(logLines[f]) :
         i \in 1 .. Len(logLines'[f]) /\ logLines'[f][i] = logLines[f][i]
  BY <1>4
<1>10. Left(q)'
  <2>1. \A f \in LogFiles : \A i \in 1 .. Len(logLines[f]) : logLines[f][i].by # q
    BY DEF LogInv, Left
  <2>2. \A f \in LogFiles : \A i \in 1 .. Len(logLines'[f]) : logLines'[f][i].by = q =>
          f = g /\ i = Len(logLines[g]) + 1 /\ logLines'[f][i] = line
    BY <1>8, <2>1
  <2>3. Len(logLines[g]) + 1 \in 1 .. Len(logLines'[g])
    BY <1>4
  <2>4. CASE piece = "whole"
    <3>1. logPc'[q] = "appended" /\ logLines'[g][Len(logLines[g]) + 1] = [by |-> q, piece |-> "whole"]
      BY <1>2, <1>4, <1>5, <2>4
    <3> QED
      BY <1>1, <2>2, <2>3, <3>1 DEF Left
  <2>5. CASE piece = "part"
    <3>1. logPc'[q] = "failed" /\ line.piece = "part"
      BY <1>2, <1>5, <2>5
    <3> QED
      BY <1>1, <2>2, <3>1 DEF Left
  <2> QED
    BY <2>4, <2>5
<1>11. ASSUME NEW w \in Loggers, w # q PROVE Left(w)'
  <2>1. logPc'[w] = logPc[w] /\ logFd'[w] = logFd[w] /\ logFirst'[w] = logFirst[w] /\ line.by # w
    BY <1>2, <1>5, <1>11
  <2>2. \A f \in LogFiles : \A i \in 1 .. Len(logLines'[f]) : logLines'[f][i].by = w =>
          i \in 1 .. Len(logLines[f]) /\ logLines'[f][i] = logLines[f][i]
    BY <1>8, <2>1
  <2>3. CASE logPc[w] = "appended"
    <3>1. logFd[w] \in LogFiles
      BY <2>3 DEF LogInv, Inspected
    <3>2. PICK i \in 1 .. Len(logLines[logFd[w]]) :
            /\ logLines[logFd[w]][i] = [by |-> w, piece |-> "whole"]
            /\ \A f \in LogFiles : \A j \in 1 .. Len(logLines[f]) :
                 logLines[f][j].by = w => f = logFd[w] /\ j = i
      BY <2>3 DEF LogInv, Left
    <3>3. /\ i \in 1 .. Len(logLines'[logFd[w]])
          /\ logLines'[logFd[w]][i] = [by |-> w, piece |-> "whole"]
      BY <1>9, <3>1, <3>2
    <3>4. \A f \in LogFiles : \A j \in 1 .. Len(logLines'[f]) :
            logLines'[f][j].by = w => f = logFd[w] /\ j = i
      BY <2>2, <3>2
    <3> QED
      BY <2>1, <2>3, <3>3, <3>4 DEF Left
  <2>4. CASE logPc[w] = "failed"
    <3>1. \A f \in LogFiles : \A i \in 1 .. Len(logLines[f]) :
            logLines[f][i].by = w => f = logFirst[w] /\ logLines[f][i].piece = "part"
      BY <2>4 DEF LogInv, Left
    <3>2. \A f \in LogFiles : \A i \in 1 .. Len(logLines'[f]) :
            logLines'[f][i].by = w => f = logFirst'[w] /\ logLines'[f][i].piece = "part"
      BY <2>1, <2>2, <3>1
    <3> QED
      BY <2>1, <2>4, <3>2 DEF Left
  <2>5. CASE logPc[w] \notin {"appended", "failed"}
    BY <2>1, <2>2, <2>5 DEF LogInv, Left
  <2> QED
    BY <2>3, <2>4, <2>5
<1>12. LinesBounded'
  <2>1. Writers' = Writers \cup {q} /\ q \notin Writers
    BY <1>5 DEF Writers
  <2>2. IsFiniteSet(Writers)
    BY QueryLogAssumption, FS_Subset DEF Writers
  <2>3. Cardinality(Writers') = Cardinality(Writers) + 1 /\ Cardinality(Writers) \in Nat
    BY <2>1, <2>2, FS_AddElement, FS_CardinalityType
  <2>4. ASSUME NEW f \in LogFiles PROVE Len(logLines'[f]) <= Cardinality(Writers')
    <3>1. Len(logLines[f]) <= Cardinality(Writers) /\ Len(logLines[f]) \in Nat
      BY <1>3 DEF LogInv, LinesBounded
    <3>2. Len(logLines'[f]) = Len(logLines[f]) \/ Len(logLines'[f]) = Len(logLines[f]) + 1
      BY <1>4
    <3> QED
      BY <2>3, <3>1, <3>2
  <2> QED
    BY <2>4 DEF LinesBounded
<1> QED
  BY <1>6, <1>7, <1>10, <1>11, <1>12 DEF LogInv

(* A step that fails before it has written anything. *)
LEMMA LogFailsUnwritten ==
    ASSUME LogInv, NEW q \in Loggers, logPc[q] \notin {"appended", "failed"},
           LogGoto(q, "failed"), UNCHANGED <<logName, logLines, logFirst, logFd>>
    PROVE  LogInv'
<1>1. /\ DOMAIN logPc' = Loggers /\ logPc'[q] = "failed"
      /\ \A w \in Loggers \ {q} : logPc'[w] = logPc[w]
  BY DEF LogInv, LogTypes, LogGoto
<1>2. LogTypes'
  BY <1>1 DEF LogInv, LogTypes
<1>3. \A w \in Loggers : Inspected(w)'
  BY <1>1 DEF LogInv, Inspected
<1>4. Left(q)'
  <2>1. \A f \in LogFiles : \A i \in 1 .. Len(logLines[f]) : logLines[f][i].by # q
    BY DEF LogInv, Left
  <2> QED
    BY <1>1, <2>1 DEF Left
<1>5. ASSUME NEW w \in Loggers, w # q PROVE Left(w)'
  BY <1>1, <1>5 DEF LogInv, Left
<1>6. LinesBounded'
  <2>1. Writers \subseteq Writers' /\ IsFiniteSet(Writers')
    BY <1>1, QueryLogAssumption, FS_Subset DEF Writers
  <2>2. /\ Cardinality(Writers) <= Cardinality(Writers')
        /\ Cardinality(Writers) \in Nat /\ Cardinality(Writers') \in Nat
    BY <2>1, FS_Subset, FS_CardinalityType
  <2>3. ASSUME NEW f \in LogFiles PROVE Len(logLines'[f]) <= Cardinality(Writers')
    <3>1. Len(logLines[f]) <= Cardinality(Writers) /\ Len(logLines[f]) \in Nat
      BY DEF LogInv, LogTypes, LinesBounded
    <3> QED
      BY <2>2, <3>1
  <2> QED
    BY <2>3 DEF LinesBounded
<1> QED
  BY <1>2, <1>3, <1>4, <1>5, <1>6 DEF LogInv

LEMMA LogNext == LogInv /\ [QueryLogNext]_logVars => LogInv'
<1> SUFFICES ASSUME LogInv, [QueryLogNext]_logVars PROVE LogInv'
  OBVIOUS
<1>1. /\ DOMAIN logPc = Loggers /\ DOMAIN logFirst = Loggers /\ DOMAIN logFd = Loggers
      /\ logName \in LogFiles \cup {NoLog}
  BY DEF LogInv, LogTypes
<1>2. ASSUME NEW q \in Loggers, ComposeLine(q) PROVE LogInv'
  <2>1. logPc[q] = "idle" /\ logPc'[q] \in {"skipped", "named"} /\ LogTypes'
    BY <1>1, <1>2 DEF ComposeLine, LogStep, LogGoto, theLog, LogInv, LogTypes
  <2> QED
    BY <1>1, <1>2, <2>1, LogUnwritten DEF ComposeLine, LogGoto, theLog, Inspected
<1>3. ASSUME NEW q \in Loggers, InspectName(q) PROVE LogInv'
  <2>1. /\ logPc[q] = "named" /\ logPc'[q] \in {"open", "disabled", "rejected"} /\ LogTypes'
        /\ \A w \in Loggers \ {q} : logPc'[w] = logPc[w] /\ logFirst'[w] = logFirst[w]
    BY <1>1, <1>3 DEF InspectName, NamedVerdict, LogStep, LogGoto, theLog, LogInv, LogTypes
  <2> QED
    BY <1>3, <2>1, LogUnwritten DEF InspectName, theLog, Inspected
<1>4. ASSUME NEW q \in Loggers, OpenLog(q) PROVE LogInv'
  <2>1. /\ logPc[q] = "open" /\ logPc'[q] \in {"disabled", "rejected", "revalidate"} /\ LogTypes'
        /\ logPc'[q] = "revalidate" => logFd'[q] = logFirst'[q]
        /\ \A w \in Loggers \ {q} : logPc'[w] = logPc[w] /\ logFd'[w] = logFd[w]
    BY <1>1, <1>4 DEF OpenLog, LogStep, LogGoto, theLog, LogInv, LogTypes
  <2> QED
    BY <1>4, <2>1, LogUnwritten DEF OpenLog, theLog, Inspected
<1>5. ASSUME NEW q \in Loggers, FinalValidation(q) PROVE LogInv'
  <2>1. logFd[q] = logFirst[q]
    BY <1>5 DEF FinalValidation, LogStep, LogInv, Inspected
  <2>2. /\ logPc[q] = "revalidate" /\ logPc'[q] \in {"disabled", "rejected", "write"} /\ LogTypes'
        /\ logPc'[q] = "write" => logFd[q] \in LogFiles
        /\ \A w \in Loggers \ {q} : logPc'[w] = logPc[w]
    BY <1>1, <1>5 DEF FinalValidation, LogStep, LogGoto, theLog, LogInv, LogTypes
  <2> QED
    BY <1>5, <2>1, <2>2, LogUnwritten DEF FinalValidation, theLog, Inspected
<1>6. ASSUME NEW q \in Loggers, WriteRecord(q) PROVE LogInv'
  <2>1. logPc[q] = "write" /\ UNCHANGED <<logName, logFirst, logFd>>
    BY <1>6 DEF WriteRecord, LogStep
  <2>2. CASE LogGoto(q, "appended") /\ Append1(q, "whole")
    BY <2>1, <2>2, LogWritten
  <2>3. CASE LogGoto(q, "failed") /\ Append1(q, "part")
    BY <2>1, <2>3, LogWritten
  <2>4. CASE LogGoto(q, "failed") /\ UNCHANGED logLines
    BY <2>1, <2>4, LogFailsUnwritten
  <2> QED
    BY <1>6, <2>2, <2>3, <2>4 DEF WriteRecord
<1>7. ASSUME NEW q \in Loggers, InspectionFails(q) PROVE LogInv'
  BY <1>7, LogFailsUnwritten DEF InspectionFails, theLog
<1>8. CASE RotateLog \/ UNCHANGED logVars
  <2>1. UNCHANGED <<logLines, logPc, logFirst, logFd>> /\ logName' \in LogFiles \cup {NoLog}
    BY <1>1, <1>8 DEF RotateLog, logVars
  <2>2. LogTypes'
    BY <2>1 DEF LogInv, LogTypes
  <2>3. \A q \in Loggers : Inspected(q)' /\ Left(q)'
    <3>1. \A q \in Loggers : Inspected(q)'
      BY <2>1 DEF LogInv, Inspected
    <3>2. \A q \in Loggers : Left(q)'
      BY <2>1 DEF LogInv, Left
    <3> QED
      BY <3>1, <3>2
  <2>4. LinesBounded'
    <3>1. Writers' = Writers
      BY <2>1 DEF Writers
    <3> QED
      BY <2>1, <3>1 DEF LogInv, LinesBounded
  <2> QED
    BY <2>2, <2>3, <2>4 DEF LogInv
<1> QED
  BY <1>2, <1>3, <1>4, <1>5, <1>6, <1>7, <1>8 DEF QueryLogNext

(* The invariant says what QueryLogHonest says: the pieces of a search are *)
(* the lines with its name, for no file has more lines than searches.      *)
LEMMA LogHonest == LogInv => QueryLogHonest
<1> SUFFICES ASSUME LogInv, NEW q \in Loggers
             PROVE  LET pieces == {[file |-> x[1], piece |-> logLines[x[1]][x[2]].piece] : x \in Pieces(q)}
                    IN CASE logPc[q] = "appended" ->
                                /\ pieces = {[file |-> logFirst[q], piece |-> "whole"]}
                                /\ Cardinality(Pieces(q)) = 1
                         [] logPc[q] = "failed" ->
                                pieces \subseteq {[file |-> logFirst[q], piece |-> "part"]}
                         [] OTHER -> pieces = {}
  BY DEF QueryLogHonest
<1> DEFINE pieces == {[file |-> x[1], piece |-> logLines[x[1]][x[2]].piece] : x \in Pieces(q)}
<1>1. ASSUME NEW f \in LogFiles
      PROVE  Len(logLines[f]) \in Nat /\ Len(logLines[f]) <= Cardinality(Loggers)
             /\ Cardinality(Loggers) \in Nat
  <2>1. /\ Writers \subseteq Loggers
        /\ Cardinality(Writers) <= Cardinality(Loggers)
        /\ Cardinality(Writers) \in Nat /\ Cardinality(Loggers) \in Nat
    BY QueryLogAssumption, FS_Subset, FS_CardinalityType DEF Writers
  <2>2. Len(logLines[f]) \in Nat /\ Len(logLines[f]) <= Cardinality(Writers)
    BY DEF LogInv, LogTypes, LinesBounded
  <2> QED
    BY <2>1, <2>2
<1>2. ASSUME NEW x \in Pieces(q)
      PROVE  /\ x[1] \in LogFiles /\ x[2] \in 1 .. Len(logLines[x[1]])
             /\ logLines[x[1]][x[2]].by = q /\ x = <<x[1], x[2]>>
  <2>1. /\ x \in LogFiles \X (1 .. Cardinality(Loggers))
        /\ x[2] <= Len(logLines[x[1]]) /\ logLines[x[1]][x[2]].by = q
    BY DEF Pieces
  <2>2. x[1] \in LogFiles /\ x[2] \in 1 .. Cardinality(Loggers) /\ x = <<x[1], x[2]>>
    BY <2>1
  <2> QED
    BY <1>1, <2>1, <2>2
<1>3. CASE logPc[q] = "appended"
  <2>1. logFd[q] = logFirst[q] /\ logFd[q] \in LogFiles
    BY <1>3 DEF LogInv, Inspected
  <2>2. PICK i \in 1 .. Len(logLines[logFd[q]]) :
          /\ logLines[logFd[q]][i] = [by |-> q, piece |-> "whole"]
          /\ \A f \in LogFiles : \A j \in 1 .. Len(logLines[f]) :
               logLines[f][j].by = q => f = logFd[q] /\ j = i
    BY <1>3 DEF LogInv, Left
  <2>3. <<logFd[q], i>> \in Pieces(q)
    <3>1. i \in 1 .. Cardinality(Loggers) /\ i <= Len(logLines[logFd[q]])
      BY <1>1, <2>1, <2>2
    <3>2. logLines[logFd[q]][i].by = q
      BY <2>2
    <3> QED
      BY <2>1, <3>1, <3>2 DEF Pieces
  <2>4. Pieces(q) = {<<logFd[q], i>>}
    <3>1. ASSUME NEW x \in Pieces(q) PROVE x = <<logFd[q], i>>
      BY <1>2, <2>2
    <3> QED
      BY <2>3, <3>1
  <2>5. Cardinality(Pieces(q)) = 1
    BY <2>4, FS_Singleton
  <2>6. pieces = {[file |-> logFd[q], piece |-> logLines[logFd[q]][i].piece]}
    BY <2>4
  <2>7. logLines[logFd[q]][i].piece = "whole"
    BY <2>2
  <2> QED
    BY <1>3, <2>1, <2>5, <2>6, <2>7
<1>4. CASE logPc[q] = "failed"
  <2>1. \A x \in Pieces(q) : x[1] = logFirst[q] /\ logLines[x[1]][x[2]].piece = "part"
    <3>1. \A f \in LogFiles : \A j \in 1 .. Len(logLines[f]) :
            logLines[f][j].by = q => f = logFirst[q] /\ logLines[f][j].piece = "part"
      BY <1>4 DEF LogInv, Left
    <3> QED
      BY <1>2, <3>1
  <2> QED
    BY <1>4, <2>1
<1>5. CASE logPc[q] \notin {"appended", "failed"}
  <2>1. Pieces(q) = {}
    <3>1. \A f \in LogFiles : \A j \in 1 .. Len(logLines[f]) : logLines[f][j].by # q
      BY <1>5 DEF LogInv, Left
    <3> QED
      BY <1>2, <3>1
  <2> QED
    BY <1>5, <2>1
<1> QED
  BY <1>3, <1>4, <1>5

(* append_query_log is honest and writes once, for any number of searches, *)
(* files, rotations and failing writes: who reports Appended has left one  *)
(* whole line in the file it inspected, who reports Failed at most a part  *)
(* there, and everybody else nothing anywhere.                             *)
THEOREM QueryLogsAreHonest == QueryLogSpec => []QueryLogHonest
<1>1. QueryLogInit => LogInv
  BY LogInit
<1>2. LogInv /\ [QueryLogNext]_logVars => LogInv'
  BY LogNext
<1>3. LogInv => QueryLogHonest
  BY LogHonest
<1> QED
  BY <1>1, <1>2, <1>3, PTL DEF QueryLogSpec

-----------------------------------------------------------------------------
(* The model cache.                                                        *)

(* A stamp is given out once and never again. *)
Stamped(e) == e # Absent => e.stamp \in Nat /\ e.stamp <= cacheStamp

CacheDisk ==
    /\ cacheStamp \in Nat
    /\ DOMAIN cacheEntry = Artifacts /\ \A x \in Artifacts : Stamped(cacheEntry[x])

LoadTypes ==
    /\ DOMAIN loadPc = Builders /\ DOMAIN loadNext = Builders /\ DOMAIN loadPins = Builders
    /\ DOMAIN loadBytes = Builders /\ DOMAIN together = Builders
    /\ \A b \in Builders : DOMAIN loadPins[b] = Artifacts /\ DOMAIN loadBytes[b] = Artifacts

(* An artifact has been pinned and its pinned bytes are in memory. *)
Taken(b, x) == loadPins[b][x] # Absent /\ loadPins[b][x].bytes = loadBytes[b][x]

Loader(b) ==
    /\ loadPc[b] \in {"idle", "resolve"} => loadNext[b] = 1
    /\ loadPc[b] \in {"open", "read", "download"} => loadNext[b] \in Artifacts
    /\ loadPc[b] = "read" => loadPins[b][loadNext[b]] # Absent
    /\ \A x \in Artifacts : Stamped(loadPins[b][x])
    /\ loadPc[b] \in {"open", "read"} => \A x \in Artifacts : x < loadNext[b] => Taken(b, x)
    /\ loadPc[b] = "recheck" => \A x \in Artifacts : Taken(b, x)

(* A cache that still equals the pins held the bytes together. *)
Gathered(b) ==
    /\ loadPc[b] = "recheck" /\ (\A x \in Artifacts : cacheEntry[x] = loadPins[b][x]) => together[b]
    /\ loadPc[b] \in {"verify", "construct", "loaded"} => together[b]
    /\ loadPc[b] \in {"construct", "loaded"} => \A x \in Artifacts : loadBytes[b][x] = "good"

CacheInv == CacheDisk /\ LoadTypes /\ \A b \in Builders : Loader(b) /\ Gathered(b)

LEMMA ArtifactsAreNumbered ==
    /\ LastArtifact \in Nat \ {0} /\ Artifacts = 1 .. LastArtifact
    /\ 1 \in Artifacts
<1>1. Cardinality(Artifacts) \in Nat \ {0} /\ \E n \in 1 .. Cardinality(Artifacts) : Artifacts = 1 .. n
  <2>1. PICK n \in 1 .. Cardinality(Artifacts) : Artifacts = 1 .. n
    BY ModelCacheAssumption
  <2>2. n \in Int /\ 1 <= n
    BY <2>1
  <2>3. Cardinality(1 .. n) = n
    BY <2>2, FS_Interval
  <2> QED
    BY <2>1, <2>2, <2>3
<1>2. PICK n \in 1 .. Cardinality(Artifacts) : Artifacts = 1 .. n
  BY <1>1
<1>3. n \in Int /\ 1 <= n
  BY <1>2
<1>4. Cardinality(1 .. n) = n
  BY <1>3, FS_Interval
<1> QED
  BY <1>1, <1>2, <1>3, <1>4 DEF LastArtifact

LEMMA CacheInit == ModelCacheInit => CacheInv
<1> SUFFICES ASSUME ModelCacheInit PROVE CacheInv
  OBVIOUS
<1>1. CacheDisk
  <2>1. cacheStamp = 0 /\ DOMAIN cacheEntry = Artifacts
    BY DEF ModelCacheInit, Empty
  <2>2. ASSUME NEW x \in Artifacts, cacheEntry[x] # Absent PROVE cacheEntry[x].stamp = 0
    BY <2>2 DEF ModelCacheInit, Empty
  <2> QED
    BY <2>1, <2>2 DEF CacheDisk, Stamped
<1>2. LoadTypes
  BY DEF ModelCacheInit, LoadTypes, Empty
<1>3. ASSUME NEW b \in Builders PROVE Loader(b) /\ Gathered(b)
  <2>1. loadPc[b] = "idle" /\ loadNext[b] = 1 /\ \A x \in Artifacts : loadPins[b][x] = Absent
    BY DEF ModelCacheInit, Empty
  <2> QED
    BY <2>1 DEF Loader, Gathered, Stamped
<1> QED
  BY <1>1, <1>2, <1>3 DEF CacheInv

(* What the cache may do at a step: entries stay, go, or get a new stamp.  *)
CacheMoves ==
    /\ cacheStamp' \in Nat /\ cacheStamp <= cacheStamp'
    /\ DOMAIN cacheEntry' = Artifacts
    /\ \A x \in Artifacts :
         \/ cacheEntry'[x] = cacheEntry[x]
         \/ cacheEntry'[x] = Absent
         \/ cacheEntry'[x].stamp = cacheStamp + 1 /\ cacheStamp' = cacheStamp + 1

LEMMA DiskMoves ==
    ASSUME CacheInv, CacheMoves PROVE CacheDisk'
<1>1. cacheStamp \in Nat
  BY DEF CacheInv, CacheDisk
<1>2. ASSUME NEW x \in Artifacts PROVE Stamped(cacheEntry[x])'
  <2>1. cacheEntry[x] # Absent => cacheEntry[x].stamp \in Nat /\ cacheEntry[x].stamp <= cacheStamp
    BY DEF CacheInv, CacheDisk, Stamped
  <2> QED
    BY <1>1, <2>1 DEF CacheMoves, Stamped
<1> QED
  BY <1>2 DEF CacheMoves, CacheDisk

(* A loader that does not move keeps its invariant whatever the cache does:*)
(* an entry that changes never again equals a pin.                         *)
LEMMA LoaderRests ==
    ASSUME CacheInv, CacheMoves, NEW b \in Builders,
           loadPc'[b] = loadPc[b], loadNext'[b] = loadNext[b], loadPins'[b] = loadPins[b],
           loadBytes'[b] = loadBytes[b], together'[b] = together[b]
    PROVE  Loader(b)' /\ Gathered(b)'
<1>1. cacheStamp \in Nat /\ Loader(b) /\ Gathered(b)
  BY DEF CacheInv, CacheDisk
<1>2. ASSUME NEW x \in Artifacts
      PROVE  /\ Stamped(loadPins[b][x])' /\ Taken(b, x)' = Taken(b, x)
             /\ loadPins[b][x] # Absent /\ cacheEntry'[x] = loadPins[b][x]
                  => cacheEntry[x] = loadPins[b][x]
  <2>1. loadPins[b][x] # Absent => loadPins[b][x].stamp \in Nat /\ loadPins[b][x].stamp <= cacheStamp
    BY <1>1 DEF Loader, Stamped
  <2>2. Stamped(loadPins[b][x])'
    BY <1>1, <2>1 DEF CacheMoves, Stamped
  <2>3. Taken(b, x)' = Taken(b, x)
    BY DEF Taken
  <2>4. ASSUME loadPins[b][x] # Absent, cacheEntry'[x] = loadPins[b][x]
        PROVE  cacheEntry[x] = loadPins[b][x]
    BY <1>1, <2>1, <2>4 DEF CacheMoves
  <2> QED
    BY <2>2, <2>3, <2>4
<1>3. Loader(b)'
  BY <1>1, <1>2 DEF Loader
<1>4. Gathered(b)'
  <2>1. ASSUME loadPc[b] = "recheck", \A x \in Artifacts : cacheEntry'[x] = loadPins[b][x]
        PROVE  together[b]
    <3>1. \A x \in Artifacts : loadPins[b][x] # Absent
      BY <1>1, <2>1 DEF Loader, Taken
    <3>2. \A x \in Artifacts : cacheEntry[x] = loadPins[b][x]
      BY <1>2, <2>1, <3>1
    <3> QED
      BY <1>1, <2>1, <3>2 DEF Gathered
  <2> QED
    BY <1>1, <2>1 DEF Gathered
<1> QED
  BY <1>3, <1>4

(* A step of one loader. *)
LEMMA LoaderSteps ==
    ASSUME CacheInv, CacheMoves, LoadTypes', NEW b \in Builders,
           \A w \in Builders \ {b} :
             /\ loadPc'[w] = loadPc[w] /\ loadNext'[w] = loadNext[w] /\ loadPins'[w] = loadPins[w]
             /\ loadBytes'[w] = loadBytes[w] /\ together'[w] = together[w],
           Loader(b)', Gathered(b)'
    PROVE  CacheInv'
<1>1. CacheDisk'
  BY DiskMoves
<1>2. ASSUME NEW w \in Builders, w # b PROVE Loader(w)' /\ Gathered(w)'
  BY <1>2, LoaderRests
<1> QED
  BY <1>1, <1>2 DEF CacheInv

LEMMA CacheRests ==
    ASSUME CacheInv, UNCHANGED theCache PROVE CacheMoves
BY DEF CacheInv, CacheDisk, CacheMoves, theCache

LoadErrors == {"missing", "no snapshot", "unsafe", "rebound", "mismatch", "construction"}

LEMMA LoadFails ==
    ASSUME CacheInv, UNCHANGED theCache, NEW b \in Builders, NEW error \in LoadErrors,
           LoadError(b, error)
    PROVE  CacheInv'
<1>1. LoadTypes
  BY DEF CacheInv
<1>2. /\ loadPc'[b] \in LoadErrors \cup {"not served", "download"}
      /\ loadNext'[b] = 1 /\ loadPins'[b] = Empty
  BY <1>1 DEF LoadError, LoadTypes, after_download, LoadErrors
<1>3. /\ LoadTypes'
      /\ \A w \in Builders \ {b} :
             /\ loadPc'[w] = loadPc[w] /\ loadNext'[w] = loadNext[w] /\ loadPins'[w] = loadPins[w]
             /\ loadBytes'[w] = loadBytes[w] /\ together'[w] = together[w]
  BY <1>1 DEF LoadError, LoadTypes, Empty
<1>4. Loader(b)'
  <2>1. \A x \in Artifacts : loadPins'[b][x] = Absent
    BY <1>2 DEF Empty
  <2> QED
    BY <1>2, <2>1, ArtifactsAreNumbered DEF Loader, Stamped, LoadErrors
<1>5. Gathered(b)'
  BY <1>2 DEF Gathered, LoadErrors
<1> QED
  BY <1>3, <1>4, <1>5, CacheRests, LoaderSteps

(* A loader goes on and nothing else moves. *)
LEMMA LoadGoesOn ==
    ASSUME CacheInv, UNCHANGED <<theCache, theLoad>>, NEW b \in Builders, NEW pc,
           GoOn(b, pc), pc \notin {"open", "read", "recheck", "download", "idle"},
           pc = "resolve" => loadPc[b] = "idle",
           pc \in {"verify", "construct", "loaded"} => together[b],
           pc \in {"construct", "loaded"} => \A x \in Artifacts : loadBytes[b][x] = "good"
    PROVE  CacheInv'
<1>1. LoadTypes /\ Loader(b)
  BY DEF CacheInv
<1>2. /\ LoadTypes' /\ loadPc'[b] = pc
      /\ loadNext' = loadNext /\ loadPins' = loadPins /\ loadBytes' = loadBytes /\ together' = together
      /\ cacheStamp' = cacheStamp
      /\ \A w \in Builders \ {b} : loadPc'[w] = loadPc[w]
  BY <1>1 DEF GoOn, theLoad, theCache, LoadTypes
<1>3. Loader(b)'
  BY <1>1, <1>2 DEF Loader, Stamped
<1>4. Gathered(b)'
  BY <1>2 DEF Gathered
<1> QED
  BY <1>2, <1>3, <1>4, CacheRests, LoaderSteps

LEMMA LoadOpens ==
    ASSUME CacheInv, NEW b \in Builders, ResolveSnapshot(b) \/ OpenArtifact(b)
    PROVE  CacheInv'
<1>1. UNCHANGED theCache /\ LoadTypes /\ Loader(b)
  BY DEF ResolveSnapshot, OpenArtifact, CacheInv
<1>2. CASE \E error \in LoadErrors : LoadError(b, error)
  BY <1>1, <1>2, LoadFails
<1>3. CASE loadPc[b] = "resolve" /\ GoOn(b, "open") /\ UNCHANGED <<loadNext, loadPins, loadBytes, together>>
  <2>1. /\ LoadTypes' /\ loadPc'[b] = "open" /\ loadNext'[b] = 1 /\ cacheStamp' = cacheStamp
        /\ \A w \in Builders \ {b} : loadPc'[w] = loadPc[w]
    BY <1>1, <1>3 DEF GoOn, LoadTypes, Loader, theCache
  <2>2. Loader(b)'
    BY <1>1, <1>3, <2>1, ArtifactsAreNumbered DEF Loader, Stamped
  <2>3. Gathered(b)'
    BY <2>1 DEF Gathered
  <2> QED
    BY <1>1, <1>3, <2>1, <2>2, <2>3, CacheRests, LoaderSteps
<1>4. CASE /\ loadPc[b] = "open" /\ GoOn(b, "read") /\ UNCHANGED <<loadNext, loadBytes, together>>
           /\ cacheEntry[loadNext[b]] # Absent
           /\ loadPins' = [loadPins EXCEPT ![b][loadNext[b]] = cacheEntry[loadNext[b]]]
  <2>1. PICK a \in Artifacts : a = loadNext[b]
    BY <1>1, <1>4 DEF Loader
  <2>2. /\ LoadTypes' /\ loadPc'[b] = "read" /\ loadNext'[b] = a /\ loadBytes' = loadBytes
        /\ cacheStamp' = cacheStamp
        /\ \A w \in Builders \ {b} : loadPc'[w] = loadPc[w] /\ loadPins'[w] = loadPins[w]
        /\ loadPins'[b][a] = cacheEntry[a] /\ loadPins'[b][a] # Absent
        /\ \A x \in Artifacts \ {a} : loadPins'[b][x] = loadPins[b][x]
    BY <1>1, <1>4, <2>1 DEF GoOn, LoadTypes, theCache
  <2>3. \A x \in Artifacts : Stamped(loadPins[b][x])'
    BY <1>1, <2>2 DEF CacheInv, CacheDisk, Loader, Stamped
  <2>4. \A x \in Artifacts : x < a => x # a
    BY <2>1, ArtifactsAreNumbered
  <2>5. \A x \in Artifacts : x < a => Taken(b, x)'
    <3>1. \A x \in Artifacts : x < a => Taken(b, x)
      BY <1>1, <1>4, <2>1 DEF Loader
    <3> QED
      BY <2>2, <2>4, <3>1 DEF Taken
  <2>6. Loader(b)'
    BY <2>1, <2>2, <2>3, <2>5 DEF Loader
  <2>7. Gathered(b)'
    BY <2>2 DEF Gathered
  <2> QED
    BY <1>1, <1>4, <2>2, <2>6, <2>7, CacheRests, LoaderSteps
<1>5. CASE ResolveSnapshot(b)
  BY <1>2, <1>3, <1>5 DEF ResolveSnapshot, LoadStep, LoadErrors
<1>6. CASE OpenArtifact(b)
  BY <1>2, <1>4, <1>6 DEF OpenArtifact, LoadStep, LoadErrors
<1> QED
  BY <1>5, <1>6

(* The last artifact is read: if the cache still equals the pins, it holds *)
(* all the bytes that were read.                                           *)
LEMMA LoadReads ==
    ASSUME CacheInv, NEW b \in Builders, ReadArtifact(b)
    PROVE  CacheInv'
<1>1. UNCHANGED theCache /\ LoadTypes /\ Loader(b) /\ loadPc[b] = "read"
  BY DEF ReadArtifact, LoadStep, CacheInv
<1>2. CASE \E error \in LoadErrors : LoadError(b, error)
  BY <1>1, <1>2, LoadFails
<1>3. PICK a \in Artifacts : a = loadNext[b]
  BY <1>1 DEF Loader
<1>4. CASE \E e \in {loadPins[b][a], cacheEntry[a]} \ {Absent} :
            /\ cacheEntry[a] = loadPins[b][a]
            /\ loadBytes' = [loadBytes EXCEPT ![b][a] = e.bytes]
            /\ loadNext' = [loadNext EXCEPT ![b] = a + 1]
            /\ GoOn(b, IF a = LastArtifact THEN "recheck" ELSE "open")
            /\ together' = [together EXCEPT ![b] =
                 /\ a = LastArtifact
                 /\ \A x \in Artifacts : /\ cacheEntry[x] # Absent
                                         /\ cacheEntry[x].bytes = loadBytes'[b][x]]
            /\ UNCHANGED <<loadDirs, loadPins>>
  <2>1. /\ loadPins[b][a] # Absent
        /\ loadBytes' = [loadBytes EXCEPT ![b][a] = loadPins[b][a].bytes]
    BY <1>4
  <2>2. /\ LoadTypes' /\ loadPc'[b] = (IF a = LastArtifact THEN "recheck" ELSE "open")
        /\ loadNext'[b] = a + 1 /\ loadPins' = loadPins
        /\ cacheStamp' = cacheStamp /\ cacheEntry' = cacheEntry
        /\ \A w \in Builders \ {b} :
             /\ loadPc'[w] = loadPc[w] /\ loadNext'[w] = loadNext[w]
             /\ loadBytes'[w] = loadBytes[w] /\ together'[w] = together[w]
        /\ loadBytes'[b][a] = loadPins[b][a].bytes
        /\ \A x \in Artifacts \ {a} : loadBytes'[b][x] = loadBytes[b][x]
    BY <1>1, <1>4, <2>1 DEF GoOn, LoadTypes, theCache
  <2>3. \A x \in Artifacts : x < a + 1 => x = a \/ x < a
    BY <1>3, ArtifactsAreNumbered
  <2>4. \A x \in Artifacts : x < a + 1 => Taken(b, x)'
    <3>1. \A x \in Artifacts : x < a => Taken(b, x)
      BY <1>1, <1>3 DEF Loader
    <3> QED
      BY <2>1, <2>2, <2>3, <3>1 DEF Taken
  <2>5. /\ a # LastArtifact => a + 1 \in Artifacts
        /\ a = LastArtifact => \A x \in Artifacts : x < a + 1
    BY <1>3, ArtifactsAreNumbered
  <2>6. Loader(b)'
    <3>1. \A x \in Artifacts : Stamped(loadPins[b][x])'
      BY <1>1, <2>2 DEF Loader, Stamped
    <3> QED
      BY <2>2, <2>4, <2>5, <3>1 DEF Loader
  <2>7. Gathered(b)'
    <3>1. SUFFICES ASSUME a = LastArtifact, \A x \in Artifacts : cacheEntry[x] = loadPins[b][x]
                   PROVE  together'[b]
      BY <2>2 DEF Gathered
    <3>2. \A x \in Artifacts : cacheEntry[x] # Absent /\ cacheEntry[x].bytes = loadBytes'[b][x]
      BY <2>2, <2>4, <2>5, <3>1 DEF Taken
    <3>3. b \in DOMAIN together
      BY <1>1 DEF LoadTypes
    <3> QED
      BY <1>4, <3>1, <3>2, <3>3
  <2> QED
    BY <1>1, <2>2, <2>6, <2>7, CacheRests, LoaderSteps
<1> QED
  BY <1>2, <1>3, <1>4 DEF ReadArtifact, Rebound, LoadErrors

LEMMA LoadEnds ==
    ASSUME CacheInv, NEW b \in Builders,
           BeginBuild(b) \/ Recheck(b) \/ VerifyProvenance(b) \/ ConstructModel(b)
    PROVE  CacheInv'
<1>1. UNCHANGED theCache /\ Gathered(b)
  BY DEF BeginBuild, Recheck, VerifyProvenance, ConstructModel, CacheInv
<1>2. CASE \E error \in LoadErrors : LoadError(b, error)
  BY <1>1, <1>2, LoadFails
<1>3. CASE BeginBuild(b)
  BY <1>1, <1>3, LoadGoesOn DEF BeginBuild, LoadStep
<1>4. CASE Recheck(b)
  <2>1. CASE SnapshotCurrent(b)
    <3>1. together[b]
      BY <1>1, <1>4, <2>1 DEF Recheck, LoadStep, SnapshotCurrent, Gathered
    <3> QED
      BY <1>1, <1>4, <2>1, <3>1, LoadGoesOn DEF Recheck, LoadStep
  <2> QED
    BY <1>2, <1>4, <2>1 DEF Recheck, Rebound, LoadErrors
<1>5. CASE VerifyProvenance(b)
  <2>1. together[b]
    BY <1>1, <1>5 DEF VerifyProvenance, LoadStep, Gathered
  <2>2. CASE \A a \in Artifacts : loadBytes[b][a] = "good"
    BY <1>1, <1>5, <2>1, <2>2, LoadGoesOn DEF VerifyProvenance
  <2> QED
    BY <1>2, <1>5, <2>2 DEF VerifyProvenance, LoadErrors
<1>6. CASE ConstructModel(b)
  <2>1. together[b] /\ \A x \in Artifacts : loadBytes[b][x] = "good"
    BY <1>1, <1>6 DEF ConstructModel, LoadStep, Gathered
  <2>2. CASE GoOn(b, "loaded") /\ UNCHANGED theLoad
    BY <1>1, <2>1, <2>2, LoadGoesOn
  <2> QED
    BY <1>2, <1>6, <2>2 DEF ConstructModel, Rebound, LoadErrors
<1> QED
  BY <1>3, <1>4, <1>5, <1>6

LEMMA LoadDownloads ==
    ASSUME CacheInv, NEW b \in Builders, Download(b)
    PROVE  CacheInv'
<1>1. /\ LoadTypes /\ Loader(b) /\ loadPc[b] = "download"
      /\ UNCHANGED <<loadPins, loadBytes, together>>
      /\ cacheStamp \in Nat /\ DOMAIN cacheEntry = Artifacts
  BY DEF Download, LoadStep, CacheInv, CacheDisk
<1>2. PICK a \in Artifacts : a = loadNext[b]
  BY <1>1 DEF Loader
<1>3. CacheMoves
  <2>1. CASE UNCHANGED theCache
    BY <2>1, CacheRests
  <2>2. CASE cacheStamp' = cacheStamp + 1 /\ UNCHANGED cacheEntry
    BY <1>1, <2>2 DEF CacheMoves
  <2>3. CASE /\ cacheStamp' = cacheStamp + 1
             /\ cacheEntry' = [cacheEntry EXCEPT ![a] = [bytes |-> "good", stamp |-> cacheStamp']]
    <3>1. /\ DOMAIN cacheEntry' = Artifacts /\ cacheEntry'[a].stamp = cacheStamp + 1
          /\ \A x \in Artifacts \ {a} : cacheEntry'[x] = cacheEntry[x]
      BY <1>1, <2>3
    <3> QED
      BY <1>1, <2>3, <3>1 DEF CacheMoves
  <2> QED
    BY <1>2, <2>1, <2>2, <2>3 DEF Download
<1>4. /\ DOMAIN loadPc' = Builders /\ DOMAIN loadNext' = Builders
      /\ \A w \in Builders \ {b} : loadPc'[w] = loadPc[w] /\ loadNext'[w] = loadNext[w]
      /\ \/ loadPc'[b] = "download failed"
         \/ loadPc'[b] = "resolve" /\ loadNext'[b] = 1
         \/ loadPc'[b] = "download" /\ a # LastArtifact /\ loadNext'[b] = a + 1
  BY <1>1, <1>2 DEF Download, GoOn, LoadTypes
<1>5. LoadTypes'
  BY <1>1, <1>4 DEF LoadTypes
<1>6. a # LastArtifact => a + 1 \in Artifacts
  BY <1>2, ArtifactsAreNumbered
<1>7. \A x \in Artifacts : Stamped(loadPins[b][x])'
  BY <1>1, <1>3 DEF Loader, Stamped, CacheMoves
<1>8. Loader(b)'
  BY <1>4, <1>6, <1>7 DEF Loader
<1>9. Gathered(b)'
  BY <1>4 DEF Gathered
<1> QED
  BY <1>1, <1>3, <1>4, <1>5, <1>8, <1>9, LoaderSteps

LEMMA CacheEdited ==
    ASSUME CacheInv, EditCache PROVE CacheInv'
<1>1. /\ UNCHANGED <<loadPc, loadNext, loadPins, loadBytes, together>> /\ cacheStamp \in Nat
      /\ cacheStamp' = cacheStamp + 1 /\ DOMAIN cacheEntry = Artifacts
  BY DEF EditCache, CacheInv, CacheDisk, theLoad
<1>2. CacheMoves
  <2>1. CASE cacheEntry' = Empty
    BY <1>1, <2>1 DEF Empty, CacheMoves
  <2>2. ASSUME NEW a \in Artifacts, NEW new \in {Absent} \cup [bytes : Bytes, stamp : {cacheStamp'}],
               cacheEntry' = [cacheEntry EXCEPT ![a] = new]
        PROVE  CacheMoves
    <3>1. /\ DOMAIN cacheEntry' = Artifacts /\ cacheEntry'[a] = new
          /\ \A x \in Artifacts \ {a} : cacheEntry'[x] = cacheEntry[x]
      BY <1>1, <2>2
    <3>2. new = Absent \/ new.stamp = cacheStamp + 1
      BY <1>1, <2>2
    <3> QED
      BY <1>1, <3>1, <3>2 DEF CacheMoves
  <2> QED
    BY <2>1, <2>2 DEF EditCache
<1>3. LoadTypes' /\ CacheDisk'
  BY <1>1, <1>2, DiskMoves DEF CacheInv, LoadTypes
<1>4. \A b \in Builders : Loader(b)' /\ Gathered(b)'
  BY <1>1, <1>2, LoaderRests
<1> QED
  BY <1>3, <1>4 DEF CacheInv

LEMMA CacheNext == CacheInv /\ [ModelCacheNext]_cacheVars => CacheInv'
<1> SUFFICES ASSUME CacheInv, [ModelCacheNext]_cacheVars PROVE CacheInv'
  OBVIOUS
<1>1. CASE UNCHANGED cacheVars
  <2>1. /\ UNCHANGED <<loadPc, loadNext, loadPins, loadBytes, together>>
        /\ UNCHANGED theCache
    BY <1>1 DEF cacheVars, theCache
  <2>2. CacheMoves
    BY <2>1, CacheRests
  <2>3. LoadTypes' /\ CacheDisk'
    BY <2>1, <2>2, DiskMoves DEF CacheInv, LoadTypes
  <2>4. \A b \in Builders : Loader(b)' /\ Gathered(b)'
    BY <2>1, <2>2, LoaderRests
  <2> QED
    BY <2>3, <2>4 DEF CacheInv
<1> QED
  BY <1>1, LoadOpens, LoadReads, LoadEnds, LoadDownloads, CacheEdited DEF ModelCacheNext

(* A loader that ends with a model has the release bytes of every          *)
(* artifact, and the cache held them all at one moment, for any number of  *)
(* loaders, artifacts, downloads and edits: ResolvedSnapshot::revalidate   *)
(* compares everything that was pinned, and a change of the cache never    *)
(* brings back a pin.                                                      *)
THEOREM LoadedModelsArePinned == ModelCacheSpec => []LoadedIsPinned
<1>1. ModelCacheInit => CacheInv
  BY CacheInit
<1>2. CacheInv /\ [ModelCacheNext]_cacheVars => CacheInv'
  BY CacheNext
<1>3. CacheInv => LoadedIsPinned
  BY DEF CacheInv, Gathered, LoadedIsPinned
<1> QED
  BY <1>1, <1>2, <1>3, PTL DEF ModelCacheSpec

-----------------------------------------------------------------------------
(* Opening a store.                                                        *)

Names == {NoDb, 1, 2}
Databases == [has : {"empty", "v1", "current"} \cup Foreign, journal : {"delete", "wal"}]

(* The steps from each point of the opening on. *)
Accepted == {"journal mode", "last check", "open", "writing", "used"}
Committed == Accepted \cup {"post-commit"}
Begun == Committed \cup InTransaction
Judged == Begun \cup {"connect", "connected"}
Prepared == Judged \cup {"prepared", "inspect early", "lock", "coordinated", "inspect"}
Writing == InTransaction \cup {"writing"}
Failures == Contention \cup Refusal \cup {"unavailable"}

StoreTypes ==
    /\ store \in {"project", "vectors"} /\ dbName \in Names /\ storeTroubles \in Nat
    /\ db \in [DbFiles -> Databases]
    /\ DOMAIN openPc = Openers /\ DOMAIN openFd = Openers /\ DOMAIN openConn = Openers
    /\ DOMAIN openState = Openers /\ DOMAIN openAlone = Openers /\ DOMAIN openReader = Openers
    /\ DOMAIN openNew = Openers
    /\ \A o \in Openers : /\ openFd[o] \in Names /\ openConn[o] \in Names
                          /\ openState[o] \in {"Empty", "Existing"}

(* The name only moves on, so a connection that was made by name and finds *)
(* the pinned file at the name is a connection to the pinned file.         *)
NamesInOrder(o) ==
    /\ openPc[o] \in Prepared => openFd[o] # NoDb
    /\ openFd[o] # NoDb => dbName # NoDb
    /\ openFd[o] = 2 \/ openConn[o] = 2 => dbName = 2
    /\ openPc[o] \in Connected => openConn[o] # NoDb /\ (openFd[o] = 2 => openConn[o] = 2)
    /\ openPc[o] \in Begun => openConn[o] = openFd[o]

(* A file that existed has been inspected, one that was empty will be. *)
Good(o) == Sound(o, openFd[o]) /\ (store = "project" => db[openFd[o]].journal = "delete")
Examined(o) ==
    /\ openPc[o] \in Prepared /\ openState[o] = "Empty" => openNew[o]
    /\ openPc[o] \in {"lock", "coordinated"} /\ store = "vectors" /\ openState[o] = "Existing" /\ openAlone[o]
         => Sound(o, openFd[o])
    /\ openPc[o] \in Judged /\ openState[o] = "Existing" => Good(o)
    /\ openPc[o] \in Accepted => Good(o)

(* What the transaction found stays. *)
Schema(o) ==
    /\ openPc[o] = "committing" => db[openFd[o]].has \in {"empty", "v1"}
    /\ openPc[o] \in Committed => db[openFd[o]].has \in {"current", "damaged"}
    /\ openPc[o] = "journal mode" => store = "vectors"
    /\ openPc[o] \in Accepted \ {"journal mode"} /\ store = "vectors" => db[openFd[o]].journal = "wal"

Opener(o) == NamesInOrder(o) /\ Examined(o) /\ Schema(o)

OneWriter ==
    \A o \in Openers, p \in Openers :
        o # p /\ openPc[o] \in Writing /\ openPc[p] \in Writing => openConn[o] # openConn[p]

StoreInv == StoreTypes /\ OneWriter /\ \A o \in Openers : Opener(o)

LEMMA StoreInit == StoreOpenInit => StoreInv
<1> SUFFICES ASSUME StoreOpenInit PROVE StoreInv
  OBVIOUS
<1>1. StoreTypes
  BY DEF StoreOpenInit, StoreTypes, Names, Databases
<1>2. ASSUME NEW o \in Openers PROVE openPc[o] = "idle" /\ openFd[o] = NoDb /\ openConn[o] = NoDb
  BY DEF StoreOpenInit
<1>3. OneWriter
  BY <1>2 DEF OneWriter, Writing, InTransaction
<1>4. ASSUME NEW o \in Openers PROVE Opener(o)
  BY <1>2, StoreOpenAssumption
     DEF Opener, NamesInOrder, Examined, Schema, Prepared, Judged, Begun, Committed, Accepted,
         InTransaction, Connected
<1> QED
  BY <1>1, <1>3, <1>4 DEF StoreInv

(* What no step of others does to the files that a process has looked at.  *)
NameMoves == dbName' \in Names /\ (dbName # NoDb => dbName' # NoDb) /\ (dbName = 2 => dbName' = 2)
FilesKept(o) ==
    /\ db' \in [DbFiles -> Databases]
    /\ \A f \in DbFiles :
         /\ StructureOk(f) => /\ db'[f].has \in {"v1", "current", "damaged"}
                              /\ db'[f].has = "damaged" => db[f].has = "damaged"
                              /\ store = "project" => db'[f].journal = db[f].journal
         /\ db[f].has \in {"current", "damaged"} =>
              db'[f].has = db[f].has /\ (db[f].journal = "wal" => db'[f].journal = "wal")
    /\ openPc[o] = "committing" => db'[openFd[o]].has = db[openFd[o]].has

LEMMA OpenerRests ==
    ASSUME StoreInv, NEW o \in Openers, store' = store, NameMoves, FilesKept(o),
           openPc'[o] = openPc[o], openFd'[o] = openFd[o], openConn'[o] = openConn[o],
           openState'[o] = openState[o], openAlone'[o] = openAlone[o], openNew'[o] = openNew[o]
    PROVE  Opener(o)'
<1>1. Opener(o) /\ openFd[o] \in Names
  BY DEF StoreInv, StoreTypes
<1>2. NamesInOrder(o)'
  BY <1>1 DEF Opener, NamesInOrder, NameMoves
<1>3. openPc[o] \in Prepared => openFd[o] \in DbFiles
  BY <1>1 DEF Opener, NamesInOrder, Names, DbFiles
<1>4. openFd[o] \in DbFiles /\ Sound(o, openFd[o]) => Sound(o, openFd[o])'
  BY DEF FilesKept, Sound, StructureOk
<1>5. openFd[o] \in DbFiles /\ Good(o) => Good(o)'
  BY <1>4 DEF Good, FilesKept, Sound, StructureOk
<1>6. Examined(o)'
  BY <1>1, <1>3, <1>4, <1>5
     DEF Opener, Examined, Prepared, Judged, Begun, Committed, Accepted
<1>7. Schema(o)'
  BY <1>1, <1>3 DEF Opener, Schema, FilesKept, Prepared, Judged, Begun, Committed, Accepted, InTransaction
<1> QED
  BY <1>2, <1>6, <1>7 DEF Opener

(* Nobody but o moves. *)
OnlyMoves(o) ==
    /\ store' = store
    /\ \A w \in Openers \ {o} :
         /\ openPc'[w] = openPc[w] /\ openFd'[w] = openFd[w] /\ openConn'[w] = openConn[w]
         /\ openState'[w] = openState[w] /\ openAlone'[w] = openAlone[w]
         /\ openReader'[w] = openReader[w] /\ openNew'[w] = openNew[w]

LEMMA OpenerMoves ==
    ASSUME StoreInv, NEW o \in Openers, OnlyMoves(o), NameMoves,
           \A w \in Openers \ {o} : FilesKept(w), StoreTypes', Opener(o)',
           openPc'[o] \in Writing =>
             \/ openPc[o] \in Writing /\ openConn'[o] = openConn[o]
             \/ ~WriteLocked(o) /\ openConn'[o] = openConn[o]
    PROVE  StoreInv'
<1>1. \A w \in Openers \ {o} : Opener(w)'
  BY OpenerRests DEF OnlyMoves
<1>2. OneWriter'
  <2>1. \A w \in Openers \ {o} : openPc'[w] = openPc[w] /\ openConn'[w] = openConn[w]
    BY DEF OnlyMoves
  <2>2. \A w \in Openers, p \in Openers :
          w # p /\ openPc[w] \in Writing /\ openPc[p] \in Writing => openConn[w] # openConn[p]
    BY DEF StoreInv, OneWriter
  <2>3. ~WriteLocked(o) => \A w \in Openers \ {o} : openPc[w] \in Writing => openConn[w] # openConn[o]
    BY DEF WriteLocked, Writing
  <2>4. ASSUME NEW w \in Openers, w # o, openPc'[o] \in Writing, openPc'[w] \in Writing
        PROVE  openConn'[o] # openConn'[w]
    BY <2>1, <2>2, <2>3, <2>4
  <2> QED
    BY <2>1, <2>2, <2>4 DEF OneWriter
<1> QED
  BY <1>1, <1>2 DEF StoreInv

LEMMA FilesRest ==
    ASSUME StoreInv, UNCHANGED db PROVE \A w \in Openers : FilesKept(w)
<1>1. db \in [DbFiles -> Databases] /\ db' = db
  BY DEF StoreInv, StoreTypes
<1> QED
  BY <1>1 DEF FilesKept, StructureOk

(* An error return. *)
LEMMA OpenFails ==
    ASSUME StoreInv, NEW o \in Openers, NEW why \in Failures \cup {"crashed"},
           OpenGoto(o, why), openConn' = [openConn EXCEPT ![o] = NoDb],
           UNCHANGED <<store, dbName, db, thePins>>, storeTroubles' \in Nat
    PROVE  StoreInv'
<1>1. StoreTypes /\ Opener(o)
  BY DEF StoreInv
<1>2. /\ DOMAIN openPc' = Openers /\ openPc'[o] = why /\ openConn'[o] = NoDb /\ DOMAIN openConn' = Openers
      /\ \A w \in Openers \ {o} : openPc'[w] = openPc[w] /\ openConn'[w] = openConn[w]
      /\ openFd' = openFd /\ openState' = openState /\ openAlone' = openAlone
      /\ openReader' = openReader /\ openNew' = openNew
  BY <1>1 DEF StoreTypes, OpenGoto, thePins
<1>3. StoreTypes'
  BY <1>1, <1>2 DEF StoreTypes, Names
<1>4. OnlyMoves(o) /\ NameMoves
  BY <1>1, <1>2 DEF OnlyMoves, NameMoves, StoreTypes
<1>5. why \notin Prepared /\ why \notin Connected /\ why # "idle"
  BY DEF Failures, Contention, Refusal, Prepared, Judged, Begun, Committed, Accepted, InTransaction, Connected
<1>6. Opener(o)'
  BY <1>1, <1>2, <1>5, StoreOpenAssumption
     DEF Opener, NamesInOrder, Examined, Schema, Prepared, Judged, Begun, Committed, Accepted,
         InTransaction
<1>7. openPc'[o] \notin Writing
  BY <1>2, <1>5 DEF Writing, Prepared, Judged, Begun, Committed, Accepted, InTransaction
<1> QED
  BY <1>3, <1>4, <1>6, <1>7, FilesRest, OpenerMoves


(* A step that changes nothing but the place of a process, and nothing     *)
(* that the invariant speaks of beside it.                                 *)
LEMMA OpenGoes ==
    ASSUME StoreInv, NEW o \in Openers, NEW pc, OpenGoto(o, pc),
           UNCHANGED <<store, dbName, db, openConn, openFd, openState, openAlone, openNew, storeTroubles>>,
           DOMAIN openReader' = Openers,
           \A w \in Openers \ {o} : openReader'[w] = openReader[w],
           openPc'[o] = pc => Opener(o)',
           pc \in Writing => openPc[o] \in Writing \/ ~WriteLocked(o)
    PROVE  StoreInv'
<1>1. StoreTypes
  BY DEF StoreInv
<1>2. /\ DOMAIN openPc' = Openers /\ openPc'[o] = pc
      /\ \A w \in Openers \ {o} : openPc'[w] = openPc[w]
  BY <1>1 DEF StoreTypes, OpenGoto
<1>3. StoreTypes'
  BY <1>1, <1>2 DEF StoreTypes
<1>4. OnlyMoves(o) /\ NameMoves
  BY <1>1, <1>2 DEF OnlyMoves, NameMoves, StoreTypes
<1> QED
  BY <1>2, <1>3, <1>4, FilesRest, OpenerMoves

LEMMA OpenFailsAny ==
    ASSUME StoreInv, NEW o \in Openers, NEW why \in Failures, FailOpen(o, why),
           UNCHANGED <<store, storeTroubles>>
    PROVE  StoreInv'
<1>1. storeTroubles' \in Nat
  BY DEF StoreInv, StoreTypes
<1> QED
  BY <1>1, OpenFails DEF FailOpen

LEMMA OpensDirectory ==
    ASSUME StoreInv, NEW o \in Openers, OpenDirectory(o) PROVE StoreInv'
<1>1. CASE FailOpen(o, "unsafe")
  BY <1>1, OpenFailsAny DEF OpenDirectory, OpenStep, Failures, Refusal
<1>2. CASE OpenGoto(o, "prepare") /\ UNCHANGED <<dbName, db, openConn, thePins>>
  <2>1. UNCHANGED <<openFd, openState, openAlone, openReader, openNew, store, storeTroubles>>
    BY <1>2 DEF thePins, OpenDirectory, OpenStep
  <2>2. Opener(o) /\ DOMAIN openReader = Openers
    BY DEF StoreInv, StoreTypes
  <2>3. openPc'[o] = "prepare" => Opener(o)'
    BY <1>2, <2>1, <2>2
       DEF Opener, NamesInOrder, Examined, Schema, Prepared, Judged, Begun, Committed, Accepted,
           InTransaction, Connected
  <2>4. "prepare" \notin Writing
    BY DEF Writing, InTransaction
  <2> QED
    BY <1>2, <2>1, <2>2, <2>3, <2>4, OpenGoes
<1> QED
  BY <1>1, <1>2 DEF OpenDirectory

LEMMA PreparesDatabase ==
    ASSUME StoreInv, NEW o \in Openers, PrepareDatabase(o) PROVE StoreInv'
<1>1. CASE FailOpen(o, "unsafe")
  BY <1>1, OpenFailsAny DEF PrepareDatabase, OpenStep, Failures, Refusal
<1>2. CASE /\ dbName' = IF dbName = NoDb THEN 1 ELSE dbName
           /\ openFd' = [openFd EXCEPT ![o] = dbName']
           /\ \E s \in Sizes(dbName') :
                /\ openState' = [openState EXCEPT ![o] = s]
                /\ openNew' = [openNew EXCEPT ![o] = s = "Empty"]
           /\ OpenGoto(o, IF store = "project" THEN "lock" ELSE "prepared")
           /\ UNCHANGED <<storeDir, db, side, initLock, openConn, openAlone, openReader>>
  <2>1. StoreTypes /\ Opener(o) /\ UNCHANGED <<store, storeTroubles>> /\ openPc[o] = "prepare"
    BY DEF StoreInv, PrepareDatabase, OpenStep
  <2>2. PICK s \in {"Empty", "Existing"} :
          /\ openState' = [openState EXCEPT ![o] = s]
          /\ openNew' = [openNew EXCEPT ![o] = s = "Empty"]
    BY <1>2 DEF Sizes
  <2>3. /\ dbName' \in {1, 2} /\ (dbName = 2 => dbName' = 2)
    BY <1>2, <2>1, StoreOpenAssumption DEF StoreTypes, Names
  <2>4. /\ openPc'[o] \in {"lock", "prepared"} /\ (store = "vectors" => openPc'[o] = "prepared")
        /\ openFd'[o] = dbName' /\ openState'[o] = s
        /\ DOMAIN openPc' = Openers /\ DOMAIN openFd' = Openers /\ DOMAIN openState' = Openers
        /\ DOMAIN openNew' = Openers
        /\ \A w \in Openers \ {o} : /\ openPc'[w] = openPc[w] /\ openFd'[w] = openFd[w]
                                    /\ openState'[w] = openState[w] /\ openNew'[w] = openNew[w]
    BY <1>2, <2>1, <2>2 DEF StoreTypes, OpenGoto
  <2>5. s = "Empty" => openNew'[o]
    BY <2>1, <2>2 DEF StoreTypes
  <2>6. StoreTypes'
    BY <1>2, <2>1, <2>2, <2>3, <2>4 DEF StoreTypes, Names
  <2>7. OnlyMoves(o) /\ NameMoves
    BY <1>2, <2>1, <2>3, <2>4, StoreOpenAssumption DEF OnlyMoves, NameMoves, Names
  <2>8. NamesInOrder(o)'
    <3>1. openConn[o] = 2 => dbName = 2
      BY <2>1 DEF Opener, NamesInOrder
    <3> QED
      BY <1>2, <2>3, <2>4, <3>1, StoreOpenAssumption
         DEF NamesInOrder, Begun, Committed, Accepted, InTransaction, Connected
  <2>9. Examined(o)'
    BY <2>1, <2>4, <2>5 DEF StoreTypes, Examined, Judged, Begun, Committed, Accepted, InTransaction
  <2>10. Schema(o)'
    BY <2>4 DEF Schema, Committed, Accepted
  <2>11. openPc'[o] \notin Writing
    BY <2>4 DEF Writing, InTransaction
  <2> QED
    BY <1>2, <2>6, <2>7, <2>8, <2>9, <2>10, <2>11, FilesRest, OpenerMoves DEF Opener
<1> QED
  BY <1>1, <1>2 DEF PrepareDatabase

LEMMA LooksForSidecars ==
    ASSUME StoreInv, NEW o \in Openers, LookForSidecars(o) PROVE StoreInv'
<1>1. CASE FailOpen(o, "unsafe")
  BY <1>1, OpenFailsAny DEF LookForSidecars, OpenStep, Failures, Refusal
<1>2. CASE /\ openAlone' = [openAlone EXCEPT ![o] = side = "none"]
           /\ OpenGoto(o, IF openState[o] = "Existing" /\ side = "none" THEN "inspect early" ELSE "lock")
           /\ UNCHANGED <<storeDir, dbName, db, side, initLock, openFd, openConn, openState,
                          openReader, openNew>>
  <2>1. StoreTypes /\ Opener(o) /\ UNCHANGED <<store, storeTroubles>> /\ openPc[o] = "prepared"
    BY DEF StoreInv, LookForSidecars, OpenStep
  <2>2. /\ openPc'[o] \in {"lock", "inspect early"}
        /\ openPc'[o] = "lock" /\ openState[o] = "Existing" => side # "none"
        /\ DOMAIN openPc' = Openers /\ DOMAIN openAlone' = Openers
        /\ \A w \in Openers \ {o} : openPc'[w] = openPc[w] /\ openAlone'[w] = openAlone[w]
    BY <1>2, <2>1 DEF StoreTypes, OpenGoto
  <2>3. openAlone'[o] => side = "none"
    BY <1>2, <2>1 DEF StoreTypes
  <2>4. StoreTypes'
    BY <1>2, <2>1, <2>2 DEF StoreTypes
  <2>5. OnlyMoves(o) /\ NameMoves
    BY <1>2, <2>1, <2>2 DEF OnlyMoves, NameMoves, StoreTypes
  <2>6. NamesInOrder(o)'
    BY <1>2, <2>1, <2>2
       DEF Opener, NamesInOrder, Prepared, Judged, Begun, Committed, Accepted, InTransaction, Connected
  <2>7. Examined(o)'
    BY <1>2, <2>1, <2>2, <2>3
       DEF Opener, Examined, Prepared, Judged, Begun, Committed, Accepted, InTransaction
  <2>8. Schema(o)'
    BY <2>2 DEF Schema, Committed, Accepted
  <2>9. openPc'[o] \notin Writing
    BY <2>2 DEF Writing, InTransaction
  <2> QED
    BY <1>2, <2>4, <2>5, <2>6, <2>7, <2>8, <2>9, FilesRest, OpenerMoves DEF Opener
<1> QED
  BY <1>1, <1>2 DEF LookForSidecars

(* What an inspection that succeeds has seen. *)
LEMMA InspectionSees ==
    ASSUME NEW o \in Openers, "ok" \in Inspections(o)
    PROVE  dbName = openFd[o] /\ storeDir # "public" /\ Sound(o, openFd[o])
BY DEF Inspections, Verdict, Sound

LEMMA FailuresSeen ==
    ASSUME NEW o \in Openers
    PROVE  /\ Verdict(o) # "ok" => Verdict(o) \in Failures
           /\ \A found \in Inspections(o) : found # "ok" => found \in Failures
           /\ {"sidecar", "locked", "torn", "busy", "refused", "wrong journal", "unavailable"} \subseteq Failures
<1>1. /\ Verdict(o) # "ok" => Verdict(o) \in Failures
      /\ {"sidecar", "locked", "torn", "busy", "refused", "wrong journal", "unavailable"} \subseteq Failures
  BY DEF Verdict, Failures, Contention, Refusal
<1> QED
  BY <1>1 DEF Inspections

LEMMA Inspects ==
    ASSUME StoreInv, NEW o \in Openers, InspectEarly(o) \/ InspectLocked(o) PROVE StoreInv'
<1>1. UNCHANGED <<store, storeTroubles>> /\ openPc[o] \in {"inspect early", "inspect"}
  BY DEF InspectEarly, InspectLocked, OpenStep
<1>2. CASE \E why \in Failures : FailOpen(o, why)
  BY <1>1, <1>2, OpenFailsAny
<1>3. CASE /\ "ok" \in Inspections(o)
           /\ \/ OpenGoto(o, "lock")
              \/ OpenGoto(o, "connect") /\ (store = "project" => db[dbName].journal = "delete")
           /\ UNCHANGED <<dbName, db, openConn, thePins>>
  <2>1. PICK pc \in {"lock", "connect"} :
          OpenGoto(o, pc) /\ (pc = "connect" /\ store = "project" => db[dbName].journal = "delete")
    BY <1>3
  <2>2. UNCHANGED <<openFd, openState, openAlone, openReader, openNew>>
    BY <1>3 DEF thePins
  <2>3. Opener(o) /\ DOMAIN openReader = Openers
    BY DEF StoreInv, StoreTypes
  <2>4. dbName = openFd[o] /\ Sound(o, openFd[o])
    BY <1>3, InspectionSees
  <2>5. Sound(o, openFd[o])' /\ (pc = "connect" => Good(o)')
    BY <1>1, <1>3, <2>1, <2>2, <2>4 DEF Sound, StructureOk, Good
  <2>6. ASSUME openPc'[o] = pc PROVE Opener(o)'
    <3>1. NamesInOrder(o)'
      BY <1>1, <1>3, <2>1, <2>2, <2>3, <2>6
         DEF Opener, NamesInOrder, Prepared, Judged, Begun, Committed, Accepted, InTransaction, Connected
    <3>2. Examined(o)'
      BY <1>1, <1>3, <2>1, <2>2, <2>3, <2>5, <2>6
         DEF Opener, Examined, Prepared, Judged, Begun, Committed, Accepted, InTransaction
    <3>3. Schema(o)'
      BY <2>1, <2>6 DEF Schema, Committed, Accepted
    <3> QED
      BY <3>1, <3>2, <3>3 DEF Opener
  <2>7. pc \notin Writing
    BY <2>1 DEF Writing, InTransaction
  <2> QED
    BY <1>1, <1>3, <2>1, <2>2, <2>3, <2>6, <2>7, OpenGoes
<1>4. CASE InspectEarly(o)
  BY <1>2, <1>3, <1>4, FailuresSeen DEF InspectEarly
<1>5. CASE InspectLocked(o)
  BY <1>2, <1>3, <1>5, FailuresSeen DEF InspectLocked
<1> QED
  BY <1>4, <1>5

LEMMA AwaitsLock ==
    ASSUME StoreInv, NEW o \in Openers, AwaitLock(o) PROVE StoreInv'
<1>1. UNCHANGED <<store, storeTroubles>> /\ openPc[o] = "lock"
  BY DEF AwaitLock, OpenStep
<1>2. CASE FailOpen(o, "busy")
  BY <1>1, <1>2, OpenFailsAny, FailuresSeen
<1>3. CASE OpenGoto(o, "coordinated") /\ UNCHANGED <<dbName, db, openConn, thePins>>
  <2>1. UNCHANGED <<openFd, openState, openAlone, openReader, openNew>>
    BY <1>3 DEF thePins
  <2>2. Opener(o) /\ DOMAIN openReader = Openers
    BY DEF StoreInv, StoreTypes
  <2>3. ASSUME openPc'[o] = "coordinated" PROVE Opener(o)'
    <3>1. NamesInOrder(o)'
      BY <1>1, <1>3, <2>1, <2>2, <2>3
         DEF Opener, NamesInOrder, Prepared, Judged, Begun, Committed, Accepted, InTransaction, Connected
    <3>2. Examined(o)'
      BY <1>1, <1>3, <2>1, <2>2, <2>3
         DEF Opener, Examined, Sound, StructureOk, Prepared, Judged, Begun, Committed, Accepted,
             InTransaction
    <3>3. Schema(o)'
      BY <2>3 DEF Schema, Committed, Accepted
    <3> QED
      BY <3>1, <3>2, <3>3 DEF Opener
  <2>4. "coordinated" \notin Writing
    BY DEF Writing, InTransaction
  <2> QED
    BY <1>1, <1>3, <2>1, <2>2, <2>3, <2>4, OpenGoes
<1> QED
  BY <1>2, <1>3 DEF AwaitLock

LEMMA ClassifiesSidecars ==
    ASSUME StoreInv, NEW o \in Openers, ClassifySidecars(o) PROVE StoreInv'
<1>1. UNCHANGED <<store, storeTroubles>> /\ openPc[o] = "coordinated"
  BY DEF ClassifySidecars, OpenStep
<1>2. CASE \E why \in Failures : FailOpen(o, why)
  BY <1>1, <1>2, OpenFailsAny
<1>3. CASE /\ openReader' = [openReader EXCEPT ![o] = side = "reader"]
           /\ OpenGoto(o, IF /\ openState[o] = "Existing"
                             /\ store = "project" \/ ~openAlone[o] \/ side = "reader"
                          THEN "inspect" ELSE "connect")
           /\ UNCHANGED <<storeDir, dbName, db, side, initLock, openFd, openConn, openState,
                         openAlone, openNew>>
  <2>1. StoreTypes /\ Opener(o) /\ store \in {"project", "vectors"}
    BY DEF StoreInv, StoreTypes
  <2>2. DOMAIN openReader' = Openers /\ \A w \in Openers \ {o} : openReader'[w] = openReader[w]
    BY <1>3, <2>1 DEF StoreTypes
  <2>3. PICK pc \in {"inspect", "connect"} :
          /\ OpenGoto(o, pc)
          /\ pc = "connect" => \/ openState[o] # "Existing"
                               \/ store # "project" /\ openAlone[o]
    BY <1>3
  <2>4. ASSUME openPc'[o] = pc PROVE Opener(o)'
    <3>1. NamesInOrder(o)'
      BY <1>1, <1>3, <2>1, <2>3, <2>4
         DEF Opener, NamesInOrder, Prepared, Judged, Begun, Committed, Accepted, InTransaction, Connected
    <3>2. pc = "connect" /\ openState[o] = "Existing" => Good(o)'
      BY <1>1, <1>3, <2>1, <2>3 DEF Opener, Examined, Good, Sound, StructureOk
    <3>3. Examined(o)'
      BY <1>1, <1>3, <2>1, <2>3, <2>4, <3>2
         DEF Opener, Examined, Prepared, Judged, Begun, Committed, Accepted, InTransaction
    <3>4. Schema(o)'
      BY <2>3, <2>4 DEF Schema, Committed, Accepted
    <3> QED
      BY <3>1, <3>3, <3>4 DEF Opener
  <2>5. pc \notin Writing
    BY <2>3 DEF Writing, InTransaction
  <2> QED
    BY <1>1, <1>3, <2>2, <2>3, <2>4, <2>5, OpenGoes
<1> QED
  BY <1>2, <1>3, FailuresSeen DEF ClassifySidecars


LEMMA Connects ==
    ASSUME StoreInv, NEW o \in Openers, Connect(o) PROVE StoreInv'
<1>1. UNCHANGED <<store, storeTroubles>> /\ openPc[o] = "connect"
  BY DEF Connect, OpenStep
<1>2. CASE \E why \in Failures : FailOpen(o, why)
  BY <1>1, <1>2, OpenFailsAny
<1>3. CASE /\ openConn' = [openConn EXCEPT ![o] = dbName] /\ OpenGoto(o, "connected")
           /\ UNCHANGED <<dbName, db, thePins>>
  <2>1. StoreTypes /\ Opener(o) /\ UNCHANGED <<openFd, openState, openAlone, openReader, openNew>>
    BY <1>3 DEF StoreInv, thePins
  <2>2. /\ DOMAIN openPc' = Openers /\ openPc'[o] = "connected"
        /\ DOMAIN openConn' = Openers /\ openConn'[o] = dbName
        /\ \A w \in Openers \ {o} : openPc'[w] = openPc[w] /\ openConn'[w] = openConn[w]
    BY <1>3, <2>1 DEF StoreTypes, OpenGoto
  <2>3. StoreTypes'
    BY <1>1, <1>3, <2>1, <2>2 DEF StoreTypes
  <2>4. OnlyMoves(o) /\ NameMoves
    BY <1>1, <1>3, <2>1, <2>2 DEF OnlyMoves, NameMoves, StoreTypes
  <2>5. NamesInOrder(o)'
    BY <1>1, <1>3, <2>1, <2>2
       DEF Opener, NamesInOrder, Prepared, Judged, Begun, Committed, Accepted, InTransaction, Connected
  <2>6. Good(o)' = Good(o)
    BY <1>1, <1>3, <2>1 DEF Good, Sound, StructureOk
  <2>7. Examined(o)'
    BY <1>1, <2>1, <2>2, <2>6
       DEF Opener, Examined, Prepared, Judged, Begun, Committed, Accepted, InTransaction
  <2>8. Schema(o)'
    BY <2>2 DEF Schema, Committed, Accepted
  <2>9. openPc'[o] \notin Writing
    BY <2>2 DEF Writing, InTransaction
  <2> QED
    BY <1>3, <2>3, <2>4, <2>5, <2>7, <2>8, <2>9, FilesRest, OpenerMoves DEF Opener
<1> QED
  BY <1>2, <1>3, FailuresSeen DEF Connect

(* The pinned file is at the name, and the connection is to it. *)
LEMMA Begins ==
    ASSUME StoreInv, NEW o \in Openers, Begin(o) PROVE StoreInv'
<1>1. UNCHANGED <<store, storeTroubles>> /\ openPc[o] = "connected"
  BY DEF Begin, OpenStep
<1>2. CASE \E why \in Failures : FailOpen(o, why)
  BY <1>1, <1>2, OpenFailsAny
<1>3. CASE /\ Verdict(o) = "ok" /\ ~WriteLocked(o) /\ OpenGoto(o, "recheck")
           /\ UNCHANGED <<dbName, db, openConn, thePins>>
  <2>1. StoreTypes /\ Opener(o) /\ UNCHANGED <<openFd, openState, openAlone, openReader, openNew>>
    BY <1>3 DEF StoreInv, thePins
  <2>2. dbName = openFd[o]
    BY <1>3 DEF Verdict
  <2>3. openConn[o] = openFd[o]
    <3>1. /\ openFd[o] \in Names /\ openConn[o] \in Names
          /\ openFd[o] # NoDb /\ openConn[o] # NoDb
          /\ openConn[o] = 2 => dbName = 2
          /\ openFd[o] = 2 => openConn[o] = 2
      BY <1>1, <2>1
         DEF StoreTypes, Opener, NamesInOrder, Prepared, Judged, Begun, Committed, Accepted, InTransaction, Connected
    <3> QED
      BY <2>2, <3>1 DEF Names
  <2>4. ASSUME openPc'[o] = "recheck" PROVE Opener(o)'
    <3>1. NamesInOrder(o)'
      BY <1>1, <1>3, <2>1, <2>3, <2>4
         DEF Opener, NamesInOrder, Prepared, Judged, Begun, Committed, Accepted, InTransaction, Connected
    <3>2. Good(o)' = Good(o)
      BY <1>1, <1>3, <2>1 DEF Good, Sound, StructureOk
    <3>3. Examined(o)'
      BY <1>1, <2>1, <2>4, <3>2
         DEF Opener, Examined, Prepared, Judged, Begun, Committed, Accepted, InTransaction
    <3>4. Schema(o)'
      BY <2>4 DEF Schema, Committed, Accepted
    <3> QED
      BY <3>1, <3>3, <3>4 DEF Opener
  <2> QED
    BY <1>1, <1>3, <2>1, <2>4, OpenGoes DEF StoreTypes
<1> QED
  BY <1>2, <1>3, FailuresSeen DEF Begin

(* The transaction finds a current schema, or goes on to write one. *)
LEMMA RechecksSchema ==
    ASSUME StoreInv, NEW o \in Openers, RecheckSchema(o) PROVE StoreInv'
<1>1. UNCHANGED <<store, storeTroubles>> /\ openPc[o] = "recheck"
  BY DEF RecheckSchema, OpenStep
<1>2. CASE FailOpen(o, "refused")
  BY <1>1, <1>2, OpenFailsAny, FailuresSeen
<1>3. StoreTypes /\ Opener(o) /\ openConn[o] = openFd[o]
  BY <1>1 DEF StoreInv, Opener, NamesInOrder, Begun, InTransaction
<1>4. CASE /\ db[openConn[o]].has \in {"current", "damaged"} /\ OpenGoto(o, "post-commit")
           /\ UNCHANGED <<dbName, db, openConn, thePins>>
  <2>1. UNCHANGED <<openFd, openState, openAlone, openReader, openNew>>
    BY <1>4 DEF thePins
  <2>2. ASSUME openPc'[o] = "post-commit" PROVE Opener(o)'
    <3>1. NamesInOrder(o)'
      BY <1>1, <1>3, <1>4, <2>1, <2>2
         DEF Opener, NamesInOrder, Prepared, Judged, Begun, Committed, Accepted, InTransaction, Connected
    <3>2. Good(o)' = Good(o)
      BY <1>1, <1>4, <2>1 DEF Good, Sound, StructureOk
    <3>3. Examined(o)'
      BY <1>1, <1>3, <2>1, <2>2, <3>2
         DEF Opener, Examined, Prepared, Judged, Begun, Committed, Accepted, InTransaction
    <3>4. Schema(o)'
      BY <1>3, <1>4, <2>1, <2>2 DEF Schema, Committed, Accepted
    <3> QED
      BY <3>1, <3>3, <3>4 DEF Opener
  <2>3. "post-commit" \notin Writing
    BY DEF Writing, InTransaction
  <2> QED
    BY <1>1, <1>3, <1>4, <2>1, <2>2, <2>3, OpenGoes DEF StoreTypes
<1>5. CASE /\ db[openConn[o]].has \in {"empty", "v1"} /\ OpenGoto(o, "committing")
           /\ openNew' = [openNew EXCEPT ![o] = TRUE]
           /\ UNCHANGED <<storeDir, dbName, db, initLock, openConn, openFd, openState, openAlone, openReader>>
  <2>1. /\ DOMAIN openPc' = Openers /\ openPc'[o] = "committing"
        /\ DOMAIN openNew' = Openers /\ openNew'[o]
        /\ \A w \in Openers \ {o} : openPc'[w] = openPc[w] /\ openNew'[w] = openNew[w]
    BY <1>3, <1>5 DEF StoreTypes, OpenGoto
  <2>2. StoreTypes'
    BY <1>1, <1>3, <1>5, <2>1 DEF StoreTypes
  <2>3. OnlyMoves(o) /\ NameMoves
    BY <1>1, <1>3, <1>5, <2>1 DEF OnlyMoves, NameMoves, StoreTypes
  <2>4. NamesInOrder(o)'
    BY <1>1, <1>3, <1>5, <2>1
       DEF Opener, NamesInOrder, Prepared, Judged, Begun, Committed, Accepted, InTransaction, Connected
  <2>5. Good(o)' = Good(o)
    BY <1>1, <1>5 DEF Good, Sound, StructureOk
  <2>6. Examined(o)'
    BY <1>1, <1>3, <1>5, <2>1, <2>5
       DEF Opener, Examined, Prepared, Judged, Begun, Committed, Accepted, InTransaction
  <2>7. Schema(o)'
    BY <1>3, <1>5, <2>1 DEF Schema, Committed, Accepted
  <2>8. openPc[o] \in Writing /\ openConn'[o] = openConn[o]
    BY <1>1, <1>5 DEF Writing, InTransaction
  <2> QED
    BY <1>5, <2>2, <2>3, <2>4, <2>6, <2>7, <2>8, FilesRest, OpenerMoves DEF Opener
<1> QED
  BY <1>2, <1>4, <1>5 DEF RecheckSchema

(* The only one in a transaction on the file writes the schema. *)
LEMMA Commits ==
    ASSUME StoreInv, NEW o \in Openers, Commit(o) PROVE StoreInv'
<1>1. /\ UNCHANGED <<store, storeTroubles>> /\ openPc[o] = "committing"
      /\ OpenGoto(o, "post-commit") /\ UNCHANGED <<dbName, openConn, thePins>>
  BY DEF Commit, OpenStep
<1>2. StoreTypes /\ Opener(o) /\ openConn[o] = openFd[o]
  BY <1>1 DEF StoreInv, Opener, NamesInOrder, Begun, InTransaction
<1>3. PICK f \in DbFiles : f = openConn[o]
  BY <1>1, <1>2 DEF StoreTypes, Names, DbFiles, Opener, NamesInOrder, Connected, InTransaction
<1>4. db \in [DbFiles -> Databases] /\ db' = [db EXCEPT ![f].has = "current"]
  BY <1>2, <1>3 DEF StoreTypes, Commit
<1>5. /\ db' \in [DbFiles -> Databases]
      /\ db'[f].has = "current" /\ db'[f].journal = db[f].journal
      /\ \A g \in DbFiles \ {f} : db'[g] = db[g]
  BY <1>4 DEF Databases
<1>6. db[f].has \in {"empty", "v1"}
  BY <1>1, <1>2, <1>3 DEF Opener, Schema
<1>7. ASSUME NEW w \in Openers, w # o PROVE FilesKept(w)
  <2>1. ASSUME openPc[w] = "committing" PROVE db'[openFd[w]].has = db[openFd[w]].has
    <3>1. /\ openConn[w] # openConn[o] /\ openConn[w] = openFd[w]
          /\ openFd[w] \in DbFiles
      BY <1>1, <1>7, <2>1
         DEF StoreInv, StoreTypes, OneWriter, Writing, InTransaction, Opener, NamesInOrder, Begun, Connected, Names, DbFiles
    <3> QED
      BY <1>3, <1>5, <3>1
  <2> QED
    BY <1>5, <1>6, <2>1 DEF FilesKept, StructureOk
<1>8. /\ UNCHANGED <<openFd, openState, openAlone, openReader, openNew>>
      /\ DOMAIN openPc' = Openers /\ openPc'[o] = "post-commit"
      /\ \A w \in Openers \ {o} : openPc'[w] = openPc[w]
  BY <1>1, <1>2 DEF thePins, StoreTypes, OpenGoto
<1>9. StoreTypes'
  BY <1>1, <1>2, <1>5, <1>8 DEF StoreTypes
<1>10. OnlyMoves(o) /\ NameMoves
  BY <1>1, <1>2, <1>8 DEF OnlyMoves, NameMoves, StoreTypes
<1>11. NamesInOrder(o)'
  BY <1>1, <1>2, <1>8
     DEF Opener, NamesInOrder, Prepared, Judged, Begun, Committed, Accepted, InTransaction, Connected
<1>12. Good(o) => Good(o)'
  BY <1>1, <1>2, <1>3, <1>5, <1>8 DEF Good, Sound, StructureOk
<1>13. Examined(o)'
  BY <1>1, <1>2, <1>8, <1>12
     DEF Opener, Examined, Prepared, Judged, Begun, Committed, Accepted, InTransaction
<1>14. Schema(o)'
  BY <1>2, <1>3, <1>5, <1>8 DEF Schema, Committed, Accepted
<1>15. openPc'[o] \notin Writing
  BY <1>8 DEF Writing, InTransaction
<1> QED
  BY <1>7, <1>9, <1>10, <1>11, <1>13, <1>14, <1>15, OpenerMoves DEF Opener

LEMMA ValidatesCommitted ==
    ASSUME StoreInv, NEW o \in Openers, ValidateCommitted(o) PROVE StoreInv'
<1>1. UNCHANGED <<store, storeTroubles>> /\ openPc[o] = "post-commit"
  BY DEF ValidateCommitted, OpenStep
<1>2. CASE \E why \in Failures : FailOpen(o, why)
  BY <1>1, <1>2, OpenFailsAny
<1>3. CASE /\ openNew[o] => Sound(o, openConn[o])
           /\ openState[o] = "Empty" /\ store = "project" => db[openFd[o]].journal = "delete"
           /\ OpenGoto(o, IF store = "project" THEN "last check" ELSE "journal mode")
           /\ UNCHANGED <<storeDir, dbName, db, side, initLock, openConn, thePins>>
  <2>1. StoreTypes /\ Opener(o) /\ UNCHANGED <<openFd, openState, openAlone, openReader, openNew>>
    BY <1>3 DEF StoreInv, thePins
  <2>2. PICK pc \in {"last check", "journal mode"} :
          OpenGoto(o, pc) /\ (pc = "last check" <=> store = "project")
    BY <1>3
  <2>3. store \in {"project", "vectors"} /\ openState[o] \in {"Empty", "Existing"}
    BY <2>1 DEF StoreTypes
  <2>4. openConn[o] = openFd[o] /\ (openState[o] = "Empty" => openNew[o]) /\ (openState[o] = "Existing" => Good(o))
    BY <1>1, <2>1 DEF Opener, NamesInOrder, Examined, Prepared, Judged, Begun, Committed
  <2>5. Good(o)
    BY <1>3, <2>3, <2>4 DEF Good
  <2>6. Good(o)'
    BY <1>1, <1>3, <2>1, <2>5 DEF Good, Sound, StructureOk
  <2>7. ASSUME openPc'[o] = pc PROVE Opener(o)'
    <3>1. NamesInOrder(o)'
      BY <1>1, <1>3, <2>1, <2>2, <2>7
         DEF Opener, NamesInOrder, Prepared, Judged, Begun, Committed, Accepted, InTransaction, Connected
    <3>2. Examined(o)'
      BY <1>1, <2>1, <2>2, <2>4, <2>6, <2>7
         DEF Examined, Prepared, Judged, Begun, Committed, Accepted
    <3>3. Schema(o)'
      BY <1>1, <1>3, <2>1, <2>2, <2>3, <2>7 DEF Opener, Schema, Committed, Accepted
    <3> QED
      BY <3>1, <3>2, <3>3 DEF Opener
  <2>8. pc \notin Writing
    BY <2>2 DEF Writing, InTransaction
  <2> QED
    BY <1>1, <1>3, <2>1, <2>2, <2>7, <2>8, OpenGoes DEF StoreTypes
<1> QED
  BY <1>2, <1>3, FailuresSeen DEF ValidateCommitted

LEMMA EnablesWal ==
    ASSUME StoreInv, NEW o \in Openers, EnableWal(o) PROVE StoreInv'
<1>1. UNCHANGED <<store, storeTroubles>> /\ openPc[o] = "journal mode"
  BY DEF EnableWal, OpenStep
<1>2. CASE FailOpen(o, "locked")
  BY <1>1, <1>2, OpenFailsAny, FailuresSeen
<1>3. CASE /\ db' = [db EXCEPT ![openConn[o]].journal = "wal"]
           /\ OpenGoto(o, "last check")
           /\ UNCHANGED <<dbName, openConn, thePins>>
  <2>1. /\ StoreTypes /\ Opener(o) /\ UNCHANGED <<openFd, openState, openAlone, openReader, openNew>>
        /\ openConn[o] = openFd[o] /\ store = "vectors" /\ Good(o)
    BY <1>1, <1>3 DEF StoreInv, thePins, Opener, NamesInOrder, Examined, Schema, Begun, Committed, Accepted
  <2>2. PICK f \in DbFiles : f = openConn[o]
    BY <1>1, <2>1 DEF StoreTypes, Names, DbFiles, Opener, NamesInOrder, Connected
  <2>3. db \in [DbFiles -> Databases] /\ db' = [db EXCEPT ![f].journal = "wal"]
    BY <1>3, <2>1, <2>2 DEF StoreTypes
  <2>4. /\ db' \in [DbFiles -> Databases]
        /\ db'[f].has = db[f].has /\ db'[f].journal = "wal"
        /\ \A g \in DbFiles \ {f} : db'[g] = db[g]
    BY <2>3 DEF Databases
  <2>5. \A w \in Openers : FilesKept(w)
    <3>1. \A w \in Openers : openPc[w] = "committing" => openFd[w] \in DbFiles
      BY DEF StoreInv, StoreTypes, Opener, NamesInOrder, Prepared, Judged, Begun, InTransaction, Names, DbFiles
    <3>2. \A g \in DbFiles : db'[g].has = db[g].has /\ (db'[g].journal = db[g].journal \/ db'[g].journal = "wal")
      BY <2>4
    <3> QED
      BY <2>1, <2>4, <3>1, <3>2 DEF FilesKept, StructureOk
  <2>6. /\ DOMAIN openPc' = Openers /\ openPc'[o] = "last check"
        /\ \A w \in Openers \ {o} : openPc'[w] = openPc[w]
    BY <1>3, <2>1 DEF StoreTypes, OpenGoto
  <2>7. StoreTypes'
    BY <1>1, <1>3, <2>1, <2>4, <2>6 DEF StoreTypes
  <2>8. OnlyMoves(o) /\ NameMoves
    BY <1>1, <1>3, <2>1, <2>6 DEF OnlyMoves, NameMoves, StoreTypes
  <2>9. NamesInOrder(o)'
    BY <1>1, <1>3, <2>1, <2>6
       DEF Opener, NamesInOrder, Prepared, Judged, Begun, Committed, Accepted, InTransaction, Connected
  <2>10. Good(o)'
    BY <1>1, <2>1, <2>2, <2>4 DEF Good, Sound, StructureOk
  <2>11. Examined(o)'
    BY <1>1, <2>1, <2>6, <2>10
       DEF Opener, Examined, Prepared, Judged, Begun, Committed, Accepted, InTransaction
  <2>12. Schema(o)'
    BY <1>1, <2>1, <2>2, <2>4, <2>6 DEF Opener, Schema, Committed, Accepted
  <2>13. openPc'[o] \notin Writing
    BY <2>6 DEF Writing, InTransaction
  <2> QED
    BY <2>5, <2>7, <2>8, <2>9, <2>11, <2>12, <2>13, OpenerMoves DEF Opener
<1> QED
  BY <1>2, <1>3 DEF EnableWal


(* The store is open, is written to, and is closed. *)
LEMMA UsesStore ==
    ASSUME StoreInv, NEW o \in Openers,
           LastCheck(o) \/ StartWrite(o) \/ EndWrite(o) \/ CloseStore(o) \/ EndClose(o)
    PROVE  StoreInv'
<1>1. UNCHANGED <<store, storeTroubles>>
  BY DEF LastCheck, StartWrite, EndWrite, CloseStore, EndClose, OpenStep
<1>2. CASE \E why \in Failures : FailOpen(o, why)
  BY <1>1, <1>2, OpenFailsAny
<1>3. ASSUME NEW pc \in {"open", "writing", "used", "closing", "closed"}, OpenGoto(o, pc),
             openPc[o] \in {"last check", "open", "writing", "used", "closing"},
             pc \in {"open", "writing", "used"} => openPc[o] \in {"last check", "open", "writing", "used"},
             pc = "writing" => ~WriteLocked(o),
             UNCHANGED <<dbName, db, openConn, thePins>>
      PROVE  StoreInv'
  <2>1. StoreTypes /\ Opener(o) /\ UNCHANGED <<openFd, openState, openAlone, openReader, openNew>>
    BY <1>3 DEF StoreInv, thePins
  <2>2. ASSUME openPc'[o] = pc PROVE Opener(o)'
    <3>1. NamesInOrder(o)'
      BY <1>3, <2>1, <2>2
         DEF Opener, NamesInOrder, Prepared, Judged, Begun, Committed, Accepted, InTransaction, Connected
    <3>2. Good(o)' = Good(o)
      BY <1>1, <1>3, <2>1 DEF Good, Sound, StructureOk
    <3>3. Examined(o)'
      BY <1>3, <2>1, <2>2, <3>2
         DEF Opener, Examined, Prepared, Judged, Begun, Committed, Accepted, InTransaction
    <3>4. Schema(o)'
      BY <1>1, <1>3, <2>1, <2>2 DEF Opener, Schema, Committed, Accepted
    <3> QED
      BY <3>1, <3>3, <3>4 DEF Opener
  <2>3. pc \in Writing => ~WriteLocked(o)
    BY <1>3 DEF Writing, InTransaction
  <2> QED
    BY <1>1, <1>3, <2>1, <2>2, <2>3, OpenGoes DEF StoreTypes
<1>4. CASE LastCheck(o)
  BY <1>2, <1>3, <1>4, FailuresSeen DEF LastCheck, OpenStep
<1>5. CASE StartWrite(o)
  BY <1>3, <1>5 DEF StartWrite
<1>6. CASE EndWrite(o)
  BY <1>3, <1>6 DEF EndWrite, OpenStep
<1>7. CASE CloseStore(o)
  <2>1. PICK pc \in {"closing", "closed"} : OpenGoto(o, pc)
    BY <1>7 DEF CloseStore
  <2> QED
    BY <1>3, <1>7, <2>1 DEF CloseStore
<1>8. CASE EndClose(o)
  BY <1>3, <1>8 DEF EndClose, OpenStep
<1> QED
  BY <1>4, <1>5, <1>6, <1>7, <1>8

LEMMA OpenerDies ==
    ASSUME StoreInv, NEW o \in Openers, CallFails(o) \/ Dies(o) PROVE StoreInv'
<1>1. storeTroubles' \in Nat
  BY DEF StoreInv, StoreTypes, CallFails, Dies, StoreTrouble
<1>2. CASE CallFails(o)
  BY <1>1, <1>2, OpenFails, FailuresSeen DEF CallFails, FailOpen
<1>3. CASE Dies(o)
  BY <1>1, <1>3, OpenFails DEF Dies
<1> QED
  BY <1>2, <1>3

(* The foreign hand moves the name on, or fills an empty file that nobody  *)
(* has a transaction on.                                                   *)
LEMMA ForeignHandKeeps ==
    ASSUME StoreInv, ForeignHand \/ UNCHANGED openVars PROVE StoreInv'
<1>1. StoreTypes /\ OneWriter /\ \A o \in Openers : Opener(o)
  BY DEF StoreInv
<1>2. /\ UNCHANGED <<store, openPc, openConn, openFd, openState, openAlone, openReader, openNew>>
      /\ storeTroubles' \in Nat
  BY <1>1 DEF ForeignHand, StoreTrouble, openVars, thePins, StoreTypes
<1>3. NameMoves
  BY <1>1, StoreOpenAssumption DEF ForeignHand, NameMoves, StoreTypes, Names, openVars
<1>4. \A w \in Openers : FilesKept(w)
  <2>1. CASE UNCHANGED db
    BY <2>1, FilesRest
  <2>2. CASE /\ dbName # NoDb /\ db[dbName].has = "empty"
             /\ \A o \in Openers : openPc[o] \notin InTransaction
             /\ \E has \in {"foreign", "damaged"}, journal \in {"delete", "wal"} :
                  db' = [db EXCEPT ![dbName] = [has |-> has, journal |-> journal]]
    <3>1. PICK f \in DbFiles : f = dbName
      BY <1>1, <2>2 DEF StoreTypes, Names, DbFiles
    <3>2. PICK new \in Databases : db' = [db EXCEPT ![f] = new]
      BY <2>2, <3>1 DEF Databases, Foreign
    <3>3. /\ db' \in [DbFiles -> Databases] /\ db[f].has = "empty"
          /\ \A g \in DbFiles \ {f} : db'[g] = db[g]
      BY <1>1, <2>2, <3>1, <3>2 DEF StoreTypes
    <3>4. \A w \in Openers : openPc[w] # "committing"
      BY <2>2 DEF InTransaction
    <3> QED
      BY <3>3, <3>4 DEF FilesKept, StructureOk
  <2> QED
    BY <2>1, <2>2 DEF ForeignHand, openVars
<1>5. StoreTypes'
  <2>1. dbName' \in Names
    BY <1>3 DEF NameMoves
  <2>2. db' \in [DbFiles -> Databases]
    <3>1. CASE UNCHANGED db
      BY <1>1, <3>1 DEF StoreTypes
    <3>2. CASE /\ dbName # NoDb
               /\ \E has \in {"foreign", "damaged"}, journal \in {"delete", "wal"} :
                    db' = [db EXCEPT ![dbName] = [has |-> has, journal |-> journal]]
      <4>1. PICK f \in DbFiles : f = dbName
        BY <1>1, <3>2 DEF StoreTypes, Names, DbFiles
      <4>2. PICK new \in Databases : db' = [db EXCEPT ![f] = new]
        BY <3>2, <4>1 DEF Databases, Foreign
      <4> QED
        BY <1>1, <4>2 DEF StoreTypes
    <3> QED
      BY <3>1, <3>2 DEF ForeignHand, openVars
  <2> QED
    BY <1>1, <1>2, <2>1, <2>2 DEF StoreTypes
<1>6. OneWriter'
  BY <1>1, <1>2 DEF OneWriter
<1>7. \A o \in Openers : Opener(o)'
  BY <1>2, <1>3, <1>4, OpenerRests
<1> QED
  BY <1>5, <1>6, <1>7 DEF StoreInv

LEMMA StoreNext == StoreInv /\ [StoreOpenNext]_openVars => StoreInv'
BY OpensDirectory, PreparesDatabase, LooksForSidecars, Inspects, AwaitsLock, ClassifiesSidecars,
   Connects, Begins, RechecksSchema, Commits, ValidatesCommitted, EnablesWal, UsesStore, OpenerDies,
   ForeignHandKeeps
   DEF StoreOpenNext

LEMMA StoreAlways == StoreOpenSpec => []StoreInv
<1>1. StoreOpenInit => StoreInv
  BY StoreInit
<1>2. StoreInv /\ [StoreOpenNext]_openVars => StoreInv'
  BY StoreNext
<1> QED
  BY <1>1, <1>2, PTL DEF StoreOpenSpec

(* open_project and open_vectors return a connection only to the file that *)
(* was pinned, of the current schema and the right journal mode, and one   *)
(* with a damaged page to the search opener alone: for any number of       *)
(* openers, crashes, failing calls and foreign hands.                      *)
THEOREM OpenedStoresAreCurrent == StoreOpenSpec => []StoreOpenedIsCurrent
<1>1. StoreInv => StoreOpenedIsCurrent
  <2> SUFFICES ASSUME StoreInv, NEW o \in Openers, openPc[o] \in {"open", "writing", "used"}
               PROVE  /\ openConn[o] = openFd[o]
                      /\ db[openFd[o]].journal = JournalMode(store)
                      /\ db[openFd[o]].has = "current" \/ (db[openFd[o]].has = "damaged" /\ o \in Searchers)
    BY DEF StoreOpenedIsCurrent
  <2>1. Opener(o) /\ store \in {"project", "vectors"}
    BY DEF StoreInv, StoreTypes
  <2>2. openConn[o] = openFd[o]
    BY <2>1 DEF Opener, NamesInOrder, Begun, Committed, Accepted
  <2>3. Good(o) /\ db[openFd[o]].has \in {"current", "damaged"}
    BY <2>1 DEF Opener, Examined, Schema, Committed, Accepted
  <2>4. db[openFd[o]].journal = JournalMode(store)
    BY <2>1, <2>3 DEF Opener, Schema, Accepted, Good, JournalMode
  <2> QED
    BY <2>2, <2>3, <2>4 DEF Good, Sound
<1> QED
  BY <1>1, StoreAlways, PTL

(* No step of an opener changes a file that is no store of this program:   *)
(* the transaction writes a schema only over nothing or over the version   *)
(* before, and PRAGMA journal_mode comes after the checks, each over a     *)
(* connection to the pinned file.                                          *)
THEOREM ForeignStoresAreUntouched == StoreOpenSpec => ForeignStoreUntouched
<1> DEFINE Untouched ==
      \A f \in DbFiles : db'[f] # db[f] /\ storeTroubles' = storeTroubles =>
        /\ db[f].has \in {"empty", "v1", "current"} \/ (db[f].has = "damaged" /\ db'[f].has = "damaged")
        /\ \E o \in Openers : openFd[o] = f /\ openPc'[o] # openPc[o]
<1>1. StoreInv /\ [StoreOpenNext]_openVars => [Untouched]_openVars
  <2> SUFFICES ASSUME StoreInv, StoreOpenNext, NEW f \in DbFiles, db'[f] # db[f], storeTroubles' = storeTroubles
               PROVE  /\ \/ db[f].has \in {"empty", "v1", "current"}
                         \/ db[f].has = "damaged" /\ db'[f].has = "damaged"
                      /\ \E o \in Openers : openFd[o] = f /\ openPc'[o] # openPc[o]
    OBVIOUS
  <2>1. StoreTypes
    BY DEF StoreInv
  <2>2. ~StoreTrouble
    BY <2>1 DEF StoreTypes, StoreTrouble
  <2>3. PICK o \in Openers : Commit(o) \/ EnableWal(o)
    <3>1. \A o \in Openers : \A why : ~FailOpen(o, why)
      BY DEF FailOpen
    <3>2. ASSUME NEW o \in Openers,
                 OpenDirectory(o) \/ PrepareDatabase(o) \/ LookForSidecars(o) \/ AwaitLock(o) \/ ClassifySidecars(o)
          PROVE  FALSE
      BY <3>1, <3>2 DEF OpenDirectory, PrepareDatabase, LookForSidecars, AwaitLock, ClassifySidecars
    <3>3. ASSUME NEW o \in Openers, InspectEarly(o) \/ InspectLocked(o) PROVE FALSE
      BY <3>1, <3>3 DEF InspectEarly, InspectLocked
    <3>4. ASSUME NEW o \in Openers, Connect(o) \/ Begin(o) \/ RecheckSchema(o) \/ ValidateCommitted(o) PROVE FALSE
      BY <3>1, <3>4 DEF Connect, Begin, RecheckSchema, ValidateCommitted
    <3>5. ASSUME NEW o \in Openers,
                 LastCheck(o) \/ StartWrite(o) \/ EndWrite(o) \/ CloseStore(o) \/ EndClose(o)
          PROVE  FALSE
      BY <3>1, <3>5 DEF LastCheck, StartWrite, EndWrite, CloseStore, EndClose
    <3>6. ASSUME NEW o \in Openers, CallFails(o) \/ Dies(o) PROVE FALSE
      BY <2>2, <3>6 DEF CallFails, Dies
    <3>7. ~ForeignHand
      BY <2>2 DEF ForeignHand
    <3> QED
      BY <3>2, <3>3, <3>4, <3>5, <3>6, <3>7 DEF StoreOpenNext
  <2>4. Opener(o)
    BY DEF StoreInv
  <2>5. CASE Commit(o)
    <3>1. openPc[o] = "committing" /\ openPc'[o] = "post-commit"
      BY <2>1, <2>5 DEF Commit, OpenStep, OpenGoto, StoreTypes
    <3>2. openConn[o] = openFd[o] /\ db[openFd[o]].has \in {"empty", "v1"}
      BY <2>4, <3>1 DEF Opener, NamesInOrder, Schema, Begun, InTransaction
    <3>3. f = openConn[o]
      BY <2>1, <2>5 DEF Commit, StoreTypes
    <3> QED
      BY <3>1, <3>2, <3>3
  <2>6. CASE EnableWal(o)
    <3>1. openPc[o] = "journal mode" /\ db' = [db EXCEPT ![openConn[o]].journal = "wal"]
          /\ openPc'[o] = "last check"
      BY <2>1, <2>6 DEF EnableWal, OpenStep, OpenGoto, StoreTypes, FailOpen
    <3>2. openConn[o] = openFd[o] /\ db[openFd[o]].has \in {"current", "damaged"}
      BY <2>4, <3>1 DEF Opener, NamesInOrder, Schema, Begun, Committed, Accepted
    <3>3. f = openConn[o] /\ db'[f].has = db[f].has
      BY <2>1, <3>1 DEF StoreTypes, Databases
    <3> QED
      BY <3>1, <3>2, <3>3
  <2> QED
    BY <2>3, <2>5, <2>6
<1> QED
  BY <1>1, StoreAlways, PTL DEF StoreOpenSpec, ForeignStoreUntouched


(* Racing openers of a healthy store.  The coordination lock is held from  *)
(* the look at the sidecars to the last check.                             *)
Holding == {"coordinated", "inspect", "connect", "connected", "recheck", "committing", "post-commit",
            "journal mode", "last check"}
LockHeld == \A o \in Openers : openPc[o] \in Holding => initLock = o

(* Without troubles a healthy store stays one, and nobody meets a reason   *)
(* to refuse it but what an inspection may read while somebody writes.     *)
Hard == {"unsafe", "raced", "wrong journal", "unavailable"}
Health ==
    /\ storeDir # "public" /\ dbName \in {NoDb, 1}
    /\ db[1].has \in {"empty", "v1", "current"} /\ (store = "project" => db[1].journal = "delete")
    /\ store = "vectors" => db[1].has # "v1"
    /\ \A o \in Openers : openPc[o] \notin Hard

(* Nobody who has the store open has used it yet. *)
Calm == \A o \in Openers : openPc[o] \notin {"writing", "used", "closing", "closed"}

SidecarsCalm ==
    /\ side \in {"none", "reader", "journal"} /\ (store = "project" => side # "reader")
    /\ side = "journal" => \E p \in Openers : openPc[p] = "committing"

(* While it is calm, an opener is at peace: what it depends on is changed  *)
(* by the holder of the lock alone, and a file that it found with contents *)
(* has a schema, or is being given one.                                    *)
AtPeace(o) ==
    /\ openPc[o] \notin Failures \ {"busy"}
    /\ openPc[o] \in {"prepared", "inspect early"} => store = "vectors"
    /\ openPc[o] = "committing" => side = "journal"
    /\ openPc[o] \in Prepared /\ openState[o] = "Existing" =>
         db[1].has # "empty" \/ \E p \in Openers : openPc[p] = "committing"
    /\ openPc[o] = "inspect early" => db[1].has # "empty"
    /\ openPc[o] = "inspect" => openState[o] = "Existing"
    /\ openPc[o] \in {"inspect", "connect", "connected"} /\ openReader[o] => side = "reader"
    /\ openPc[o] = "last check" /\ store = "vectors" => side = "reader"

ClashInv ==
    /\ StoreInv /\ LockHeld
    /\ healthy /\ storeTroubles = 0 => Health
    /\ healthy /\ storeTroubles = 0 /\ Calm => SidecarsCalm /\ \A o \in Openers : AtPeace(o)

LEMMA ClashInit == StoreOpenInit => ClashInv
<1> SUFFICES ASSUME StoreOpenInit PROVE ClashInv
  OBVIOUS
<1>1. StoreInv
  BY StoreInit
<1>2. \A o \in Openers : openPc[o] = "idle"
  BY DEF StoreOpenInit
<1>3. LockHeld
  BY <1>2 DEF LockHeld, Holding
<1>4. ASSUME healthy
      PROVE  /\ db[1].has \notin Foreign /\ storeDir # "public"
             /\ db[1].has # "empty" => db[1].journal = JournalMode(store)
             /\ side \in {"none", "reader"}
  BY <1>4 DEF StoreOpenInit
<1>5. /\ db[1].has \in {"empty", "v1", "current"} \cup Foreign
      /\ db[1].has = "empty" => db[1].journal = "delete" /\ side = "none"
      /\ store = "vectors" => db[1].has # "v1"
      /\ dbName \in {NoDb, 1}
      /\ side = "reader" => db[1].journal = "wal"
  BY DEF StoreOpenInit, DbFiles
<1>6. ASSUME healthy PROVE Health
  BY <1>2, <1>4, <1>5, <1>6 DEF Health, Hard, JournalMode
<1>7. ASSUME healthy PROVE SidecarsCalm
  BY <1>4, <1>5, <1>7 DEF SidecarsCalm, JournalMode
<1>8. ASSUME NEW o \in Openers PROVE AtPeace(o)
  BY <1>2 DEF AtPeace, Failures, Contention, Refusal, Prepared, Judged, Begun, Committed, Accepted, InTransaction
<1> QED
  BY <1>1, <1>3, <1>6, <1>7, <1>8 DEF ClashInv

(* The lock. *)
LEMMA LockNext == LockHeld /\ StoreInv /\ [StoreOpenNext]_openVars => LockHeld'
<1> SUFFICES ASSUME LockHeld, StoreInv, [StoreOpenNext]_openVars PROVE LockHeld'
  OBVIOUS
<1>1. DOMAIN openPc = Openers /\ \A o \in Openers : openPc[o] \in Holding => initLock = o
  BY DEF StoreInv, StoreTypes, LockHeld
<1>2. ASSUME NEW o \in Openers, NEW why, OpenGoto(o, why), why \notin Holding,
             initLock' = IF initLock = o THEN NoDb ELSE initLock
      PROVE  LockHeld'
  BY <1>1, <1>2 DEF OpenGoto, LockHeld
<1>3. ASSUME NEW o \in Openers, NEW pc, OpenGoto(o, pc), initLock' = initLock,
             pc \in Holding => openPc[o] \in Holding
      PROVE  LockHeld'
  BY <1>1, <1>3 DEF OpenGoto, LockHeld
<1>4. ASSUME NEW o \in Openers, NEW why \in Failures, FailOpen(o, why) PROVE LockHeld'
  <2>1. why \notin Holding
    BY DEF Failures, Contention, Refusal, Holding
  <2> QED
    BY <1>2, <1>4, <2>1 DEF FailOpen
<1>5. ASSUME NEW o \in Openers, OpenDirectory(o) \/ PrepareDatabase(o) \/ LookForSidecars(o) PROVE LockHeld'
  <2>1. CASE FailOpen(o, "unsafe")
    BY <1>4, <2>1 DEF Failures, Refusal
  <2>2. CASE \E pc \in {"prepare", "lock", "prepared", "inspect early"} : OpenGoto(o, pc) /\ initLock' = initLock
    BY <1>3, <2>2 DEF Holding
  <2> QED
    BY <1>5, <2>1, <2>2 DEF OpenDirectory, PrepareDatabase, LookForSidecars
<1>6. ASSUME NEW o \in Openers, InspectEarly(o) \/ InspectLocked(o) PROVE LockHeld'
  <2>1. CASE OpenGoto(o, "lock") /\ initLock' = initLock
    BY <1>3, <2>1 DEF Holding
  <2>2. CASE OpenGoto(o, "connect") /\ initLock' = initLock /\ openPc[o] = "inspect"
    BY <1>3, <2>2 DEF Holding
  <2> QED
    BY <1>4, <1>6, <2>1, <2>2, FailuresSeen DEF InspectEarly, InspectLocked, OpenStep
<1>7. ASSUME NEW o \in Openers, AwaitLock(o) PROVE LockHeld'
  <2>1. CASE initLock = NoDb /\ initLock' = o /\ OpenGoto(o, "coordinated")
    BY <1>1, <2>1, StoreOpenAssumption DEF OpenGoto, LockHeld
  <2> QED
    BY <1>4, <1>7, <2>1, FailuresSeen DEF AwaitLock
<1>8. ASSUME NEW o \in Openers,
             ClassifySidecars(o) \/ Connect(o) \/ Begin(o) \/ RecheckSchema(o) \/ Commit(o)
             \/ ValidateCommitted(o) \/ EnableWal(o)
      PROVE  LockHeld'
  <2>1. openPc[o] \in Holding
    BY <1>8 DEF ClassifySidecars, Connect, Begin, RecheckSchema, Commit, ValidateCommitted, EnableWal, OpenStep, Holding
  <2>2. CASE \E pc : OpenGoto(o, pc) /\ initLock' = initLock
    BY <1>3, <2>1, <2>2
  <2>3. CASE ClassifySidecars(o) \/ Connect(o)
    BY <1>4, <2>2, <2>3, FailuresSeen DEF ClassifySidecars, Connect
  <2>4. CASE Begin(o)
    BY <1>4, <2>2, <2>4, FailuresSeen DEF Begin
  <2>5. CASE RecheckSchema(o) \/ Commit(o)
    BY <1>4, <2>2, <2>5, FailuresSeen DEF RecheckSchema, Commit
  <2>6. CASE ValidateCommitted(o) \/ EnableWal(o)
    BY <1>4, <2>2, <2>6, FailuresSeen DEF ValidateCommitted, EnableWal
  <2> QED
    BY <1>8, <2>3, <2>4, <2>5, <2>6
<1>9. ASSUME NEW o \in Openers, LastCheck(o) PROVE LockHeld'
  <2>1. CASE OpenGoto(o, "open") /\ initLock' = IF initLock = o THEN NoDb ELSE initLock
    BY <1>2, <2>1 DEF Holding
  <2> QED
    BY <1>4, <1>9, <2>1, FailuresSeen DEF LastCheck
<1>10. ASSUME NEW o \in Openers, StartWrite(o) \/ EndWrite(o) \/ CloseStore(o) \/ EndClose(o) PROVE LockHeld'
  <2>1. CASE \E pc \in {"writing", "used", "closing", "closed"} : OpenGoto(o, pc) /\ initLock' = initLock
    BY <1>3, <2>1 DEF Holding
  <2>2. CASE CloseStore(o)
    <3>1. PICK pc \in {"closing", "closed"} : OpenGoto(o, pc)
      BY <2>2 DEF CloseStore
    <3> QED
      BY <2>1, <2>2, <3>1 DEF CloseStore
  <2> QED
    BY <1>10, <2>1, <2>2 DEF StartWrite, EndWrite, EndClose
<1>11. ASSUME NEW o \in Openers, CallFails(o) \/ Dies(o) PROVE LockHeld'
  <2>1. CASE CallFails(o)
    BY <1>4, <2>1, FailuresSeen DEF CallFails
  <2>2. CASE Dies(o)
    BY <1>2, <2>2 DEF Dies, Holding
  <2> QED
    BY <1>11, <2>1, <2>2
<1>12. CASE ForeignHand \/ UNCHANGED openVars
  BY <1>1, <1>12 DEF ForeignHand, openVars, LockHeld
<1> QED
  BY <1>5, <1>6, <1>7, <1>8, <1>9, <1>10, <1>11, <1>12 DEF StoreOpenNext

(* In a healthy store every descriptor and every connection is to the one  *)
(* file, and the verdict on the name is good.                              *)
LEMMA HealthyNames ==
    ASSUME StoreInv, Health, NEW o \in Openers
    PROVE  /\ openPc[o] \in Prepared => openFd[o] = 1 /\ dbName = 1 /\ Verdict(o) = "ok"
           /\ openPc[o] \in Connected => openConn[o] = 1
<1>1. NamesInOrder(o) /\ openFd[o] \in Names /\ openConn[o] \in Names /\ dbName \in {NoDb, 1}
  BY DEF StoreInv, StoreTypes, Opener, Health
<1>2. openPc[o] \in Prepared => openFd[o] = 1 /\ dbName = 1
  BY <1>1, StoreOpenAssumption DEF NamesInOrder, Names
<1>3. openPc[o] \in Connected => openConn[o] = 1
  BY <1>1, StoreOpenAssumption DEF NamesInOrder, Names
<1> QED
  BY <1>2, <1>3 DEF Health, Verdict

Soft == {"busy", "locked", "sidecar", "torn", "refused"}


LEMMA HealthNext ==
    ASSUME StoreInv, Health, StoreOpenNext, storeTroubles' = storeTroubles
    PROVE  Health'
<1>1. /\ DOMAIN openPc = Openers /\ db \in [DbFiles -> Databases] /\ storeTroubles \in Nat
      /\ store \in {"project", "vectors"}
  BY DEF StoreInv, StoreTypes
<1>2. ~StoreTrouble
  BY <1>1 DEF StoreTrouble
<1>3. ASSUME NEW o \in Openers, NEW pc, OpenGoto(o, pc), pc \notin Hard, store' = store,
             storeDir' # "public", dbName' \in {NoDb, 1}, db' = db
      PROVE  Health'
  BY <1>1, <1>3 DEF Health, OpenGoto
<1>4. ASSUME NEW o \in Openers, NEW why \in Soft, FailOpen(o, why), store' = store PROVE Health'
  <2>1. why \notin Hard
    BY DEF Soft, Hard
  <2>2. UNCHANGED <<storeDir, dbName, db>> /\ OpenGoto(o, why)
    BY <1>4 DEF FailOpen
  <2>3. storeDir' # "public" /\ dbName' \in {NoDb, 1}
    BY <2>2 DEF Health
  <2> QED
    BY <1>3, <1>4, <2>1, <2>2, <2>3
<1>5. \A o \in Openers : openPc[o] \in Prepared => openFd[o] = 1 /\ dbName = 1 /\ Verdict(o) = "ok"
  BY HealthyNames
<1>6. ASSUME NEW o \in Openers, OpenDirectory(o) \/ PrepareDatabase(o) \/ LookForSidecars(o) PROVE Health'
  <2>1. storeDir # "public" /\ (dbName # NoDb => db[dbName].has # "exposed") /\ dbName \in {NoDb, 1}
    BY DEF Health
  <2>2. store' = store
    BY <1>6 DEF OpenDirectory, PrepareDatabase, LookForSidecars, OpenStep
  <2>3. CASE \E pc \in {"prepare", "lock", "prepared", "inspect early"} :
               OpenGoto(o, pc) /\ db' = db /\ storeDir' # "public" /\ dbName' \in {NoDb, 1}
    BY <1>3, <2>2, <2>3 DEF Hard
  <2>4. CASE OpenDirectory(o)
    BY <2>1, <2>3, <2>4 DEF OpenDirectory
  <2>5. CASE PrepareDatabase(o)
    <3>1. dbName' \in {NoDb, 1} /\ storeDir' # "public" /\ db' = db
      BY <2>1, <2>5 DEF PrepareDatabase, FailOpen
    <3> QED
      BY <2>1, <2>3, <2>5, <3>1 DEF PrepareDatabase
  <2>6. CASE LookForSidecars(o)
    BY <2>1, <2>3, <2>6 DEF LookForSidecars
  <2> QED
    BY <1>6, <2>4, <2>5, <2>6
<1>7. ASSUME NEW o \in Openers, InspectEarly(o) \/ InspectLocked(o) PROVE Health'
  <2>1. store' = store /\ Verdict(o) = "ok" /\ dbName = 1 /\ db[1].has \in {"empty", "v1", "current"}
        /\ (store = "project" => db[1].journal = "delete") /\ storeDir # "public"
    BY <1>5, <1>7 DEF InspectEarly, InspectLocked, OpenStep, Prepared, Health
  <2>2. \A found \in Inspections(o) : found \in {"torn", "refused", "ok"}
    BY <2>1 DEF Inspections
  <2>3. CASE \E pc \in {"lock", "connect"} : OpenGoto(o, pc) /\ UNCHANGED <<storeDir, dbName, db>>
    BY <1>3, <2>1, <2>3 DEF Hard
  <2>4. CASE InspectEarly(o)
    BY <1>4, <2>1, <2>2, <2>3, <2>4 DEF InspectEarly, Soft
  <2>5. CASE InspectLocked(o)
    BY <1>4, <2>1, <2>2, <2>3, <2>5 DEF InspectLocked, Soft
  <2> QED
    BY <1>7, <2>4, <2>5
<1>8. ASSUME NEW o \in Openers,
             AwaitLock(o) \/ ClassifySidecars(o) \/ Connect(o) \/ Begin(o) \/ RecheckSchema(o)
      PROVE  Health'
  <2>1. store' = store /\ Verdict(o) = "ok" /\ dbName \in {NoDb, 1} /\ storeDir # "public"
    BY <1>5, <1>8
       DEF AwaitLock, ClassifySidecars, Connect, Begin, RecheckSchema, OpenStep, Prepared, Judged, Begun,
           InTransaction, Health
  <2>2. CASE \E pc \in {"coordinated", "inspect", "connect", "connected", "recheck", "post-commit", "committing"} :
               OpenGoto(o, pc) /\ UNCHANGED <<storeDir, dbName, db>>
    BY <1>3, <2>1, <2>2 DEF Hard
  <2>3. CASE AwaitLock(o)
    BY <1>4, <2>1, <2>2, <2>3 DEF AwaitLock, Soft
  <2>4. CASE ClassifySidecars(o)
    BY <1>4, <2>1, <2>2, <2>4 DEF ClassifySidecars, Soft
  <2>5. CASE Connect(o)
    BY <1>4, <2>1, <2>2, <2>5 DEF Connect, Soft
  <2>6. CASE Begin(o)
    BY <1>4, <2>1, <2>2, <2>6 DEF Begin, Soft
  <2>7. CASE RecheckSchema(o)
    BY <1>4, <2>1, <2>2, <2>7 DEF RecheckSchema, Soft
  <2> QED
    BY <1>8, <2>3, <2>4, <2>5, <2>6, <2>7
<1>9. ASSUME NEW o \in Openers, Commit(o) PROVE Health'
  <2>1. /\ openPc[o] = "committing" /\ store' = store /\ OpenGoto(o, "post-commit")
        /\ UNCHANGED <<storeDir, dbName>>
    BY <1>9 DEF Commit, OpenStep
  <2>2. openConn[o] = 1
    BY <2>1, HealthyNames DEF Connected, InTransaction
  <2>3. db' = [db EXCEPT ![1].has = "current"]
    BY <1>9, <2>2 DEF Commit
  <2>4. db'[1].has = "current" /\ db'[1].journal = db[1].journal
    BY <1>1, <2>3 DEF DbFiles, Databases
  <2>5. \A w \in Openers : openPc'[w] \notin Hard
    BY <1>1, <2>1 DEF Health, Hard, OpenGoto
  <2> QED
    BY <2>1, <2>4, <2>5 DEF Health
<1>10. ASSUME NEW o \in Openers, ValidateCommitted(o) \/ LastCheck(o) PROVE Health'
  <2>1. /\ store' = store /\ Verdict(o) = "ok" /\ dbName \in {NoDb, 1} /\ storeDir # "public"
        /\ openFd[o] = 1 /\ (store = "project" => db[1].journal = "delete")
    BY <1>5, <1>10
       DEF ValidateCommitted, LastCheck, OpenStep, Prepared, Judged, Begun, Committed, Accepted, Health
  <2>2. CASE \E pc \in {"last check", "journal mode", "open"} :
               OpenGoto(o, pc) /\ UNCHANGED <<storeDir, dbName, db>>
    BY <1>3, <2>1, <2>2 DEF Hard
  <2>3. CASE ValidateCommitted(o)
    BY <1>4, <2>1, <2>2, <2>3 DEF ValidateCommitted, Soft
  <2>4. CASE LastCheck(o)
    BY <1>4, <2>1, <2>2, <2>4 DEF LastCheck, Soft
  <2> QED
    BY <1>10, <2>3, <2>4
<1>11. ASSUME NEW o \in Openers, EnableWal(o) PROVE Health'
  <2>1. openPc[o] = "journal mode" /\ store' = store
    BY <1>11 DEF EnableWal, OpenStep
  <2>2. openConn[o] = 1 /\ store = "vectors"
    BY <2>1, HealthyNames DEF Connected, StoreInv, Opener, Schema
  <2>3. CASE FailOpen(o, "locked")
    BY <1>4, <2>1, <2>3 DEF Soft
  <2>4. CASE /\ db' = [db EXCEPT ![1].journal = "wal"] /\ OpenGoto(o, "last check")
             /\ UNCHANGED <<storeDir, dbName>>
    <3>1. db'[1].has = db[1].has
      BY <1>1, <2>4 DEF DbFiles, Databases
    <3>2. \A w \in Openers : openPc'[w] \notin Hard
      BY <1>1, <2>4 DEF Health, Hard, OpenGoto
    <3> QED
      BY <2>1, <2>2, <2>4, <3>1, <3>2 DEF Health
  <2> QED
    BY <1>11, <2>2, <2>3, <2>4 DEF EnableWal
<1>12. ASSUME NEW o \in Openers, StartWrite(o) \/ EndWrite(o) \/ CloseStore(o) \/ EndClose(o) PROVE Health'
  <2>1. store' = store /\ dbName \in {NoDb, 1} /\ storeDir # "public"
    BY <1>12 DEF StartWrite, EndWrite, CloseStore, EndClose, OpenStep, Health
  <2>2. CASE \E pc \in {"writing", "used", "closing", "closed"} :
               OpenGoto(o, pc) /\ UNCHANGED <<storeDir, dbName, db>>
    BY <1>3, <2>1, <2>2 DEF Hard
  <2>3. CASE CloseStore(o)
    <3>1. PICK pc \in {"closing", "closed"} : OpenGoto(o, pc)
      BY <2>3 DEF CloseStore
    <3> QED
      BY <2>2, <2>3, <3>1 DEF CloseStore
  <2> QED
    BY <1>12, <2>2, <2>3 DEF StartWrite, EndWrite, EndClose
<1>13. /\ \A o \in Openers : ~CallFails(o) /\ ~Dies(o)
       /\ ~ForeignHand
  BY <1>2 DEF CallFails, Dies, ForeignHand
<1> QED
  BY <1>6, <1>7, <1>8, <1>9, <1>10, <1>11, <1>12, <1>13 DEF StoreOpenNext


Peaceful ==
    StoreInv /\ LockHeld /\ Health /\ Calm /\ SidecarsCalm /\ \A o \in Openers : AtPeace(o)

(* Whoever holds the lock holds it alone. *)
LEMMA HolderIsAlone ==
    ASSUME Peaceful, NEW o \in Openers, openPc[o] \in Holding
    PROVE  /\ \A w \in Openers \ {o} : openPc[w] \notin Holding
           /\ ~WriteLocked(o)
           /\ openPc[o] # "committing" => (side = "none" \/ (side = "reader" /\ store = "vectors"))
<1>1. \A w \in Openers \ {o} : openPc[w] \notin Holding
  BY DEF Peaceful, LockHeld
<1>2. ~WriteLocked(o)
  BY <1>1 DEF WriteLocked, InTransaction, Holding, Peaceful, Calm
<1>3. openPc[o] # "committing" => side # "journal"
  BY <1>1 DEF Peaceful, SidecarsCalm, Holding
<1>4. side \in {"none", "reader", "journal"} /\ (store = "project" => side # "reader")
      /\ store \in {"project", "vectors"}
  BY DEF Peaceful, SidecarsCalm, StoreInv, StoreTypes
<1> QED
  BY <1>1, <1>2, <1>3, <1>4

LEMMA PeaceMoves ==
    ASSUME Peaceful, NEW o \in Openers, OnlyMoves(o),
           side' = side \/ openPc[o] \in Holding,
           db[1].has # "empty" => db'[1].has # "empty",
           openPc[o] = "committing" => db'[1].has # "empty",
           SidecarsCalm', AtPeace(o)'
    PROVE  SidecarsCalm' /\ \A w \in Openers : AtPeace(w)'
<1>1. ASSUME NEW w \in Openers, w # o PROVE AtPeace(w)'
  <2>1. /\ AtPeace(w) /\ store' = store
        /\ openPc'[w] = openPc[w] /\ openState'[w] = openState[w] /\ openReader'[w] = openReader[w]
    BY <1>1 DEF Peaceful, OnlyMoves
  <2>2. openPc[w] \in Holding => side' = side
    BY <1>1, HolderIsAlone
  <2>3. ASSUME \E p \in Openers : openPc[p] = "committing"
        PROVE  db'[1].has # "empty" \/ \E p \in Openers : openPc'[p] = "committing"
    BY <2>3 DEF OnlyMoves
  <2> QED
    BY <2>1, <2>2, <2>3 DEF AtPeace, Holding
<1> QED
  BY <1>1

(* A step that leaves files and sidecars alone. *)
LEMMA PeaceGoes ==
    ASSUME Peaceful, NEW o \in Openers, NEW pc, OpenGoto(o, pc), UNCHANGED <<store, side, db>>,
           \A w \in Openers \ {o} :
             /\ openFd'[w] = openFd[w] /\ openConn'[w] = openConn[w]
             /\ openState'[w] = openState[w] /\ openAlone'[w] = openAlone[w]
             /\ openReader'[w] = openReader[w] /\ openNew'[w] = openNew[w],
           openPc[o] # "committing",
           openPc'[o] = pc => AtPeace(o)'
    PROVE  SidecarsCalm' /\ \A w \in Openers : AtPeace(w)'
<1>1. openPc'[o] = pc /\ \A w \in Openers \ {o} : openPc'[w] = openPc[w]
  BY DEF Peaceful, StoreInv, StoreTypes, OpenGoto
<1>2. OnlyMoves(o)
  BY <1>1 DEF OnlyMoves
<1>3. SidecarsCalm'
  BY <1>1 DEF Peaceful, SidecarsCalm
<1> QED
  BY <1>1, <1>2, <1>3, PeaceMoves

LEMMA PeaceBefore ==
    ASSUME Peaceful, NEW o \in Openers,
           OpenDirectory(o) \/ PrepareDatabase(o) \/ LookForSidecars(o) \/ AwaitLock(o)
    PROVE  SidecarsCalm' /\ \A w \in Openers : AtPeace(w)'
<1>1. /\ StoreTypes /\ storeDir # "public" /\ (dbName # NoDb => db[dbName].has # "exposed")
      /\ dbName \in {NoDb, 1} /\ AtPeace(o) /\ store' = store /\ store \in {"project", "vectors"}
      /\ db[1].has \in {"empty", "v1", "current"} /\ openPc[o] # "committing"
  BY DEF Peaceful, StoreInv, StoreTypes, Health, OpenDirectory, PrepareDatabase, LookForSidecars, AwaitLock, OpenStep
<1>2. CASE OpenDirectory(o)
  <2>1. OpenGoto(o, "prepare") /\ UNCHANGED <<side, db, openConn, thePins>>
    BY <1>1, <1>2 DEF OpenDirectory
  <2>2. openPc'[o] = "prepare" => AtPeace(o)'
    BY DEF AtPeace, Failures, Contention, Refusal, Prepared, Judged, Begun, Committed, Accepted, InTransaction
  <2> QED
    BY <1>1, <2>1, <2>2, PeaceGoes DEF thePins
<1>3. CASE PrepareDatabase(o)
  <2>1. /\ dbName' = IF dbName = NoDb THEN 1 ELSE dbName
        /\ openFd' = [openFd EXCEPT ![o] = dbName']
        /\ \E s \in Sizes(dbName') :
             /\ openState' = [openState EXCEPT ![o] = s]
             /\ openNew' = [openNew EXCEPT ![o] = s = "Empty"]
        /\ OpenGoto(o, IF store = "project" THEN "lock" ELSE "prepared")
        /\ UNCHANGED <<storeDir, db, side, initLock, openConn, openAlone, openReader>>
    BY <1>1, <1>3 DEF PrepareDatabase
  <2>2. dbName' = 1
    BY <1>1, <2>1
  <2>3. PICK s \in Sizes(1) :
          /\ openState' = [openState EXCEPT ![o] = s] /\ openNew' = [openNew EXCEPT ![o] = s = "Empty"]
    BY <2>1, <2>2
  <2>4. /\ openState'[o] = s
        /\ \A w \in Openers \ {o} : /\ openFd'[w] = openFd[w] /\ openState'[w] = openState[w]
                                    /\ openNew'[w] = openNew[w]
    BY <1>1, <2>1, <2>3 DEF StoreTypes
  <2>5. PICK pc \in {"lock", "prepared"} : OpenGoto(o, pc) /\ (pc = "prepared" => store = "vectors")
    BY <1>1, <2>1
  <2>6. s = "Existing" => db[1].has # "empty" \/ \E p \in Openers \ {o} : openPc[p] = "committing"
    BY <1>1, <2>3 DEF Sizes
  <2>7. \A p \in Openers \ {o} : openPc'[p] = openPc[p]
    BY <1>1, <2>5 DEF StoreTypes, OpenGoto
  <2>8. openPc'[o] = pc => AtPeace(o)'
    BY <1>1, <2>1, <2>4, <2>5, <2>6, <2>7 DEF AtPeace, Failures, Contention, Refusal
  <2> QED
    BY <1>1, <2>1, <2>4, <2>5, <2>8, PeaceGoes
<1>4. CASE LookForSidecars(o)
  <2>1. /\ openAlone' = [openAlone EXCEPT ![o] = side = "none"]
        /\ OpenGoto(o, IF openState[o] = "Existing" /\ side = "none" THEN "inspect early" ELSE "lock")
        /\ UNCHANGED <<storeDir, dbName, db, side, initLock, openFd, openConn, openState, openReader, openNew>>
        /\ openPc[o] = "prepared"
    BY <1>1, <1>4 DEF LookForSidecars, OpenStep
  <2>2. \A w \in Openers \ {o} : openAlone'[w] = openAlone[w]
    BY <1>1, <2>1 DEF StoreTypes
  <2>3. PICK pc \in {"lock", "inspect early"} :
          OpenGoto(o, pc) /\ (pc = "inspect early" => openState[o] = "Existing" /\ side = "none")
    BY <2>1
  <2>4. /\ store = "vectors"
        /\ openState[o] = "Existing" =>
             db[1].has # "empty" \/ \E p \in Openers \ {o} : openPc[p] = "committing"
    BY <1>1, <2>1 DEF AtPeace, Prepared
  <2>5. (\E p \in Openers : openPc[p] = "committing") => side = "journal"
    BY DEF Peaceful, AtPeace
  <2>6. \A p \in Openers \ {o} : openPc'[p] = openPc[p]
    BY <1>1, <2>3 DEF StoreTypes, OpenGoto
  <2>7. openPc'[o] = pc => AtPeace(o)'
    BY <1>1, <2>1, <2>3, <2>4, <2>5, <2>6 DEF AtPeace, Failures, Contention, Refusal
  <2> QED
    BY <1>1, <2>1, <2>2, <2>3, <2>7, PeaceGoes
<1>5. CASE AwaitLock(o)
  <2>1. openPc[o] = "lock" /\ UNCHANGED <<db, thePins>>
    BY <1>5 DEF AwaitLock, OpenStep, FailOpen
  <2>2. UNCHANGED <<openFd, openState, openAlone, openReader, openNew>>
    BY <2>1 DEF thePins
  <2>3. UNCHANGED side /\ \A w \in Openers \ {o} : openConn'[w] = openConn[w]
    BY <1>1, <1>5, <2>1 DEF AwaitLock, FailOpen, AfterDrop, Connected, InTransaction, StoreTypes
  <2>4. PICK pc \in {"coordinated", "busy"} : OpenGoto(o, pc)
    BY <1>5 DEF AwaitLock, FailOpen
  <2>5. \A p \in Openers \ {o} : openPc'[p] = openPc[p]
    BY <1>1, <2>4 DEF StoreTypes, OpenGoto
  <2>6. openState[o] = "Existing" =>
             db[1].has # "empty" \/ \E p \in Openers \ {o} : openPc[p] = "committing"
    BY <1>1, <2>1 DEF AtPeace, Prepared
  <2>7. openPc'[o] = pc => AtPeace(o)'
    BY <1>1, <2>1, <2>2, <2>3, <2>4, <2>5, <2>6 DEF AtPeace, Failures, Contention, Refusal
  <2> QED
    BY <1>1, <2>1, <2>2, <2>3, <2>4, <2>7, PeaceGoes
<1> QED
  BY <1>2, <1>3, <1>4, <1>5

(* An inspection in peace has nothing to read but a settled store. *)
LEMMA PeaceInspects ==
    ASSUME Peaceful, NEW o \in Openers, InspectEarly(o) \/ InspectLocked(o)
    PROVE  SidecarsCalm' /\ \A w \in Openers : AtPeace(w)'
<1>1. /\ StoreTypes /\ AtPeace(o) /\ store' = store /\ openPc[o] \in {"inspect early", "inspect"}
      /\ openPc[o] # "committing" /\ store \in {"project", "vectors"}
  BY DEF Peaceful, StoreInv, StoreTypes, InspectEarly, InspectLocked, OpenStep
<1>2. /\ dbName = 1 /\ Verdict(o) = "ok" /\ (store = "project" => db[1].journal = "delete")
      /\ db[1].has \in {"empty", "v1", "current"} /\ (store = "vectors" => db[1].has # "v1")
  BY <1>1, HealthyNames DEF Peaceful, Prepared, Health
<1>3. db[1].has # "empty" /\ \A p \in Openers : openPc[p] # "committing"
  <2>1. CASE openPc[o] = "inspect early"
    <3>1. db[1].has = "current"
      BY <1>1, <1>2, <2>1 DEF AtPeace
    <3>2. ASSUME NEW p \in Openers, openPc[p] = "committing" PROVE FALSE
      <4>1. openFd[p] = 1
        BY <3>2, HealthyNames DEF Peaceful, Prepared, Judged, Begun, InTransaction
      <4> QED
        BY <3>1, <3>2, <4>1 DEF Peaceful, StoreInv, Opener, Schema
    <3> QED
      BY <3>1, <3>2
  <2>2. CASE openPc[o] = "inspect"
    <3>1. \A p \in Openers : openPc[p] # "committing"
      BY <1>1, <2>2, HolderIsAlone DEF Holding
    <3> QED
      BY <1>1, <2>2, <3>1 DEF AtPeace, Prepared
  <2> QED
    BY <1>1, <2>1, <2>2
<1>4. Inspections(o) = {"ok"}
  <2>1. ~Unsettled(o)
    BY <1>3 DEF Unsettled, Peaceful, Calm
  <2>2. StructureOk(dbName) /\ Sound(o, dbName)
    BY <1>2, <1>3 DEF StructureOk, Sound
  <2> QED
    BY <1>2, <2>1, <2>2 DEF Inspections
<1>5. openPc[o] = "inspect" => ReaderKept(o)
  BY <1>1 DEF AtPeace, ReaderKept
<1>6. PICK pc \in {"lock", "connect"} :
        /\ OpenGoto(o, pc) /\ UNCHANGED <<storeDir, dbName, db, side, initLock, openConn, thePins>>
        /\ pc = "connect" => openPc[o] = "inspect"
  <2>1. CASE InspectEarly(o)
    BY <1>4, <2>1 DEF InspectEarly
  <2>2. CASE InspectLocked(o)
    BY <1>2, <1>4, <1>5, <2>2 DEF InspectLocked, OpenStep
  <2> QED
    BY <2>1, <2>2
<1>7. UNCHANGED <<openFd, openState, openAlone, openReader, openNew>>
  BY <1>6 DEF thePins
<1>8. openPc'[o] = pc => AtPeace(o)'
  BY <1>1, <1>3, <1>6, <1>7 DEF AtPeace, Failures, Contention, Refusal
<1> QED
  BY <1>1, <1>6, <1>7, <1>8, PeaceGoes


LEMMA PeaceConnects ==
    ASSUME Peaceful, NEW o \in Openers, ClassifySidecars(o) \/ Connect(o)
    PROVE  SidecarsCalm' /\ \A w \in Openers : AtPeace(w)'
<1>1. /\ StoreTypes /\ AtPeace(o) /\ store' = store /\ openPc[o] \in {"coordinated", "connect"}
      /\ store \in {"project", "vectors"}
  BY DEF Peaceful, StoreInv, StoreTypes, ClassifySidecars, Connect, OpenStep
<1>2. Verdict(o) = "ok"
  BY <1>1, HealthyNames DEF Peaceful, Prepared, Judged
<1>3. /\ side = "none" \/ (side = "reader" /\ store = "vectors")
      /\ \A w \in Openers : openPc[w] # "committing"
  BY <1>1, HolderIsAlone DEF Holding
<1>4. openState[o] = "Existing" => db[1].has # "empty"
  BY <1>1, <1>3 DEF AtPeace, Prepared, Judged
<1>5. CASE ClassifySidecars(o)
  <2>1. side \in Adoptable
    BY <1>3 DEF Adoptable
  <2>2. /\ openReader' = [openReader EXCEPT ![o] = side = "reader"]
        /\ OpenGoto(o, IF /\ openState[o] = "Existing"
                          /\ store = "project" \/ ~openAlone[o] \/ side = "reader"
                       THEN "inspect" ELSE "connect")
        /\ UNCHANGED <<storeDir, dbName, db, side, initLock, openFd, openConn, openState, openAlone, openNew>>
    BY <1>2, <1>5, <2>1 DEF ClassifySidecars
  <2>3. /\ openReader'[o] => side = "reader"
        /\ \A w \in Openers \ {o} : openReader'[w] = openReader[w]
    BY <1>1, <2>2 DEF StoreTypes
  <2>4. PICK pc \in {"inspect", "connect"} :
          OpenGoto(o, pc) /\ (pc = "inspect" => openState[o] = "Existing")
    BY <2>2
  <2>5. openPc'[o] = pc => AtPeace(o)'
    BY <1>1, <1>4, <2>2, <2>3, <2>4 DEF AtPeace, Failures, Contention, Refusal
  <2> QED
    BY <1>1, <1>3, <2>2, <2>3, <2>4, <2>5, PeaceGoes
<1>6. CASE Connect(o)
  <2>1. ReaderKept(o) /\ openPc[o] = "connect"
    BY <1>1, <1>6 DEF Connect, OpenStep, AtPeace, ReaderKept
  <2>2. /\ openConn' = [openConn EXCEPT ![o] = dbName] /\ OpenGoto(o, "connected")
        /\ UNCHANGED <<storeDir, dbName, db, side, initLock, thePins>>
    BY <1>2, <1>6, <2>1 DEF Connect
  <2>3. /\ UNCHANGED <<openFd, openState, openAlone, openReader, openNew>>
        /\ \A w \in Openers \ {o} : openConn'[w] = openConn[w]
    BY <1>1, <2>2 DEF thePins, StoreTypes
  <2>4. openPc'[o] = "connected" => AtPeace(o)'
    BY <1>1, <1>4, <2>1, <2>2, <2>3 DEF AtPeace, Failures, Contention, Refusal
  <2> QED
    BY <1>1, <1>3, <2>2, <2>3, <2>4, PeaceGoes
<1> QED
  BY <1>5, <1>6

LEMMA PeaceBegins ==
    ASSUME Peaceful, NEW o \in Openers, Begin(o) \/ RecheckSchema(o)
    PROVE  SidecarsCalm' /\ \A w \in Openers : AtPeace(w)'
<1>1. /\ StoreTypes /\ AtPeace(o) /\ store' = store /\ openPc[o] \in {"connected", "recheck"}
      /\ store \in {"project", "vectors"}
  BY DEF Peaceful, StoreInv, StoreTypes, Begin, RecheckSchema, OpenStep
<1>2. /\ Verdict(o) = "ok" /\ openConn[o] = 1 /\ db[1].has \in {"empty", "v1", "current"}
      /\ (store = "project" => db[1].journal = "delete")
  BY <1>1, HealthyNames DEF Peaceful, Prepared, Judged, Begun, InTransaction, Connected, Health
<1>3. /\ side = "none" \/ (side = "reader" /\ store = "vectors")
      /\ ~WriteLocked(o) /\ openPc[o] \in Holding
      /\ \A w \in Openers : openPc[w] # "committing"
  BY <1>1, HolderIsAlone DEF Holding
<1>4. openState[o] = "Existing" => db[1].has # "empty"
  BY <1>1, <1>3 DEF AtPeace, Prepared, Judged, Begun, InTransaction
<1>5. CASE Begin(o)
  <2>1. ReaderKept(o)
    BY <1>1, <1>5 DEF Begin, OpenStep, AtPeace, ReaderKept
  <2>2. /\ side' = IF db[1].journal = "wal" /\ side = "none" THEN "reader" ELSE side
        /\ OpenGoto(o, "recheck") /\ UNCHANGED <<storeDir, dbName, db, initLock, openConn, thePins>>
    BY <1>2, <1>3, <1>5, <2>1 DEF Begin
  <2>3. /\ UNCHANGED <<openFd, openState, openAlone, openReader, openNew>>
        /\ openPc'[o] = "recheck" /\ \A w \in Openers \ {o} : openPc'[w] = openPc[w]
    BY <1>1, <2>2 DEF thePins, StoreTypes, OpenGoto
  <2>4. OnlyMoves(o)
    BY <1>1, <2>2, <2>3 DEF OnlyMoves
  <2>5. SidecarsCalm'
    BY <1>1, <1>2, <1>3, <2>2 DEF SidecarsCalm
  <2>6. AtPeace(o)'
    BY <1>4, <2>2, <2>3 DEF AtPeace, Failures, Contention, Refusal
  <2> QED
    BY <1>1, <1>3, <2>2, <2>4, <2>5, <2>6, PeaceMoves
<1>6. CASE RecheckSchema(o) /\ db[1].has = "current"
  <2>1. OpenGoto(o, "post-commit") /\ UNCHANGED <<storeDir, dbName, db, side, initLock, openConn, thePins>>
    BY <1>2, <1>6 DEF RecheckSchema, StructureOk
  <2>2. UNCHANGED <<openFd, openState, openAlone, openReader, openNew>>
    BY <2>1 DEF thePins
  <2>3. openPc'[o] = "post-commit" => AtPeace(o)'
    BY <1>6, <2>1, <2>2 DEF AtPeace, Failures, Contention, Refusal
  <2> QED
    BY <1>1, <1>3, <2>1, <2>2, <2>3, PeaceGoes
<1>7. CASE RecheckSchema(o) /\ db[1].has # "current"
  <2>1. /\ side' = "journal" /\ OpenGoto(o, "committing")
        /\ openNew' = [openNew EXCEPT ![o] = TRUE]
        /\ UNCHANGED <<storeDir, dbName, db, initLock, openConn, openFd, openState, openAlone, openReader>>
    BY <1>2, <1>7 DEF RecheckSchema, StructureOk
  <2>2. /\ openPc'[o] = "committing" /\ \A w \in Openers \ {o} : openPc'[w] = openPc[w] /\ openNew'[w] = openNew[w]
    BY <1>1, <2>1 DEF StoreTypes, OpenGoto
  <2>3. OnlyMoves(o)
    BY <1>1, <2>1, <2>2 DEF OnlyMoves
  <2>4. SidecarsCalm'
    BY <2>1, <2>2 DEF SidecarsCalm
  <2>5. AtPeace(o)'
    BY <2>1, <2>2 DEF AtPeace, Failures, Contention, Refusal
  <2> QED
    BY <1>1, <1>3, <2>1, <2>3, <2>4, <2>5, PeaceMoves
<1> QED
  BY <1>5, <1>6, <1>7

LEMMA PeaceCommits ==
    ASSUME Peaceful, NEW o \in Openers, Commit(o) \/ ValidateCommitted(o)
    PROVE  SidecarsCalm' /\ \A w \in Openers : AtPeace(w)'
<1>1. /\ StoreTypes /\ AtPeace(o) /\ store' = store /\ openPc[o] \in {"committing", "post-commit"}
      /\ store \in {"project", "vectors"} /\ Schema(o)
  BY DEF Peaceful, StoreInv, StoreTypes, Opener, Commit, ValidateCommitted, OpenStep
<1>2. /\ openFd[o] = 1 /\ openConn[o] = 1 /\ db[1].has \in {"empty", "v1", "current"}
      /\ (store = "project" => db[1].journal = "delete")
  BY <1>1, HealthyNames DEF Peaceful, Prepared, Judged, Begun, Committed, InTransaction, Connected, Health
<1>3. CASE Commit(o)
  <2>1. /\ db' = [db EXCEPT ![1].has = "current"] /\ side' = "none"
        /\ OpenGoto(o, "post-commit") /\ UNCHANGED <<storeDir, dbName, initLock, openConn, thePins>>
    BY <1>2, <1>3 DEF Commit
  <2>2. /\ UNCHANGED <<openFd, openState, openAlone, openReader, openNew>>
        /\ openPc'[o] = "post-commit" /\ \A w \in Openers \ {o} : openPc'[w] = openPc[w]
    BY <1>1, <2>1 DEF thePins, StoreTypes, OpenGoto
  <2>3. db'[1].has = "current"
    BY <1>1, <2>1 DEF StoreTypes, DbFiles, Databases
  <2>4. OnlyMoves(o) /\ openPc[o] \in Holding
    BY <1>1, <2>1, <2>2 DEF OnlyMoves, Holding
  <2>5. SidecarsCalm'
    BY <2>1 DEF SidecarsCalm
  <2>6. AtPeace(o)'
    BY <2>2, <2>3 DEF AtPeace, Failures, Contention, Refusal
  <2> QED
    BY <2>3, <2>4, <2>5, <2>6, PeaceMoves
<1>4. CASE ValidateCommitted(o)
  <2>1. openPc[o] = "post-commit"
    BY <1>4 DEF ValidateCommitted, OpenStep
  <2>2. db[1].has = "current"
    BY <1>1, <1>2, <2>1 DEF Schema, Committed
  <2>3. /\ OpenGoto(o, IF store = "project" THEN "last check" ELSE "journal mode")
        /\ UNCHANGED <<storeDir, dbName, db, side, initLock, openConn, thePins>>
    BY <1>2, <1>4, <2>2 DEF ValidateCommitted, Sound, StructureOk
  <2>4. UNCHANGED <<openFd, openState, openAlone, openReader, openNew>>
    BY <2>3 DEF thePins
  <2>5. PICK pc \in {"last check", "journal mode"} :
          OpenGoto(o, pc) /\ (pc = "last check" => store = "project")
    BY <2>3
  <2>6. openPc'[o] = pc => AtPeace(o)'
    BY <1>1, <2>2, <2>3, <2>4, <2>5 DEF AtPeace, Failures, Contention, Refusal
  <2> QED
    BY <1>1, <2>1, <2>3, <2>4, <2>5, <2>6, PeaceGoes
<1> QED
  BY <1>3, <1>4

LEMMA PeaceEnds ==
    ASSUME Peaceful, NEW o \in Openers, EnableWal(o) \/ LastCheck(o)
    PROVE  SidecarsCalm' /\ \A w \in Openers : AtPeace(w)'
<1>1. /\ StoreTypes /\ AtPeace(o) /\ store' = store /\ openPc[o] \in {"journal mode", "last check"}
      /\ store \in {"project", "vectors"} /\ Schema(o)
  BY DEF Peaceful, StoreInv, StoreTypes, Opener, EnableWal, LastCheck, OpenStep
<1>2. Verdict(o) = "ok" /\ openConn[o] = 1 /\ openFd[o] = 1
  BY <1>1, HealthyNames DEF Peaceful, Prepared, Judged, Begun, Committed, Accepted, Connected
<1>3. /\ side = "none" \/ (side = "reader" /\ store = "vectors")
      /\ ~WriteLocked(o) /\ openPc[o] \in Holding
      /\ \A w \in Openers : openPc[w] # "committing"
  BY <1>1, HolderIsAlone DEF Holding
<1>4. db[1].has \in {"current", "damaged"}
  BY <1>1, <1>2 DEF Schema, Committed, Accepted
<1>5. CASE EnableWal(o)
  <2>1. /\ db' = [db EXCEPT ![1].journal = "wal"] /\ side' = IF side = "none" THEN "reader" ELSE side
        /\ OpenGoto(o, "last check") /\ UNCHANGED <<storeDir, dbName, initLock, openConn, thePins>>
        /\ openPc[o] = "journal mode"
    BY <1>2, <1>3, <1>5 DEF EnableWal, OpenStep
  <2>2. /\ UNCHANGED <<openFd, openState, openAlone, openReader, openNew>>
        /\ openPc'[o] = "last check" /\ \A w \in Openers \ {o} : openPc'[w] = openPc[w]
    BY <1>1, <2>1 DEF thePins, StoreTypes, OpenGoto
  <2>3. db'[1].has = db[1].has
    BY <1>1, <2>1 DEF StoreTypes, DbFiles, Databases
  <2>4. OnlyMoves(o) /\ store = "vectors" /\ side' = "reader"
    BY <1>1, <1>3, <2>1, <2>2 DEF OnlyMoves, Schema
  <2>5. SidecarsCalm'
    BY <1>1, <2>4 DEF SidecarsCalm
  <2>6. AtPeace(o)'
    BY <1>4, <2>2, <2>3, <2>4 DEF AtPeace, Failures, Contention, Refusal
  <2> QED
    BY <1>3, <2>3, <2>4, <2>5, <2>6, PeaceMoves
<1>6. CASE LastCheck(o)
  <2>1. openPc[o] = "last check"
    BY <1>6 DEF LastCheck, OpenStep
  <2>2. side \in IF store = "project" THEN {"none"} ELSE {"reader", "wal"}
    BY <1>1, <1>3, <2>1 DEF AtPeace
  <2>3. OpenGoto(o, "open") /\ UNCHANGED <<storeDir, dbName, db, side, openConn, thePins>>
    BY <1>2, <1>6, <2>2 DEF LastCheck
  <2>4. UNCHANGED <<openFd, openState, openAlone, openReader, openNew>>
    BY <2>3 DEF thePins
  <2>5. openPc'[o] = "open" => AtPeace(o)'
    BY <1>4, <2>3, <2>4 DEF AtPeace, Failures, Contention, Refusal
  <2> QED
    BY <1>1, <1>3, <2>3, <2>4, <2>5, PeaceGoes
<1> QED
  BY <1>5, <1>6

(* Peace lasts until somebody uses the store. *)
LEMMA PeaceNext ==
    ASSUME Peaceful, StoreOpenNext, storeTroubles' = storeTroubles, Calm'
    PROVE  SidecarsCalm' /\ \A w \in Openers : AtPeace(w)'
<1>1. storeTroubles \in Nat /\ DOMAIN openPc = Openers
  BY DEF Peaceful, StoreInv, StoreTypes
<1>2. /\ \A o \in Openers : ~CallFails(o) /\ ~Dies(o)
      /\ ~ForeignHand
  BY <1>1 DEF CallFails, Dies, ForeignHand, StoreTrouble
<1>3. ASSUME NEW o \in Openers, NEW pc \in {"writing", "used", "closing", "closed"}, OpenGoto(o, pc) PROVE FALSE
  BY <1>1, <1>3 DEF OpenGoto, Calm
<1>4. \A o \in Openers : ~StartWrite(o) /\ ~EndWrite(o) /\ ~CloseStore(o) /\ ~EndClose(o)
  <2>1. ASSUME NEW o \in Openers, CloseStore(o) PROVE FALSE
    <3>1. PICK pc \in {"closing", "closed"} : OpenGoto(o, pc)
      BY <2>1 DEF CloseStore
    <3> QED
      BY <1>3, <3>1
  <2> QED
    BY <1>3, <2>1 DEF StartWrite, EndWrite, EndClose
<1> QED
  BY <1>2, <1>4, PeaceBefore, PeaceInspects, PeaceConnects, PeaceBegins, PeaceCommits, PeaceEnds
     DEF StoreOpenNext

(* Who has used the store has, as long as nobody dies. *)
LEMMA UseIsSeen ==
    ASSUME StoreInv, StoreOpenNext, storeTroubles' = storeTroubles, Calm' PROVE Calm
<1>1. storeTroubles \in Nat /\ DOMAIN openPc = Openers
  BY DEF StoreInv, StoreTypes
<1> DEFINE Used == {"writing", "used", "closing", "closed"}
<1> SUFFICES ASSUME NEW w \in Openers, openPc[w] \in Used PROVE FALSE
  BY DEF Calm
<1>2. openPc'[w] \notin Used
  BY DEF Calm
<1>3. ASSUME NEW o \in Openers, NEW pc, OpenGoto(o, pc), pc \in Used \/ openPc[o] \notin Used PROVE FALSE
  BY <1>1, <1>2, <1>3 DEF OpenGoto
<1>4. ASSUME NEW o \in Openers, openPc[o] \notin Used PROVE openPc' # openPc /\ \A pc : ~OpenGoto(o, pc)
  BY <1>2, <1>3, <1>4
<1>5. ASSUME NEW o \in Openers, OpenDirectory(o) \/ PrepareDatabase(o) \/ LookForSidecars(o) \/ InspectEarly(o)
      PROVE FALSE
  BY <1>4, <1>5 DEF OpenDirectory, PrepareDatabase, LookForSidecars, InspectEarly, OpenStep, FailOpen
<1>6. ASSUME NEW o \in Openers, AwaitLock(o) \/ ClassifySidecars(o) \/ InspectLocked(o) \/ Connect(o) PROVE FALSE
  BY <1>4, <1>6 DEF AwaitLock, ClassifySidecars, InspectLocked, Connect, OpenStep, FailOpen
<1>7. ASSUME NEW o \in Openers, Begin(o) \/ RecheckSchema(o) \/ Commit(o) PROVE FALSE
  BY <1>4, <1>7 DEF Begin, RecheckSchema, Commit, OpenStep, FailOpen
<1>8. ASSUME NEW o \in Openers, ValidateCommitted(o) \/ EnableWal(o) \/ LastCheck(o) PROVE FALSE
  BY <1>4, <1>8 DEF ValidateCommitted, EnableWal, LastCheck, OpenStep, FailOpen
<1>9. ASSUME NEW o \in Openers, StartWrite(o) \/ EndWrite(o) \/ EndClose(o) PROVE FALSE
  BY <1>3, <1>9 DEF StartWrite, EndWrite, EndClose
<1>10. ASSUME NEW o \in Openers, CloseStore(o) PROVE FALSE
  <2>1. PICK pc \in {"closing", "closed"} : OpenGoto(o, pc)
    BY <1>10 DEF CloseStore
  <2> QED
    BY <1>3, <2>1
<1>11. /\ \A o \in Openers : ~CallFails(o) /\ ~Dies(o)
       /\ ~ForeignHand
  BY <1>1 DEF CallFails, Dies, ForeignHand, StoreTrouble
<1> QED
  BY <1>5, <1>6, <1>7, <1>8, <1>9, <1>10, <1>11 DEF StoreOpenNext

(* Troubles are counted, and what was healthy at first is not forgotten. *)
LEMMA TroublesAreCounted ==
    ASSUME StoreInv, StoreOpenNext
    PROVE  healthy' = healthy /\ (storeTroubles' = 0 => storeTroubles' = storeTroubles)
<1>1. storeTroubles \in Nat
  BY DEF StoreInv, StoreTypes
<1>2. ASSUME NEW o \in Openers, NEW pc, OpenStep(o, pc)
      PROVE  healthy' = healthy /\ storeTroubles' = storeTroubles
  BY <1>2 DEF OpenStep
<1>3. ASSUME NEW o \in Openers, OpenDirectory(o) \/ PrepareDatabase(o) \/ LookForSidecars(o) \/ InspectEarly(o)
                \/ AwaitLock(o) \/ ClassifySidecars(o) \/ InspectLocked(o) \/ Connect(o) \/ Begin(o)
      PROVE  healthy' = healthy /\ storeTroubles' = storeTroubles
  BY <1>2, <1>3 DEF OpenDirectory, PrepareDatabase, LookForSidecars, InspectEarly, AwaitLock, ClassifySidecars,
                    InspectLocked, Connect, Begin
<1>4. ASSUME NEW o \in Openers, RecheckSchema(o) \/ Commit(o) \/ ValidateCommitted(o) \/ EnableWal(o) \/ LastCheck(o)
                \/ StartWrite(o) \/ EndWrite(o) \/ CloseStore(o) \/ EndClose(o)
      PROVE  healthy' = healthy /\ storeTroubles' = storeTroubles
  BY <1>2, <1>4 DEF RecheckSchema, Commit, ValidateCommitted, EnableWal, LastCheck, StartWrite, EndWrite,
                    CloseStore, EndClose
<1>5. ASSUME ForeignHand \/ \E o \in Openers : CallFails(o) \/ Dies(o)
      PROVE  healthy' = healthy /\ storeTroubles' # 0
  BY <1>1, <1>5 DEF ForeignHand, CallFails, Dies, StoreTrouble
<1> QED
  BY <1>3, <1>4, <1>5 DEF StoreOpenNext

LEMMA ClashNext == ClashInv /\ [StoreOpenNext]_openVars => ClashInv'
<1> SUFFICES ASSUME ClashInv, [StoreOpenNext]_openVars PROVE ClashInv'
  OBVIOUS
<1>1. StoreInv' /\ LockHeld'
  BY StoreNext, LockNext DEF ClashInv
<1>2. CASE UNCHANGED openVars
  <2>1. /\ Health' = Health /\ Calm' = Calm /\ SidecarsCalm' = SidecarsCalm
        /\ \A o \in Openers : AtPeace(o)' = AtPeace(o)
    BY <1>2 DEF openVars, Health, Calm, SidecarsCalm, AtPeace
  <2>2. healthy' = healthy /\ storeTroubles' = storeTroubles
    BY <1>2 DEF openVars
  <2> QED
    BY <1>1, <2>1, <2>2 DEF ClashInv
<1>3. CASE StoreOpenNext
  <2>1. healthy' = healthy /\ (storeTroubles' = 0 => storeTroubles' = storeTroubles)
    BY <1>3, TroublesAreCounted DEF ClashInv
  <2>2. ASSUME healthy', storeTroubles' = 0 PROVE Health'
    BY <1>3, <2>1, <2>2, HealthNext DEF ClashInv
  <2>3. ASSUME healthy', storeTroubles' = 0, Calm' PROVE SidecarsCalm' /\ \A o \in Openers : AtPeace(o)'
    <3>1. Calm
      BY <1>3, <2>1, <2>3, UseIsSeen DEF ClashInv
    <3>2. Peaceful
      BY <2>1, <2>3, <3>1 DEF ClashInv, Peaceful
    <3> QED
      BY <1>3, <2>1, <2>3, <3>2, PeaceNext
  <2> QED
    BY <1>1, <2>2, <2>3 DEF ClashInv
<1> QED
  BY <1>2, <1>3

(* Racing openers of a healthy store do not fail each other, however many  *)
(* they are: without troubles and until somebody uses what it opened, an   *)
(* opener fails by the timeout of the coordination lock only, and after    *)
(* that as contention or by a torn inspection.                             *)
THEOREM RacingOpenersDoNotClash == StoreOpenSpec => []OpenersDoNotClash
<1>1. StoreOpenInit => ClashInv
  BY ClashInit
<1>2. ClashInv /\ [StoreOpenNext]_openVars => ClashInv'
  BY ClashNext
<1>3. ClashInv => OpenersDoNotClash
  <2> SUFFICES ASSUME ClashInv, NEW o \in Openers, healthy, storeTroubles = 0,
                      openPc[o] \in (Contention \cup Refusal \cup {"unavailable"}) \ {"busy"}
               PROVE  /\ \E p \in Openers \ {o} : openPc[p] \in {"writing", "used", "closing", "closed"}
                      /\ openPc[o] \in Contention \cup {"refused"}
    BY DEF OpenersDoNotClash
  <2>1. openPc[o] \notin Hard
    BY DEF ClashInv, Health
  <2>2. openPc[o] \in Contention \cup {"refused"}
    BY <2>1 DEF Hard, Refusal
  <2>3. ~Calm
    BY DEF ClashInv, AtPeace, Failures
  <2>4. PICK p \in Openers : openPc[p] \in {"writing", "used", "closing", "closed"}
    BY <2>3 DEF Calm
  <2>5. p # o
    BY <2>2, <2>4 DEF Contention
  <2> QED
    BY <2>2, <2>4, <2>5
<1> QED
  BY <1>1, <1>2, <1>3, PTL DEF StoreOpenSpec


=============================================================================
