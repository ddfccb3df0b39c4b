---------------------------- MODULE ThreadsProofs ----------------------------
(***************************************************************************)
(* Two places where threads share memory: the counts of the log pipe, read *)
(* field by field while the reader runs, for any pipe and any limit; and   *)
(* the lock of cros_async for any number of tasks: a writer is alone, the  *)
(* word counts its holders, and the spin lock has one owner.               *)
(***************************************************************************)
EXTENDS AsyncRwLock, LogThread, TLAPS

\* A leaf may take longer than the default.
USE SMTT(60), ZenonT(60)

-----------------------------------------------------------------------------
(* The pipe log: what finish() read adds up, although it reads field by field. *)

\* What the reader took out of the pipe is in its hands or counted; what it counted as kept
\* is in the file.
ReaderInv ==
    /\ written = pipe + data + log.kept + log.dropped
    /\ logReader \notin {"write", "count"} => data = 0
    /\ log.eof => pipe = 0 /\ ~child
    /\ ~log.error => file = log.kept

\* The fields that finish() has read are the first ones.
OrderInv ==
    /\ \A i \in 1..Len(logTodo) : logTodo[i] = Log!Fields[7 - Len(logTodo) + i]
    /\ receipt # <<>> \/ logTodo # <<>> =>
          /\ parent # "open"
          /\ DOMAIN receipt = {Log!Fields[i] : i \in 1 .. 7 - Len(logTodo)}

\* finish() has read the field.
Has(f) == f \in DOMAIN receipt

\* A field read after the reader was seen gone is the field there is.
FieldsInv ==
    /\ Has("eof") => receipt["eof"] \in BOOLEAN /\ (receipt["eof"] => log.eof)
    /\ Has("reader_alive") => receipt["reader_alive"] \in BOOLEAN
    /\ Has("reader_alive") /\ ~receipt["reader_alive"] =>
          /\ logReader = "done"
          /\ Has("kept") => receipt["kept"] = log.kept
          /\ Has("dropped") => receipt["dropped"] = log.dropped
          /\ Has("error") => receipt["error"] = log.error

\* The inductive invariant of the pipe log.
LogIInv == Log!TypeOK /\ ReaderInv /\ OrderInv /\ FieldsInv

LogType == [eof : BOOLEAN, finished : BOOLEAN, kept : 0..Limit, dropped : 0..MaxWritten,
            error : BOOLEAN]

\* The fields in the order in which finish() reads them.
LEMMA FieldFacts ==
  /\ Log!Fields \in Seq(Log!FieldNames) /\ Len(Log!Fields) = 7
  /\ \A i \in 1..7 : Log!Fields[i] \in Log!FieldNames
  /\ Log!Fields[1] = "eof" /\ Log!Fields[2] = "finished" /\ Log!Fields[3] = "reader_alive"
  /\ Log!Fields[4] = "kept"
  /\ Log!Fields[5] = "dropped" /\ Log!Fields[6] = "error" /\ Log!Fields[7] = "write_close_unknown"
<1>1. Len(Log!Fields) = 7 /\ DOMAIN Log!Fields = 1..7
  BY DEF Log!Fields
<1>2. \A i \in 1..7 : Log!Fields[i] \in Log!FieldNames
  BY <1>1 DEF Log!FieldNames
<1>3. Log!Fields \in Seq({"eof", "finished", "reader_alive", "kept", "dropped", "error",
                          "write_close_unknown"})
  BY DEF Log!Fields
<1>4. Log!Fields \in Seq(Log!FieldNames)
  <2> DEFINE R == Log!FieldNames
  <2>1. Log!Fields = [i \in 1..7 |-> Log!Fields[i]]
    BY <1>1 DEF Log!Fields
  <2>2. \A i \in 1..7 : Log!Fields[i] \in R
    BY <1>2
  <2> HIDE DEF R
  <2>3. [i \in 1..7 |-> Log!Fields[i]] \in Seq(R)
    BY <2>2
  <2> QED BY <2>1, <2>3 DEF R
<1> QED BY <1>1, <1>2, <1>4 DEF Log!Fields

\* A read takes bytes out of the pipe, sees its end, or fails.
LEMMA ReadStep == ASSUME LogIInv, Log!Read PROVE Log!TypeOK' /\ ReaderInv'
<1>1. CASE \E n \in 1..pipe :
             /\ pipe' = pipe - n /\ data' = n
             /\ logReader' = "write" /\ UNCHANGED log
  <2>1. PICK n \in 1..pipe : pipe' = pipe - n /\ data' = n /\ logReader' = "write" /\ UNCHANGED log
    BY <1>1
  <2>2. /\ pipe \in Nat /\ n \in Nat /\ data = 0 /\ ~log.eof /\ n <= PipeCapacity
        /\ pipe' \in 0..PipeCapacity
    BY <2>1, SizesAssumption DEF LogIInv, Log!TypeOK, ReaderInv, Log!Read
  <2>3. written' = pipe' + data' + log.kept + log.dropped
    BY <2>1, <2>2, SizesAssumption DEF LogIInv, Log!TypeOK, ReaderInv, Log!Read
  <2>4. Log!TypeOK'
    BY <2>1, <2>2, SizesAssumption DEF LogIInv, Log!TypeOK, Log!Read
  <2> QED BY <2>1, <2>2, <2>3, <2>4 DEF LogIInv, ReaderInv, Log!Read
<1>2. CASE /\ pipe = 0 /\ ~child /\ log' = [log EXCEPT !.eof = TRUE]
           /\ logReader' = "close" /\ UNCHANGED <<pipe, data>>
  <2>1. /\ log' \in LogType /\ log'.kept = log.kept /\ log'.dropped = log.dropped
        /\ (log'.error <=> log.error)
    BY <1>2, Zenon DEF LogIInv, Log!TypeOK, LogType
  <2>2. Log!TypeOK'
    BY <1>2, <2>1 DEF LogIInv, Log!TypeOK, LogType, Log!Read
  <2> QED BY <1>2, <2>1, <2>2 DEF LogIInv, ReaderInv, Log!Read
<1>3. CASE log' = Log!Fault /\ logReader' = "close" /\ UNCHANGED <<pipe, data>>
  <2>1. /\ log' \in LogType /\ log'.kept = log.kept /\ log'.dropped = log.dropped /\ log'.error
        /\ (log'.eof <=> log.eof)
    BY <1>3, Zenon DEF LogIInv, Log!TypeOK, LogType, Log!Fault
  <2>2. Log!TypeOK'
    BY <1>3, <2>1 DEF LogIInv, Log!TypeOK, LogType, Log!Read
  <2> QED BY <1>3, <2>1, <2>2 DEF LogIInv, ReaderInv, Log!Read
<1> QED BY <1>1, <1>2, <1>3 DEF Log!Read

\* What goes into the file fits, and nothing goes into it after an error.
LEMMA RoomFits ==
  ASSUME LogIInv
  PROVE  /\ Log!Room \in Nat /\ Log!Room <= data /\ log.kept + Log!Room <= Limit
         /\ Log!Room > 0 => ~log.error /\ file = log.kept
BY SizesAssumption DEF LogIInv, Log!TypeOK, ReaderInv, Log!Room, Log!Least

\* file.write: what it kept is in the file, in part when it failed.
LEMMA RecordStep == ASSUME LogIInv, Log!Record PROVE Log!TypeOK' /\ ReaderInv'
<1> DEFINE r == Log!Room
<1>1. r \in Nat /\ r <= data /\ log.kept + r <= Limit /\ (r > 0 => ~log.error /\ file = log.kept)
  BY RoomFits
<1>2. CASE file' = file + r /\ log' = [log EXCEPT !.kept = @ + r] /\ data' = data - r
  <2> HIDE DEF r
  <2>1. log \in LogType
    BY DEF LogIInv, Log!TypeOK, LogType
  <2>2. /\ log.kept \in Nat /\ log.kept + r \in 0..Limit /\ file + r \in 0..Limit
        /\ data - r \in 0..PipeCapacity
    BY <1>1, <2>1, SizesAssumption DEF LogIInv, Log!TypeOK, LogType
  <2>3. /\ log' \in LogType /\ log'.kept = log.kept + r /\ log'.dropped = log.dropped
        /\ (log'.error <=> log.error) /\ (log'.eof <=> log.eof)
    BY <1>2, <2>1, <2>2 DEF LogType
  <2>4. Log!TypeOK'
    BY <1>2, <2>2, <2>3 DEF LogIInv, Log!TypeOK, LogType, Log!Record
  <2>5. written' = pipe' + data' + log'.kept + log'.dropped
    BY <1>1, <1>2, <2>1, <2>2, <2>3 DEF LogIInv, Log!TypeOK, LogType, ReaderInv, Log!Record
  <2>6. ~log'.error => file' = log'.kept
    BY <1>2, <2>3 DEF LogIInv, ReaderInv
  <2> QED BY <1>2, <2>3, <2>4, <2>5, <2>6 DEF LogIInv, ReaderInv, Log!Record
<1>3. CASE /\ r > 0 /\ \E n \in 0..r : file' = file + n
           /\ log' = Log!Fault /\ UNCHANGED data
  <2> HIDE DEF r
  <2>1. file' \in 0..Limit
    BY <1>1, <1>3, SizesAssumption DEF LogIInv, Log!TypeOK
  <2>2. /\ log' \in LogType /\ log'.kept = log.kept /\ log'.dropped = log.dropped /\ log'.error
        /\ (log'.eof <=> log.eof)
    BY <1>3, Zenon DEF LogIInv, Log!TypeOK, LogType, Log!Fault
  <2>3. Log!TypeOK'
    BY <1>3, <2>1, <2>2 DEF LogIInv, Log!TypeOK, LogType, Log!Record
  <2> QED BY <1>3, <2>2, <2>3 DEF LogIInv, ReaderInv, Log!Record
<1> QED BY <1>2, <1>3 DEF Log!Record

\* The rest of what was read is counted as dropped.
LEMMA CountStep == ASSUME LogIInv, Log!Count PROVE Log!TypeOK' /\ ReaderInv'
<1>1. log \in LogType
  BY DEF LogIInv, Log!TypeOK, LogType
<1>2. log.dropped + data \in 0..MaxWritten
  BY <1>1, SizesAssumption DEF LogIInv, Log!TypeOK, LogType, ReaderInv
<1>3. /\ log' \in LogType /\ log'.kept = log.kept /\ log'.dropped = log.dropped + data
      /\ (log'.error <=> log.error) /\ (log'.eof <=> log.eof)
  BY <1>1, <1>2 DEF LogType, Log!Count
<1>4. Log!TypeOK'
  BY <1>3, SizesAssumption DEF LogIInv, Log!TypeOK, LogType, Log!Count
<1>5. written' = pipe' + data' + log'.kept + log'.dropped
  BY <1>1, <1>3, SizesAssumption DEF LogIInv, Log!TypeOK, LogType, ReaderInv, Log!Count
<1> QED BY <1>3, <1>4, <1>5 DEF LogIInv, ReaderInv, Log!Count

\* The steps that change at most the flags of the log.
LEMMA FlagStep ==
  ASSUME LogIInv, Log!Close \/ Log!Finished \/ Log!Return \/ Log!Sent
  PROVE  Log!TypeOK' /\ ReaderInv'
<1>1. log \in LogType
  BY DEF LogIInv, Log!TypeOK, LogType
<1>2. /\ log' \in LogType /\ log'.kept = log.kept /\ log'.dropped = log.dropped
      /\ (log.error => log'.error) /\ (log'.eof <=> log.eof)
  BY <1>1, Zenon DEF LogType, Log!Fault, Log!Close, Log!Finished, Log!Return, Log!Sent
<1>3. UNCHANGED <<written, pipe, child, file, data, logTodo>>
  BY DEF Log!Close, Log!Finished, Log!Return, Log!Sent
<1>4. /\ logReader' \in {"close_file", "finish", "return", "done", logReader}
      /\ parent' \in {"closed", "unclosed", "lost", parent}
  BY DEF Log!Close, Log!Finished, Log!Return, Log!Sent
<1>5. logReader \in {"write", "count"} => logReader' = logReader
  BY DEF Log!Close, Log!Finished, Log!Return, Log!Sent
<1>6. logReader' \notin {"write", "count"} => logReader \notin {"write", "count"}
  BY <1>5
<1>7. Log!TypeOK'
  BY <1>2, <1>3, <1>4 DEF LogIInv, Log!TypeOK, LogType
<1> QED BY <1>2, <1>3, <1>6, <1>7 DEF LogIInv, ReaderInv

\* The processes write into the pipe until they exit.
LEMMA ProcessStep == ASSUME LogIInv, Log!Write \/ Log!ChildrenExit PROVE Log!TypeOK' /\ ReaderInv'
<1>1. log \in LogType
  BY DEF LogIInv, Log!TypeOK, LogType
<1>2. Log!TypeOK'
  <2>1. UNCHANGED <<parent, file, logReader, data, log, logTodo>> /\ child' \in BOOLEAN
    BY Zenon DEF LogIInv, Log!TypeOK, Log!Write, Log!ChildrenExit
  <2>2. written' \in 0..MaxWritten /\ pipe' \in 0..PipeCapacity
    BY SizesAssumption DEF LogIInv, Log!TypeOK, Log!Write, Log!ChildrenExit
  <2> QED BY <2>1, <2>2 DEF LogIInv, Log!TypeOK
<1>3. CASE Log!Write
  <2>1. ~log.eof
    BY <1>3 DEF LogIInv, ReaderInv, Log!Write
  <2>2. written' = pipe' + data' + log'.kept + log'.dropped
    BY <1>1, <1>3, SizesAssumption DEF LogIInv, Log!TypeOK, LogType, ReaderInv, Log!Write
  <2> QED BY <1>2, <1>3, <2>1, <2>2 DEF LogIInv, ReaderInv, Log!Write
<1>4. CASE Log!ChildrenExit
  BY <1>2, <1>4 DEF LogIInv, ReaderInv, Log!ChildrenExit
<1> QED BY <1>3, <1>4

\* A step beside finish(): nothing has been read while the write end is open, and a
\* reader seen gone does nothing any more.
LEMMA BesideFinish ==
  ASSUME LogIInv, Log!Write \/ Log!ChildrenExit \/ Log!Reader \/ Log!Sent
  PROVE  OrderInv' /\ FieldsInv'
<1>1. log \in LogType
  BY DEF LogIInv, Log!TypeOK, LogType
<1>2. UNCHANGED <<logTodo, receipt>> /\ (parent # "open" => parent' = parent)
  BY DEF Log!Write, Log!ChildrenExit, Log!Reader, Log!Sent, Log!Read, Log!Record, Log!Count,
     Log!Close, Log!Finished, Log!Return
<1>3. OrderInv'
  BY <1>2 DEF LogIInv, OrderInv
<1>4. log.eof => log'.eof
  BY <1>1 DEF LogType, Log!Fault, Log!Write, Log!ChildrenExit, Log!Reader, Log!Sent, Log!Read,
     Log!Record, Log!Count, Log!Close, Log!Finished, Log!Return
<1>5. logReader = "done" => logReader' = "done" /\ (log' = log \/ Log!Sent)
  BY DEF Log!Write, Log!ChildrenExit, Log!Reader, Log!Sent, Log!Read, Log!Record, Log!Count,
     Log!Close, Log!Finished, Log!Return
<1>6. Log!Sent => ~Has("reader_alive")
  BY DEF Log!Sent, LogIInv, OrderInv, Has
<1>7. FieldsInv'
  BY <1>2, <1>4, <1>5, <1>6 DEF LogIInv, FieldsInv, Has
<1> QED BY <1>3, <1>7

\* finish() starts again with no field read.
LEMMA FinishStep == ASSUME LogIInv, Log!Finish PROVE LogIInv'
<1>1. Log!TypeOK'
  BY FieldFacts DEF LogIInv, Log!TypeOK, Log!Finish
<1>2. ReaderInv'
  BY DEF LogIInv, ReaderInv, Log!Finish
<1>3. DOMAIN receipt' = {} /\ logTodo' = Log!Fields /\ parent' # "open"
  BY DEF Log!Finish
<1>4. {Log!Fields[i] : i \in 1..(7 - 7)} = {}
  OBVIOUS
<1>5. OrderInv'
  BY <1>3, <1>4, FieldFacts DEF OrderInv
<1>6. FieldsInv'
  BY <1>3 DEF FieldsInv, Has
<1> QED BY <1>1, <1>2, <1>5, <1>6 DEF LogIInv

\* The place of the field that finish() reads next, of the seven.
LEMMA LastOfInterval == \A m \in 1..7 : 1..(8 - m) = (1..(7 - m)) \cup {8 - m}
OBVIOUS

\* finish() reads the next field.
LEMMA ReadFieldStep == ASSUME LogIInv, Log!ReadField PROVE LogIInv'
<1> DEFINE m == Len(logTodo)
<1>1. /\ logTodo # <<>> /\ m \in 1..7
      /\ Head(logTodo) = Log!Fields[8 - m]
      /\ logTodo' \in Seq(Log!FieldNames) /\ Len(logTodo') = m - 1
      /\ \A i \in 1..(m - 1) : logTodo'[i] = logTodo[i + 1]
  <2> DEFINE R == Log!FieldNames
  <2>1. logTodo \in Seq(R) /\ m <= 7 /\ logTodo # <<>> /\ logTodo' = Tail(logTodo)
    BY FieldFacts DEF Log!ReadField, LogIInv, Log!TypeOK
  <2>2. \A i \in 1..m : logTodo[i] = Log!Fields[7 - m + i]
    BY DEF LogIInv, OrderInv
  <2> HIDE DEF R
  <2>3. m \in 1..7 /\ Head(logTodo) = logTodo[1]
    <3>1. m \in Nat \ {0}
      BY <2>1
    <3>2. Head(logTodo) = logTodo[1]
      OBVIOUS
    <3>3. m <= 7
      BY <2>1
    <3> HIDE DEF m
    <3>4. m \in 1..7
      BY <3>1, <3>3
    <3> QED BY <3>2, <3>4
  <2>4. /\ logTodo' \in Seq(R) /\ Len(logTodo') = m - 1
        /\ \A i \in 1..(m - 1) : logTodo'[i] = logTodo[i + 1]
    BY <2>1, <2>3
  <2>5. logTodo[1] = Log!Fields[8 - m]
    BY <2>2, <2>3
  <2> QED BY <2>1, <2>3, <2>4, <2>5, Zenon DEF R
<1>2. Log!TypeOK'
  BY <1>1, FieldFacts DEF LogIInv, Log!TypeOK, Log!ReadField
<1>3. ReaderInv'
  BY DEF LogIInv, ReaderInv, Log!ReadField
<1>4. \A i \in 1..Len(logTodo') : logTodo'[i] = Log!Fields[7 - Len(logTodo') + i]
  BY <1>1 DEF LogIInv, OrderInv
<1>5. DOMAIN receipt = {Log!Fields[i] : i \in 1..(7 - m)} /\ parent # "open"
  BY <1>1 DEF LogIInv, OrderInv
<1>6. DOMAIN receipt' = DOMAIN receipt \cup {Log!Fields[8 - m]}
  BY <1>1 DEF Log!ReadField
<1>7. DOMAIN receipt' = {Log!Fields[i] : i \in 1..(7 - Len(logTodo'))}
  <2>1. m \in 1..7 /\ Len(logTodo') = m - 1
    BY <1>1, Zenon
  <2>2. 1..(8 - m) = (1..(7 - m)) \cup {8 - m}
    BY <2>1, LastOfInterval, Zenon
  <2>3. 7 - Len(logTodo') = 8 - m
    BY <2>1
  <2> QED BY <1>5, <1>6, <2>2, <2>3
<1>8. OrderInv'
  BY <1>4, <1>5, <1>7, Zenon DEF OrderInv, Log!ReadField
<1> DEFINE g == Log!Fields[8 - m]
<1>9. /\ \A f \in DOMAIN receipt : f # g => receipt'[f] = receipt[f]
      /\ receipt'[g] = Log!Value(g)
  BY <1>1 DEF Log!ReadField
<1>10. UNCHANGED <<logReader, log>> /\ log \in LogType
  BY DEF Log!ReadField, LogIInv, Log!TypeOK, LogType
<1>11. FieldsInv'
  <2>1. CASE m = 7
    <3>1. g = "eof" /\ DOMAIN receipt = {}
      BY <1>5, <2>1, FieldFacts
    <3> HIDE DEF g
    <3> QED BY <1>6, <1>9, <1>10, <2>1, <3>1 DEF LogIInv, FieldsInv, Has, Log!Value, LogType, g
  <2>2. CASE m = 6
    <3>1. g = "finished" /\ DOMAIN receipt = {"eof"}
      BY <1>5, <2>2, FieldFacts
    <3> HIDE DEF g
    <3> QED BY <1>6, <1>9, <1>10, <2>2, <3>1 DEF LogIInv, FieldsInv, Has, Log!Value, LogType, g
  <2>3. CASE m = 5
    <3>1. g = "reader_alive" /\ DOMAIN receipt = {"eof", "finished"}
      BY <1>5, <2>3, FieldFacts
    <3> HIDE DEF g
    <3> QED BY <1>6, <1>9, <1>10, <2>3, <3>1, Zenon DEF LogIInv, FieldsInv, Has, Log!Value, LogType, g
  <2>4. CASE m = 4
    <3>1. g = "kept" /\ DOMAIN receipt = {"eof", "finished", "reader_alive"}
      BY <1>5, <2>4, FieldFacts
    <3> HIDE DEF g
    <3> QED BY <1>6, <1>9, <1>10, <2>4, <3>1 DEF LogIInv, FieldsInv, Has, Log!Value, LogType, g
  <2>5. CASE m = 3
    <3>1. g = "dropped" /\ DOMAIN receipt = {"eof", "finished", "reader_alive", "kept"}
      BY <1>5, <2>5, FieldFacts
    <3> HIDE DEF g
    <3> QED BY <1>6, <1>9, <1>10, <2>5, <3>1 DEF LogIInv, FieldsInv, Has, Log!Value, LogType, g
  <2>6. CASE m = 2
    <3>1. g = "error" /\ DOMAIN receipt = {"eof", "finished", "reader_alive", "kept", "dropped"}
      BY <1>5, <2>6, FieldFacts
    <3> HIDE DEF g
    <3> QED BY <1>6, <1>9, <1>10, <2>6, <3>1 DEF LogIInv, FieldsInv, Has, Log!Value, LogType, g
  <2>7. CASE m = 1
    <3>1. /\ g = "write_close_unknown"
          /\ DOMAIN receipt = {"eof", "finished", "reader_alive", "kept", "dropped", "error"}
      BY <1>5, <2>7, FieldFacts
    <3> HIDE DEF g
    <3> QED BY <1>6, <1>9, <1>10, <2>7, <3>1 DEF LogIInv, FieldsInv, Has, Log!Value, LogType, g
  <2> QED BY <1>1, <2>1, <2>2, <2>3, <2>4, <2>5, <2>6, <2>7
<1> QED BY <1>2, <1>3, <1>8, <1>11 DEF LogIInv

\* Every step of the processes, the reader and the controller keeps the invariant.
LEMMA LogIInvStep == LogIInv /\ [Log!Next]_Log!vars => LogIInv'
<1> SUFFICES ASSUME LogIInv, [Log!Next]_Log!vars PROVE LogIInv'
  OBVIOUS
<1>1. CASE Log!Write \/ Log!ChildrenExit
  BY <1>1, ProcessStep, BesideFinish DEF LogIInv
<1>2. CASE Log!Reader
  BY <1>2, ReadStep, RecordStep, CountStep, FlagStep, BesideFinish DEF LogIInv, Log!Reader
<1>3. CASE Log!Sent
  BY <1>3, FlagStep, BesideFinish DEF LogIInv
<1>4. CASE Log!Finish \/ Log!ReadField
  BY <1>4, FinishStep, ReadFieldStep
<1>5. CASE UNCHANGED Log!vars
  BY <1>5 DEF Log!vars, LogIInv, Log!TypeOK, ReaderInv, OrderInv, FieldsInv, Has
<1> QED BY <1>1, <1>2, <1>3, <1>4, <1>5 DEF Log!Next, Log!Controller

\* A receipt under the invariant is true.
LEMMA ReceiptFollows == LogIInv => ReceiptIsTrue
<1> SUFFICES ASSUME LogIInv PROVE ReceiptIsTrue
  OBVIOUS
<1>1. Log!Complete => DOMAIN receipt = {Log!Fields[i] : i \in 1..7} /\ Len(logTodo) = 0
  BY DEF Log!Complete, LogIInv, OrderInv
<1>2. Log!Complete => Has("eof") /\ Has("reader_alive") /\ Has("kept") /\ Has("dropped") /\ Has("error")
  BY <1>1, FieldFacts DEF Has
<1>3. log \in LogType /\ written \in Nat /\ pipe \in Nat /\ file \in Nat
  BY SizesAssumption DEF LogIInv, Log!TypeOK, LogType
<1>4. ASSUME Log!Complete, receipt["reader_alive"] = FALSE
      PROVE  /\ logReader = "done" /\ data = 0
             /\ receipt["kept"] = log.kept /\ receipt["dropped"] = log.dropped
             /\ receipt["error"] = log.error
             /\ written = pipe + log.kept + log.dropped
  BY <1>2, <1>3, <1>4 DEF LogIInv, FieldsInv, ReaderInv, LogType
<1>5. Log!Complete => /\ receipt["reader_alive"] \in BOOLEAN /\ receipt["eof"] \in BOOLEAN
                      /\ receipt["eof"] => log.eof
  BY <1>2 DEF LogIInv, FieldsInv
<1>6. Log!CleanIsComplete
  <2> SUFFICES ASSUME Log!Clean PROVE file = written /\ pipe = 0 /\ ~child /\ logReader = "done"
    BY DEF Log!CleanIsComplete
  <2>1. /\ Log!Complete /\ receipt["reader_alive"] = FALSE /\ log.eof /\ receipt["dropped"] = 0
        /\ ~receipt["error"]
    BY <1>5 DEF Log!Clean
  <2>2. pipe = 0 /\ ~child /\ ~log.error /\ log.dropped = 0 /\ file = log.kept
    BY <1>4, <2>1, Zenon DEF LogIInv, ReaderInv
  <2>3. written = pipe + log.kept + log.dropped /\ logReader = "done"
    BY <1>4, <2>1, Zenon
  <2> QED BY <1>3, <2>2, <2>3 DEF LogType
<1>7. Log!ReceiptAddsUp
  <2> SUFFICES ASSUME Log!Complete, ~receipt["reader_alive"]
               PROVE  /\ receipt["kept"] + receipt["dropped"] = written - pipe
                      /\ receipt["kept"] <= Limit /\ (receipt["error"] \/ receipt["kept"] = file)
    BY DEF Log!ReceiptAddsUp
  <2>1. receipt["reader_alive"] = FALSE
    BY <1>5
  <2>2. /\ receipt["kept"] = log.kept /\ receipt["dropped"] = log.dropped
        /\ receipt["error"] = log.error
    BY <1>4, <2>1, Zenon
  <2>3. written = pipe + log.kept + log.dropped
    BY <1>4, <2>1, Zenon
  <2>4. log.kept + log.dropped = written - pipe /\ log.kept <= Limit
    BY <1>3, <2>3, SizesAssumption DEF LogType
  <2>5. log.error \/ log.kept = file
    BY DEF LogIInv, ReaderInv
  <2> QED BY <2>2, <2>5, <2>4
<1> QED BY <1>6, <1>7 DEF LogIInv, ReceiptIsTrue, Log!ReceiptIsTrue

\* PipeLog, for any pipe, any limit and any failing reads, writes and closes: a clean receipt
\* means that the file holds all that was written, and the counts of a reader that is gone
\* add up, although finish() reads the fields one by one while the reader runs.
THEOREM ReceiptStaysTrue == Log!Spec => []ReceiptIsTrue
<1>1. Log!Init => LogIInv
  <2> SUFFICES ASSUME Log!Init PROVE LogIInv
    OBVIOUS
  <2>1. Log!TypeOK
    BY SizesAssumption, FieldFacts DEF Log!Init, Log!TypeOK
  <2>2. ReaderInv
    BY DEF Log!Init, ReaderInv
  <2>3. logTodo = <<>> /\ receipt = <<>> /\ Len(logTodo) = 0 /\ DOMAIN receipt = {}
    BY DEF Log!Init
  <2>4. OrderInv
    BY <2>3 DEF OrderInv
  <2>5. FieldsInv
    BY <2>3 DEF FieldsInv, Has
  <2> QED BY <2>1, <2>2, <2>4, <2>5 DEF LogIInv
<1> QED BY <1>1, LogIInvStep, ReceiptFollows, PTL DEF Log!Spec

-----------------------------------------------------------------------------
(* The lock. *)

INSTANCE FiniteSetTheorems

Pcs == {"idle", "acquire", "queued", "wait", "held", "unlock", "cancel", "release", "waking"}

\* The functions the argument looks into, and the bits that no task clears or
\* sets by way of its locals.
Locals ==
    /\ pc \in [Threads -> Pcs] /\ kind \in [Threads -> Kinds]
    /\ clear \in [Threads -> SUBSET {"DESIGNATED_WAKER", "LONG_WAIT"}]
    /\ zero \in [Threads -> SUBSET (Bits \cup {"READERS"})]
    /\ set \in [Threads -> SUBSET {"WRITER_WAITING", "LONG_WAIT"}]
    /\ rel \in [Threads -> SUBSET (Bits \ {"LOCKED"})]

\* A task that is after the lock still looks at its holders.
LooksAtHolders ==
    \A t \in Threads : pc[t] \in {"acquire", "queued", "wait"} =>
        /\ "LOCKED" \in zero[t]
        /\ kind[t] = "Exclusive" => "READERS" \in zero[t]

Writes(t) == pc[t] = "held" /\ kind[t] = "Exclusive"

WriterIsAlone == \A t, u \in Threads : Writes(t) /\ pc[u] = "held" => t = u
WordShowsWriter == "LOCKED" \in bits <=> \E t \in Threads : Writes(t)
WordCountsReaders == readers = Cardinality(Holders("Shared"))

\* The strengthening of MutualExclusion that every step preserves.
LockInv ==
    /\ Locals /\ LooksAtHolders
    /\ WriterIsAlone /\ WordShowsWriter /\ WordCountsReaders

-----------------------------------------------------------------------------
\* Whatever tasks hold the lock, they can be counted.
LEMMA HoldersFinite ==
    ASSUME NEW k PROVE IsFiniteSet(Holders(k)) /\ Cardinality(Holders(k)) \in Nat
<1>1. Holders(k) \subseteq Threads
    BY DEF Holders
<1>2. IsFiniteSet(Threads)
    BY LockAssumption
<1> QED BY <1>1, <1>2, FS_Subset, FS_CardinalityType

\* A step of lock_slow, unlock or cancel_waiter that lets nobody in or out, and
\* leaves the holders' kinds, LOCKED and the count alone, keeps the exclusion.
LEMMA HoldersUnmoved ==
    ASSUME WriterIsAlone, WordShowsWriter, WordCountsReaders,
           \A t \in Threads : (pc'[t] = "held") <=> (pc[t] = "held"),
           \A t \in Threads : pc[t] = "held" => kind'[t] = kind[t],
           ("LOCKED" \in bits') <=> ("LOCKED" \in bits), readers' = readers
    PROVE  WriterIsAlone' /\ WordShowsWriter' /\ WordCountsReaders'
<1>1. \A t \in Threads : Writes(t)' <=> Writes(t)
    BY Zenon DEF Writes
<1>2. Holders("Shared")' = Holders("Shared")
    BY DEF Holders
<1>3. WriterIsAlone'
    BY <1>1 DEF WriterIsAlone
<1>4. WordShowsWriter'
    BY <1>1 DEF WordShowsWriter
<1>5. WordCountsReaders'
    BY <1>2 DEF WordCountsReaders
<1> QED BY <1>3, <1>4, <1>5

\* The strengthening gives what the run checks.
LEMMA LockInvSuffices == LockInv => MutualExclusion
<1> SUFFICES ASSUME LockInv PROVE MutualExclusion
    OBVIOUS
<1> USE DEF LockInv
<1>1. ASSUME Holders("Exclusive") # {}
      PROVE  Cardinality(Holders("Exclusive")) = 1 /\ Holders("Shared") = {}
    <2>1. PICK t \in Threads : Writes(t)
        BY <1>1 DEF Holders, Writes
    <2>2. Holders("Exclusive") = {t}
        BY <2>1 DEF Holders, Writes, WriterIsAlone
    <2>3. Cardinality({t}) = 1
        BY FS_Singleton, Zenon
    <2>4. Holders("Shared") = {}
        BY <2>1 DEF Holders, Writes, WriterIsAlone
    <2> QED BY <2>2, <2>3, <2>4
<1>2. ("LOCKED" \in bits) = (Holders("Exclusive") # {})
    BY DEF WordShowsWriter, Holders, Writes
<1> QED BY <1>1, <1>2 DEF MutualExclusion, WordCountsReaders

-----------------------------------------------------------------------------
\* Nobody holds a lock that has just been made.
LEMMA LockInvInit == Init => LockInv
<1> SUFFICES ASSUME Init PROVE LockInv
    OBVIOUS
<1>1. Holders("Shared") = {} /\ Cardinality({}) = 0
    BY FS_EmptySet DEF Init, Holders
<1>2. Locals
    BY DEF Init, Locals, Pcs, Kinds
<1> QED BY <1>1, <1>2, Zenon DEF LockInv, Init, LooksAtHolders, Writes, WriterIsAlone, WordShowsWriter,
                          WordCountsReaders

\* The step of a task that takes the lock or gives it back moves one holder.
LEMMA AcquireKeeps ==
    ASSUME LockInv, NEW t \in Threads, Acquire(t) PROVE LockInv'
<1> USE DEF LockInv
<1>1. Locals'
    BY DEF Acquire, Forget, Goto, Locals, Pcs
<1>2. LooksAtHolders'
    BY DEF Acquire, Forget, Goto, Locals, LooksAtHolders
<1>3. "LOCKED" \notin bits /\ (kind[t] = "Exclusive" => ~(readers > 0))
    BY DEF Acquire, Blocked, LooksAtHolders
<1>4. \A u \in Threads : ~Writes(u)
    BY <1>3 DEF WordShowsWriter
<1>5. pc' = [pc EXCEPT ![t] = "held"] /\ kind' = kind /\ pc[t] = "acquire"
    BY DEF Acquire, Goto
<1>6. CASE kind[t] = "Exclusive"
    <2>1. Cardinality(Holders("Shared")) = 0
        BY <1>3, <1>6, HoldersFinite DEF WordCountsReaders
    <2>2. Holders("Shared") = {}
        BY <2>1, HoldersFinite, FS_EmptySet
    <2>3. \A u \in Threads : pc[u] # "held"
        BY <1>4, <2>2 DEF Holders, Writes, Locals, Kinds
    <2>4. \A u \in Threads : pc'[u] = "held" <=> u = t
        BY <1>5, <2>3 DEF Locals
    <2>5. WriterIsAlone'
        BY <2>4 DEF WriterIsAlone, Writes
    <2>6. Holders("Shared")' = Holders("Shared")
        BY <1>5, <1>6, <2>2, <2>4 DEF Holders
    <2>7. WordCountsReaders'
        BY <1>6, <2>6 DEF Acquire, WordCountsReaders
    <2>8. "LOCKED" \in bits'
        BY <1>6 DEF Acquire, Locals, WriterBit
    <2>9. Writes(t)'
        BY <1>5, <1>6, <2>4 DEF Writes
    <2> QED BY <1>1, <1>2, <2>5, <2>7, <2>8, <2>9 DEF WordShowsWriter
<1>7. CASE kind[t] = "Shared"
    <2>1. \A u \in Threads : ~Writes(u)'
        BY <1>4, <1>5, <1>7 DEF Writes, Locals
    <2>2. "LOCKED" \notin bits'
        BY <1>3, <1>7 DEF Acquire
    <2>3. Holders("Shared")' = Holders("Shared") \cup {t} /\ t \notin Holders("Shared")
        BY <1>5, <1>7 DEF Holders, Locals
    <2>4. Cardinality(Holders("Shared") \cup {t}) = Cardinality(Holders("Shared")) + 1
        BY <2>3, HoldersFinite, FS_AddElement
    <2>5. WordCountsReaders'
        BY <1>7, <2>3, <2>4 DEF Acquire, WordCountsReaders
    <2> QED BY <1>1, <1>2, <2>1, <2>2, <2>5 DEF WriterIsAlone, WordShowsWriter
<1> QED BY <1>6, <1>7 DEF Locals, Kinds

\* unlock and read_unlock.
LEMMA UnlockKeeps ==
    ASSUME LockInv, NEW t \in Threads, Unlock(t) PROVE LockInv'
<1> USE DEF LockInv
<1>1. Locals'
    BY DEF Unlock, Goto, Locals, Pcs, Kinds
<1>2. LooksAtHolders'
    BY DEF Unlock, Goto, Locals, LooksAtHolders
<1>3. /\ pc[t] = "held" /\ pc'[t] # "held"
      /\ \A u \in Threads \ {t} : pc'[u] = pc[u] /\ kind'[u] = kind[u]
    BY DEF Unlock, Goto, Locals
<1>4. CASE kind[t] = "Exclusive"
    <2>1. \A u \in Threads : pc[u] = "held" => u = t
        BY <1>3, <1>4 DEF WriterIsAlone, Writes
    <2>2. \A u \in Threads : pc'[u] # "held"
        BY <1>3, <2>1
    <2>3. "LOCKED" \notin bits'
        BY <1>4 DEF Unlock
    <2>4. Holders("Shared")' = {} /\ Holders("Shared") = {}
        BY <1>3, <1>4, <2>1, <2>2 DEF Holders
    <2>5. WordCountsReaders'
        BY <1>4, <2>4 DEF Unlock, WordCountsReaders
    <2> QED BY <1>1, <1>2, <2>2, <2>3, <2>5 DEF WriterIsAlone, WordShowsWriter, Writes
<1>5. CASE kind[t] = "Shared"
    <2>1. \A u \in Threads : ~Writes(u)
        BY <1>3, <1>5 DEF WriterIsAlone, Writes
    <2>2. \A u \in Threads : ~Writes(u)'
        BY <1>3, <2>1 DEF Writes
    <2>3. "LOCKED" \notin bits'
        BY <2>1 DEF Unlock, WordShowsWriter
    <2>4. Holders("Shared")' = Holders("Shared") \ {t} /\ t \in Holders("Shared")
        BY <1>3, <1>5 DEF Holders
    <2>5. Cardinality(Holders("Shared") \ {t}) = Cardinality(Holders("Shared")) - 1
        BY <2>4, HoldersFinite, FS_RemoveElement
    <2>6. WordCountsReaders'
        BY <1>5, <2>4, <2>5 DEF Unlock, WordCountsReaders
    <2> QED BY <1>1, <1>2, <2>2, <2>3, <2>6 DEF WriterIsAlone, WordShowsWriter
<1> QED BY <1>4, <1>5 DEF Locals, Kinds

\* cancel_waiter clears and sets no bit that shows a holder.
LEMMA CancelLocals ==
    ASSUME Locals, NEW t \in Threads, CancelWaiter(t)
    PROVE  /\ set' \in [Threads -> SUBSET {"WRITER_WAITING", "LONG_WAIT"}]
           /\ rel' \in [Threads -> SUBSET (Bits \ {"LOCKED"})]
<1>1. \A ws : SetOnRelease(ws) \subseteq {"WRITER_WAITING", "LONG_WAIT"}
    BY DEF SetOnRelease
<1>2. \A ws, woke : Cleared(ws, woke) \subseteq Bits \ {"LOCKED"}
    BY DEF Cleared, Bits
<1>3. \A wakeNext, first : CancelCleared(t, wakeNext, first) \subseteq Bits \ {"LOCKED"}
    BY DEF CancelCleared, WriterBit, Bits
<1>4. PICK s \in SUBSET {"WRITER_WAITING", "LONG_WAIT"} : set' = [set EXCEPT ![t] = s]
    BY <1>1, Zenon DEF CancelWaiter
<1>5. PICK r \in SUBSET (Bits \ {"LOCKED"}) : rel' = [rel EXCEPT ![t] = r]
    <2>1. PICK a, b, c, d : rel' = [rel EXCEPT ![t] = Cleared(a, b) \cup CancelCleared(t, c, d)]
        BY Zenon DEF CancelWaiter
    <2>2. Cleared(a, b) \cup CancelCleared(t, c, d) \in SUBSET (Bits \ {"LOCKED"})
        BY <1>2, <1>3
    <2> QED BY <2>1, <2>2, Zenon
<1> QED BY <1>4, <1>5 DEF Locals

\* cancel_waiter keeps the invariant of the lock.
LEMMA CancelKeeps ==
    ASSUME LockInv, NEW t \in Threads, CancelWaiter(t) PROVE LockInv'
<1> USE DEF LockInv
<1>1. /\ \A u \in Threads : pc'[u] = "held" <=> pc[u] = "held"
      /\ \A u \in Threads : pc'[u] \in {"acquire", "queued", "wait"} => pc'[u] = pc[u] /\ u # t
      /\ pc' \in [Threads -> Pcs] /\ pc[t] = "cancel"
    BY DEF CancelWaiter, Locals, Pcs
<1>2. /\ kind' = [kind EXCEPT ![t] = "Shared"] /\ clear' = [clear EXCEPT ![t] = {}]
      /\ zero' = [zero EXCEPT ![t] = {}]
      /\ bits' = bits \cup {"SPINLOCK"} /\ readers' = readers
    BY DEF CancelWaiter, Forget
<1>3. Locals'
    BY <1>1, <1>2, CancelLocals DEF Locals, Kinds
<1>4. LooksAtHolders'
    BY <1>1, <1>2 DEF Locals, LooksAtHolders
<1>5. \A u \in Threads : pc[u] = "held" => kind'[u] = kind[u]
    BY <1>1, <1>2 DEF Locals
<1>6. "LOCKED" \in bits' <=> "LOCKED" \in bits
    BY <1>2
<1> QED BY <1>1, <1>2, <1>3, <1>4, <1>5, <1>6, HoldersUnmoved

\* Every other step moves no holder.
LEMMA LockStep == LockInv /\ [Next]_vars => LockInv'
<1> SUFFICES ASSUME LockInv, [Next]_vars PROVE LockInv'
    OBVIOUS
<1> USE DEF LockInv
<1>0. CASE UNCHANGED vars
    BY <1>0 DEF vars, lockVars, taskVars, Locals, LooksAtHolders, Writes, WriterIsAlone,
                WordShowsWriter, WordCountsReaders, Holders
<1> SUFFICES ASSUME NEW t \in Threads,
                    \/ \E k \in Kinds : Lock(t, k) \/ LockFromCv(t, k)
                    \/ Step(t) \/ Cancel(t)
             PROVE  LockInv'
    BY <1>0 DEF Next
<1>1. CASE \E k \in Kinds : Lock(t, k)
    <2>1. Locals'
        BY <1>1 DEF Lock, Enter, Goto, Locals, Pcs, Bits, ZeroToAcquire, Kinds
    <2>2. LooksAtHolders'
        BY <1>1 DEF Lock, Enter, Goto, Locals, LooksAtHolders, ZeroToAcquire, Kinds
    <2>3. /\ \A u \in Threads : pc'[u] = "held" <=> pc[u] = "held"
          /\ \A u \in Threads : pc[u] = "held" => kind'[u] = kind[u]
        BY <1>1 DEF Lock, Enter, Goto, Locals
    <2>4. ("LOCKED" \in bits' <=> "LOCKED" \in bits) /\ readers' = readers
        BY <1>1 DEF Lock, Enter, lockVars, Locals
    <2> QED BY <2>1, <2>2, <2>3, <2>4, HoldersUnmoved
<1>2. CASE \E k \in Kinds : LockFromCv(t, k)
    <2>1. Locals'
        BY <1>2 DEF LockFromCv, Enter, Goto, Locals, Pcs, Bits, ZeroToAcquire, Kinds
    <2>2. LooksAtHolders'
        BY <1>2 DEF LockFromCv, Enter, Goto, Locals, LooksAtHolders, ZeroToAcquire, Kinds
    <2>3. /\ \A u \in Threads : pc'[u] = "held" <=> pc[u] = "held"
          /\ \A u \in Threads : pc[u] = "held" => kind'[u] = kind[u]
        BY <1>2 DEF LockFromCv, Enter, Goto, Locals
    <2>4. ("LOCKED" \in bits' <=> "LOCKED" \in bits) /\ readers' = readers
        BY <1>2 DEF LockFromCv, Enter, lockVars, Locals
    <2> QED BY <2>1, <2>2, <2>3, <2>4, HoldersUnmoved
<1>3. CASE Enqueue(t)
    <2>1. Locals'
        BY <1>3 DEF Enqueue, ClearLong, WriterBit, Goto, Locals, Pcs, Bits
    <2>2. LooksAtHolders'
        BY <1>3 DEF Enqueue, ClearLong, WriterBit, Goto, Locals, LooksAtHolders
    <2>3. /\ \A u \in Threads : pc'[u] = "held" <=> pc[u] = "held"
          /\ \A u \in Threads : pc[u] = "held" => kind'[u] = kind[u]
        BY <1>3 DEF Enqueue, ClearLong, WriterBit, Goto, Locals
    <2>4. ("LOCKED" \in bits' <=> "LOCKED" \in bits) /\ readers' = readers
        BY <1>3 DEF Enqueue, ClearLong, WriterBit, lockVars, Locals
    <2> QED BY <2>1, <2>2, <2>3, <2>4, HoldersUnmoved
<1>4. CASE Queued(t)
    <2>1. Locals'
        BY <1>4 DEF Queued, Goto, Locals, Pcs, Bits
    <2>2. LooksAtHolders'
        BY <1>4 DEF Queued, Goto, Locals, LooksAtHolders
    <2>3. /\ \A u \in Threads : pc'[u] = "held" <=> pc[u] = "held"
          /\ \A u \in Threads : pc[u] = "held" => kind'[u] = kind[u]
        BY <1>4 DEF Queued, Goto, Locals
    <2>4. ("LOCKED" \in bits' <=> "LOCKED" \in bits) /\ readers' = readers
        BY <1>4 DEF Queued, lockVars, Locals
    <2> QED BY <2>1, <2>2, <2>3, <2>4, HoldersUnmoved
<1>5. CASE Resume(t)
    <2>1. Locals'
        BY <1>5 DEF Resume, Goto, Locals, Pcs, Bits
    <2>2. LooksAtHolders'
        BY <1>5 DEF Resume, Goto, Locals, LooksAtHolders
    <2>3. /\ \A u \in Threads : pc'[u] = "held" <=> pc[u] = "held"
          /\ \A u \in Threads : pc[u] = "held" => kind'[u] = kind[u]
        BY <1>5 DEF Resume, Goto, Locals
    <2>4. ("LOCKED" \in bits' <=> "LOCKED" \in bits) /\ readers' = readers
        BY <1>5 DEF Resume, lockVars, Locals
    <2> QED BY <2>1, <2>2, <2>3, <2>4, HoldersUnmoved
<1>6. CASE UnlockNothing(t)
    <2>1. Locals'
        BY <1>6 DEF UnlockNothing, Goto, Locals, Pcs, Bits
    <2>2. LooksAtHolders'
        BY <1>6 DEF UnlockNothing, Goto, Locals, LooksAtHolders
    <2>3. /\ \A u \in Threads : pc'[u] = "held" <=> pc[u] = "held"
          /\ \A u \in Threads : pc[u] = "held" => kind'[u] = kind[u]
        BY <1>6 DEF UnlockNothing, Goto, Locals
    <2>4. ("LOCKED" \in bits' <=> "LOCKED" \in bits) /\ readers' = readers
        BY <1>6 DEF UnlockNothing, lockVars, Locals
    <2> QED BY <2>1, <2>2, <2>3, <2>4, HoldersUnmoved
<1>7. CASE UnlockSlow(t)
    <2>1. Locals'
        BY <1>7 DEF UnlockSlow, TakeWakeList, SetOnRelease, Cleared, Goto, Locals, Pcs, Bits
    <2>2. LooksAtHolders'
        BY <1>7 DEF UnlockSlow, TakeWakeList, SetOnRelease, Cleared, Goto, Locals, LooksAtHolders
    <2>3. /\ \A u \in Threads : pc'[u] = "held" <=> pc[u] = "held"
          /\ \A u \in Threads : pc[u] = "held" => kind'[u] = kind[u]
        BY <1>7 DEF UnlockSlow, TakeWakeList, SetOnRelease, Cleared, Goto, Locals
    <2>4. ("LOCKED" \in bits' <=> "LOCKED" \in bits) /\ readers' = readers
        BY <1>7 DEF UnlockSlow, TakeWakeList, SetOnRelease, Cleared, lockVars, Locals
    <2> QED BY <2>1, <2>2, <2>3, <2>4, HoldersUnmoved
<1>8. CASE Release(t)
    <2>1. Locals'
        BY <1>8 DEF Release, Goto, Locals, Pcs, Bits
    <2>2. LooksAtHolders'
        BY <1>8 DEF Release, Goto, Locals, LooksAtHolders
    <2>3. /\ \A u \in Threads : pc'[u] = "held" <=> pc[u] = "held"
          /\ \A u \in Threads : pc[u] = "held" => kind'[u] = kind[u]
        BY <1>8 DEF Release, Goto, Locals
    <2>4. ("LOCKED" \in bits' <=> "LOCKED" \in bits) /\ readers' = readers
        BY <1>8 DEF Release, lockVars, Locals
    <2> QED BY <2>1, <2>2, <2>3, <2>4, HoldersUnmoved
<1>9. CASE Wake(t)
    <2>1. Locals'
        BY <1>9 DEF Wake, Goto, Locals, Pcs, Bits
    <2>2. LooksAtHolders'
        BY <1>9 DEF Wake, Goto, Locals, LooksAtHolders
    <2>3. /\ \A u \in Threads : pc'[u] = "held" <=> pc[u] = "held"
          /\ \A u \in Threads : pc[u] = "held" => kind'[u] = kind[u]
        BY <1>9 DEF Wake, Goto, Locals
    <2>4. ("LOCKED" \in bits' <=> "LOCKED" \in bits) /\ readers' = readers
        BY <1>9 DEF Wake, lockVars, Locals
    <2> QED BY <2>1, <2>2, <2>3, <2>4, HoldersUnmoved
<1>10. CASE Cancel(t)
    <2>1. Locals'
        BY <1>10 DEF Cancel, Goto, Locals, Pcs, Bits
    <2>2. LooksAtHolders'
        BY <1>10 DEF Cancel, Goto, Locals, LooksAtHolders
    <2>3. /\ \A u \in Threads : pc'[u] = "held" <=> pc[u] = "held"
          /\ \A u \in Threads : pc[u] = "held" => kind'[u] = kind[u]
        BY <1>10 DEF Cancel, Goto, Locals
    <2>4. ("LOCKED" \in bits' <=> "LOCKED" \in bits) /\ readers' = readers
        BY <1>10 DEF Cancel, lockVars, Locals
    <2> QED BY <2>1, <2>2, <2>3, <2>4, HoldersUnmoved
<1>11. CASE CancelWaiter(t)
    BY <1>11, CancelKeeps
<1>12. CASE Acquire(t)
    BY <1>12, AcquireKeeps
<1>13. CASE Unlock(t)
    BY <1>13, UnlockKeeps
<1> QED BY <1>1, <1>2, <1>3, <1>4, <1>5, <1>6, <1>7, <1>8, <1>9, <1>10, <1>11, <1>12, <1>13 DEF Step

\* For any number of tasks, any mixture of lock, read_lock, unlock, read_unlock,
\* Condvar wake-ups and dropped futures, and whatever LONG_WAIT_THRESHOLD is: a
\* writer is alone, and the word of RawRwLock says who holds the lock.
THEOREM ExclusionHolds == Spec => []MutualExclusion
<1>1. Spec => []LockInv
    BY LockInvInit, LockStep, PTL DEF Spec
<1> QED BY <1>1, LockInvSuffices, PTL

-----------------------------------------------------------------------------
Spins(t) == pc[t] \in {"queued", "release"}

\* The spin lock's bit, its owner, and the owner's duty to clear it.
SpinInv ==
    /\ \A t, u \in Threads : Spins(t) /\ Spins(u) => t = u
    /\ "SPINLOCK" \in bits <=> \E t \in Threads : Spins(t)
    /\ \A t \in Threads : pc[t] = "release" => "SPINLOCK" \in rel[t]

\* One owner is a set of one.
LEMMA SpinInvSuffices == SpinInv => ListHasOneOwner
<1> SUFFICES ASSUME SpinInv PROVE ListHasOneOwner
    OBVIOUS
<1>1. CASE "SPINLOCK" \in bits
    <2>1. PICK t \in Threads : Spins(t)
        BY <1>1 DEF SpinInv
    <2>2. Spinning = {t}
        BY <2>1 DEF Spinning, Spins, SpinInv
    <2>3. Cardinality({t}) = 1
        BY FS_Singleton
    <2> QED BY <1>1, <2>2, <2>3 DEF ListHasOneOwner
<1>2. CASE "SPINLOCK" \notin bits
    <2>1. Spinning = {}
        BY <1>2, SMTT(30) DEF Spinning, Spins, SpinInv
    <2> QED BY <1>2, <2>1, FS_EmptySet DEF ListHasOneOwner
<1> QED BY <1>1, <1>2

\* The steps that take the spin lock found it free; the steps that release it
\* are the owner's.
LEMMA SpinStep == Locals /\ SpinInv /\ [Next]_vars => SpinInv'
<1> SUFFICES ASSUME Locals, SpinInv, [Next]_vars PROVE SpinInv'
    OBVIOUS
<1> USE DEF SpinInv, Spins
<1>0. CASE UNCHANGED vars
    BY <1>0 DEF vars, lockVars, taskVars
<1> SUFFICES ASSUME NEW t \in Threads,
                    \/ \E k \in Kinds : Lock(t, k) \/ LockFromCv(t, k)
                    \/ Step(t) \/ Cancel(t)
             PROVE  SpinInv'
    BY <1>0 DEF Next
<1>1. CASE \E k \in Kinds : Lock(t, k)
    BY <1>1 DEF Lock, Enter, lockVars, Goto, Locals
<1>2. CASE \E k \in Kinds : LockFromCv(t, k)
    BY <1>2 DEF LockFromCv, Enter, lockVars, Goto, Locals
<1>3. CASE Acquire(t)
    BY <1>3 DEF Acquire, WriterBit, Goto, Locals
<1>4. CASE Enqueue(t)
    BY <1>4 DEF Enqueue, WriterBit, Goto, Locals
<1>5. CASE Queued(t)
    BY <1>5 DEF Queued, Goto, Locals
<1>6. CASE Resume(t)
    BY <1>6 DEF Resume, lockVars, Goto, Locals
<1>7. CASE Unlock(t)
    BY <1>7 DEF Unlock, Goto, Locals
<1>8. CASE UnlockNothing(t)
    BY <1>8 DEF UnlockNothing, lockVars, Goto, Locals
<1>9. CASE UnlockSlow(t)
    BY <1>9 DEF UnlockSlow, TakeWakeList, Cleared, Goto, Locals
<1>10. CASE Release(t)
    BY <1>10 DEF Release, Goto, Locals
<1>11. CASE Wake(t)
    BY <1>11 DEF Wake, lockVars, Goto, Locals
<1>12. CASE Cancel(t)
    BY <1>12 DEF Cancel, lockVars, Goto, Locals
<1>13. CASE CancelWaiter(t)
    <2>1. /\ \A u \in Threads : Spins(u)' <=> Spins(u) \/ u = t
          /\ \A u \in Threads : pc'[u] = "release" => pc[u] = "release" \/ u = t
          /\ bits' = bits \cup {"SPINLOCK"} /\ "SPINLOCK" \notin bits
        BY <1>13 DEF CancelWaiter, Locals
    <2>2. PICK r : rel' = [rel EXCEPT ![t] = r] /\ "SPINLOCK" \in r
        <3>1. PICK a, b, c, d : rel' = [rel EXCEPT ![t] = Cleared(a, b) \cup CancelCleared(t, c, d)]
            BY <1>13, ZenonT(60) DEF CancelWaiter
        <3>2. "SPINLOCK" \in Cleared(a, b)
            BY DEF Cleared
        <3>3. "SPINLOCK" \in Cleared(a, b) \cup CancelCleared(t, c, d)
            BY <3>2
        <3> QED BY <3>1, <3>3, Zenon
    <2>3. \A u \in Threads : ~Spins(u)
        BY <2>1
    <2>4. \A u \in Threads : Spins(u)' <=> u = t
        BY <2>1, <2>3, ZenonT(60)
    <2>5. \A u \in Threads : pc'[u] = "release" => "SPINLOCK" \in rel'[u]
        BY <2>1, <2>2, <2>3 DEF Locals
    <2> QED BY <2>1, <2>4, <2>5
<1> QED BY <1>1, <1>2, <1>3, <1>4, <1>5, <1>6, <1>7, <1>8, <1>9, <1>10, <1>11, <1>12, <1>13, ZenonT(60)
  DEF Step

\* For any number of tasks, the list of waiters is worked on by one task at a
\* time: lock_slow, unlock_slow and cancel_waiter take the SPINLOCK bit from the
\* same word that the lock's users change, and none of those changes sets or
\* clears it.
THEOREM ListOwnedByOne == Spec => []ListHasOneOwner
<1>1. Spec => []LockInv
    BY LockInvInit, LockStep, PTL DEF Spec
<1>2. LockInv => Locals
    BY DEF LockInv
<1>3. Init => SpinInv
    BY DEF Init, SpinInv, Spins
<1>4. Spec => []SpinInv
    BY <1>1, <1>2, <1>3, SpinStep, PTL DEF Spec
<1> QED BY <1>4, SpinInvSuffices, PTL
=============================================================================
