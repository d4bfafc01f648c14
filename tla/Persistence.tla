---------------------------- MODULE Persistence ----------------------------
(***************************************************************************)
(* The kernel's records on disk (internal/persistence): every dataset has  *)
(* a writer that buffers lines for the file of the day; a loop flushes     *)
(* them, others remove old files and copy the directory into snapshots and *)
(* archives; the latest report is replaced by way of one temporary file.   *)
(*                                                                         *)
(* Days are numbered; the code compares days of the year, which repeat.    *)
(***************************************************************************)
EXTENDS Integers, Sequences, FiniteSets, SequencesExt

CONSTANTS Datasets,      \* names of the datasets
          Messages,      \* assessments delivered by the bus, each in a goroutine
          SizeOf,        \* message -> size of its report
          BufferRecords, \* records a writer's buffer holds
          DaysOfYear, MaxDay,
          RetentionDays,
          MaxSnapshots,  \* snapshots kept (24 in the code)
          MaxRecords, MaxDiskFaults, MaxCrashes  \* bounds

ASSUME PersistenceAssumption ==
    /\ {"agents", "assessments"} \subseteq Datasets
    /\ {BufferRecords, DaysOfYear, RetentionDays, MaxSnapshots} \subseteq Nat \ {0}

VARIABLES day,
          writers,     \* dataset -> [file, linked, buf, broken]
          dayFiles,    \* dataset -> day -> [recs, touched], the files there are
          acked,       \* records whose Append returned no error
          expired,     \* records the retention removed
          snapshotsKept, archives,
          closing,     \* "no", "stopping" once Stop began, "stopped" once it returned
          exited, crashes, diskFaults,
          handler,     \* message -> where its handler is
          tmp, latest, \* the two names of the report: the file each refers to, or 0
          content,     \* file -> what it holds
          holds,       \* message -> the file its handler has open
          overlapped   \* two handlers were replacing the report at once

rowVars == <<day, writers, dayFiles, acked, expired, snapshotsKept, archives, closing, exited, crashes, diskFaults>>
reportVars == <<tmp, latest, content, holds, overlapped>>
persistVars == <<rowVars, handler, reportVars>>

NoInode == 0
Fresh == [file |-> NoInode, linked |-> FALSE, buf |-> <<>>, broken |-> FALSE]
YearDay(d) == d % DaysOfYear
NoFiles == << >>
ids(q) == {q[k].id : k \in DOMAIN q}
onDisk(d) == UNION {ids(dayFiles[d][n].recs) : n \in DOMAIN dayFiles[d]}
allOnDisk == UNION {onDisk(d) : d \in Datasets}
buffered(d) == ids(writers[d].buf)

----------------------------------------------------------------------------
\* The lines of a buffer reach the file, unless the file has been removed behind the writer.
Flushed(files, w) ==
    IF w.buf = <<>> \/ ~w.linked THEN files
    ELSE [files EXCEPT ![w.file] = [recs |-> @.recs \o w.buf, touched |-> day]]
Opened(files) ==
    [n \in DOMAIN files \cup {day} |-> IF n \in DOMAIN files THEN files[n] ELSE [recs |-> <<>>, touched |-> day]]

\* A write on another day of the year than the file's: it is flushed and closed first, and an
\* error of the flush is not looked at.
rolls(w) == w.file # NoInode /\ YearDay(w.file) # YearDay(day)
rolled(w) == IF rolls(w) THEN Fresh ELSE w
afterRoll(files, w) == IF rolls(w) /\ ~w.broken THEN Flushed(files, w) ELSE files
\* A file stays open for another day of the same number.
Record(n, w) == [id |-> n, day |-> day, into |-> IF w.file = NoInode THEN day ELSE w.file, late |-> closing # "no"]

\* jsonlWriter.write: the record is put into the buffer of the day's file; a full buffer goes
\* to disk first.  A buffer that once failed refuses every write and is given up with all it holds.
write(d, n) ==
    LET w == rolled(writers[d])
        files == afterRoll(dayFiles[d], writers[d])
        there == IF w.file = NoInode THEN Opened(files) ELSE files
        full == Len(w.buf) = BufferRecords
        v == [w EXCEPT !.file = IF @ = NoInode THEN day ELSE @, !.linked = w.file = NoInode \/ @]
    IN IF w.broken
       THEN /\ writers' = [writers EXCEPT ![d] = Fresh]
            /\ dayFiles' = [dayFiles EXCEPT ![d] = files] /\ UNCHANGED acked
       ELSE /\ dayFiles' = [dayFiles EXCEPT ![d] = IF full THEN Flushed(there, v) ELSE there]
            /\ writers' = [writers EXCEPT ![d] = [v EXCEPT !.buf = Append(IF full THEN <<>> ELSE @, Record(n, w))]]
            /\ acked' = acked \cup {Record(n, w)}
\* The file cannot be opened: the error goes to the caller.
openFails(d) ==
    /\ diskFaults < MaxDiskFaults /\ diskFaults' = diskFaults + 1
    /\ rolled(writers[d]).file = NoInode
    /\ writers' = [writers EXCEPT ![d] = Fresh]
    /\ dayFiles' = [dayFiles EXCEPT ![d] = afterRoll(dayFiles[d], writers[d])]
    /\ UNCHANGED acked

numbered == Cardinality(acked) + 1
AppendTo(d) ==
    /\ ~exited /\ Cardinality(acked) < MaxRecords
    /\ \/ write(d, numbered) /\ UNCHANGED diskFaults
       \/ openFails(d)
    /\ UNCHANGED <<day, expired, snapshotsKept, archives, closing, exited, crashes>>

\* Registrations and timeouts of agents.
onAgentEvent == AppendTo("agents") /\ UNCHANGED <<handler, reportVars>>

\* jsonlWriter.sync: a flush that fails leaves the buffer broken, with what it holds.
sync(d) ==
    /\ ~exited /\ writers[d].buf # <<>> /\ ~writers[d].broken
    /\ \/ /\ dayFiles' = [dayFiles EXCEPT ![d] = Flushed(@, writers[d])]
          /\ writers' = [writers EXCEPT ![d].buf = <<>>] /\ UNCHANGED diskFaults
       \/ /\ diskFaults < MaxDiskFaults /\ diskFaults' = diskFaults + 1
          /\ writers' = [writers EXCEPT ![d].broken = TRUE] /\ UNCHANGED dayFiles
    /\ UNCHANGED <<day, acked, expired, snapshotsKept, archives, closing, exited, crashes, handler, reportVars>>

\* jsonlWriter.close for every writer: a buffer that does not flush keeps its file open.
closed(w) == IF w.broken THEN w ELSE Fresh
\* Mutant: the file is closed and its buffer forgotten.
closeUnflushed == UNCHANGED dayFiles /\ writers' = [d \in Datasets |-> closed(writers[d])]
closeAll ==
    /\ dayFiles' = [d \in Datasets |-> IF writers[d].broken THEN dayFiles[d] ELSE Flushed(dayFiles[d], writers[d])]
    /\ writers' = [d \in Datasets |-> closed(writers[d])]
RotateAll ==
    /\ ~exited /\ \E d \in Datasets : writers[d].file # NoInode
    /\ closeAll
    /\ UNCHANGED <<day, acked, expired, snapshotsKept, archives, closing, exited, crashes, diskFaults, handler, reportVars>>

\* The flush loop runs every half minute: no record stays in a buffer for more than one midnight.
DayPasses ==
    /\ ~exited /\ day < MaxDay /\ day' = day + 1
    /\ closing # "no" \/ \A d \in Datasets : writers[d].broken \/ \A k \in DOMAIN writers[d].buf : writers[d].buf[k].day = day
    /\ UNCHANGED <<writers, dayFiles, acked, expired, snapshotsKept, archives, closing, exited, crashes, diskFaults,
                   handler, reportVars>>

\* The files nobody touched for the days of the retention are removed; a writer may still
\* have one open.
old(d) == {n \in DOMAIN dayFiles[d] : dayFiles[d][n].touched < day - RetentionDays}
cleanupOldLogs ==
    /\ ~exited /\ closing = "no" /\ \E d \in Datasets : old(d) # {}
    /\ expired' = expired \cup UNION {UNION {ids(dayFiles[d][n].recs) : n \in old(d)} : d \in Datasets}
    /\ dayFiles' = [d \in Datasets |-> [n \in (DOMAIN dayFiles[d]) \ old(d) |-> dayFiles[d][n]]]
    /\ writers' = [d \in Datasets |-> [writers[d] EXCEPT !.linked = @ /\ writers[d].file \notin old(d)]]
    /\ UNCHANGED <<day, acked, snapshotsKept, archives, closing, exited, crashes, diskFaults, handler, reportVars>>

\* What has been flushed is copied; what is buffered is not.  The oldest copies go.
createHourlySnapshot ==
    /\ ~exited /\ Last(<<{}>> \o snapshotsKept) # allOnDisk
    /\ snapshotsKept' = LET q == Append(snapshotsKept, allOnDisk)
                        IN SubSeq(q, (IF Len(q) > MaxSnapshots THEN Len(q) - MaxSnapshots ELSE 0) + 1, Len(q))
    /\ UNCHANGED <<day, writers, dayFiles, acked, expired, archives, closing, exited, crashes, diskFaults, handler, reportVars>>
\* One archive a day, made anew when the day has one; the old ones go.
createDailyArchive ==
    /\ ~exited /\ (day \notin DOMAIN archives \/ closing # "no")
    /\ archives' = [n \in {m \in DOMAIN archives : m >= day - RetentionDays} \cup {day} |->
                      IF n = day THEN allOnDisk ELSE archives[n]]
    /\ archives' # archives
    /\ UNCHANGED <<day, writers, dayFiles, acked, expired, snapshotsKept, closing, exited, crashes, diskFaults,
                   handler, reportVars>>

----------------------------------------------------------------------------
\* Stop tells the loops to end and waits for none; it flushes and closes the writers.
StopBegins ==
    /\ ~exited /\ closing = "no" /\ closing' = "stopping"
    /\ UNCHANGED <<day, writers, dayFiles, acked, expired, snapshotsKept, archives, exited, crashes, diskFaults, handler, reportVars>>
StopEnds ==
    /\ ~exited /\ closing = "stopping" /\ closing' = "stopped"
    /\ closeAll
    /\ UNCHANGED <<day, acked, expired, snapshotsKept, archives, exited, crashes, diskFaults, handler, reportVars>>
\* The process ends; what is still in a buffer is gone.
emptied == writers' = [d \in Datasets |-> Fresh]
ExitProcess ==
    /\ ~exited /\ closing = "stopped" /\ exited' = TRUE
    /\ emptied
    /\ UNCHANGED <<day, dayFiles, acked, expired, snapshotsKept, archives, closing, crashes, diskFaults, handler, reportVars>>
KernelCrash ==
    /\ ~exited /\ crashes < MaxCrashes /\ crashes' = crashes + 1
    /\ emptied /\ closing' = "no"
    /\ handler' = [m \in Messages |-> IF handler[m] = "due" THEN "due" ELSE "done"]
    /\ holds' = [m \in Messages |-> NoInode]
    /\ UNCHANGED <<day, dayFiles, acked, expired, snapshotsKept, archives, exited, diskFaults, tmp, latest, content, overlapped>>

----------------------------------------------------------------------------
\* onAssessmentResult: the record is appended, whatever comes of it, and the report written
\* to the temporary file, which is renamed.
onAssessmentResult(m) ==
    /\ handler[m] = "due" /\ handler' = [handler EXCEPT ![m] = "report"]
    /\ AppendTo("assessments") /\ UNCHANGED reportVars

replacing == {m \in Messages : handler[m] \in {"write", "rename"}}
\* Opening cuts the file short; the handlers share one name.
OpenTmp(m) ==
    /\ ~exited /\ handler[m] = "report" /\ handler' = [handler EXCEPT ![m] = "write"]
    /\ LET f == IF tmp # NoInode THEN tmp ELSE Len(content) + 1
       IN /\ tmp' = f /\ holds' = [holds EXCEPT ![m] = f]
          /\ content' = IF f \in DOMAIN content THEN [content EXCEPT ![f] = <<>>] ELSE Append(content, <<>>)
    /\ overlapped' = (overlapped \/ replacing # {})
    /\ UNCHANGED <<rowVars, latest>>
\* A report written over a longer one leaves the end of that one.
over(m, was) == IF was # <<>> /\ SizeOf[m] < SizeOf[Last(was)] THEN <<m, Last(was)>> ELSE <<m>>
WriteTmp(m) ==
    /\ ~exited /\ handler[m] = "write" /\ handler' = [handler EXCEPT ![m] = "rename"]
    /\ content' = [content EXCEPT ![holds[m]] = over(m, @)]
    /\ UNCHANGED <<rowVars, tmp, latest, holds, overlapped>>
\* The name may be another handler's by now, or nobody's: then the error is logged.
RenameTmp(m) ==
    /\ ~exited /\ handler[m] = "rename" /\ handler' = [handler EXCEPT ![m] = "done"]
    /\ latest' = IF tmp = NoInode THEN latest ELSE tmp
    /\ tmp' = NoInode /\ holds' = [holds EXCEPT ![m] = NoInode]
    /\ UNCHANGED <<rowVars, content, overlapped>>

PersistInit ==
    /\ day = 1 /\ writers = [d \in Datasets |-> Fresh] /\ dayFiles = [d \in Datasets |-> NoFiles]
    /\ acked = {} /\ expired = {} /\ snapshotsKept = <<>> /\ archives = << >> /\ closing = "no" /\ exited = FALSE
    /\ crashes = 0 /\ diskFaults = 0 /\ handler = [m \in Messages |-> "due"]
    /\ tmp = NoInode /\ latest = NoInode /\ content = <<>> /\ holds = [m \in Messages |-> NoInode] /\ overlapped = FALSE
PersistNext ==
    \/ onAgentEvent \/ RotateAll \/ DayPasses \/ cleanupOldLogs \/ StopBegins \/ StopEnds \/ ExitProcess \/ KernelCrash
    \/ createHourlySnapshot \/ createDailyArchive
    \/ \E d \in Datasets : sync(d)
    \/ \E m \in Messages : onAssessmentResult(m) \/ OpenTmp(m) \/ WriteTmp(m) \/ RenameTmp(m)
PersistSpec == PersistInit /\ [][PersistNext]_persistVars

----------------------------------------------------------------------------
\* An acknowledged record is in one place, a file of the directory or the buffer of a writer,
\* until the retention removes it.  It is lost only to a crash, to a disk that refused a
\* flush, after Stop began, or when a whole number of years lies between the day of its file
\* and its own, for the rollover compares days of the year (persistence.go, write and Stop).
RecordsAccounted ==
    \A r \in acked :
        /\ Cardinality({d \in Datasets : r.id \in onDisk(d) \cup buffered(d)}) <= 1
        /\ \A d \in Datasets : r.id \notin onDisk(d) \cap buffered(d)
        /\ \/ r.id \in allOnDisk \cup expired \/ \E d \in Datasets : r.id \in buffered(d)
           \/ crashes > 0 \/ diskFaults > 0 \/ r.late \/ r.into # r.day

\* A record lies in the file of its own day, or in one of an earlier day of the same number.
FileOfTheDay ==
    \A d \in Datasets : \A n \in DOMAIN dayFiles[d] : \A k \in DOMAIN dayFiles[d][n].recs :
        LET r == dayFiles[d][n].recs[k]
        IN r.into = n /\ r.day >= n /\ YearDay(r.day) = YearDay(n)

\* What a snapshot or an archive holds was acknowledged, and a later snapshot lacks nothing of
\* an earlier one but what the retention removed.
CopiesGrow ==
    /\ \A k \in 1 .. Len(snapshotsKept) - 1 : snapshotsKept[k] \ snapshotsKept[k + 1] \subseteq expired
    /\ \A n \in DOMAIN archives : archives[n] \subseteq {r.id : r \in acked}

\* The latest report is one whole report of one assessment, unless two of them were being
\* replaced at once or a crash cut one short (persistence.go, WriteDashboardReport).
LatestWhole ==
    latest # NoInode /\ ~overlapped /\ crashes = 0 =>
        /\ Len(content[latest]) = 1
        /\ tmp = NoInode \/ tmp # latest
StorageSound == RecordsAccounted /\ FileOfTheDay /\ CopiesGrow /\ LatestWhole
=============================================================================
