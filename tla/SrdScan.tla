------------------------------ MODULE SrdScan ------------------------------
(***************************************************************************)
(* External reports in the SRD plugin (internal/engine/srd): a loop scans  *)
(* the report directories, hands each file to the adapters that read the   *)
(* tools' formats, scores what they return, keeps the results by host and  *)
(* moves the file away; other plugins may hand in reports of their own.    *)
(*                                                                         *)
(* Of a document only its shape is kept: an object or an array of a tool,  *)
(* key=value lines, XML, or text that is none of them.  Weights are in     *)
(* tenths, confidences too.                                                *)
(***************************************************************************)
EXTENDS Integers, Sequences, FiniteSets, SequencesExt, Collections

CONSTANTS Documents,      \* name of a file -> its document
          MaxHistoryKept, \* results kept of one host (100 in the code)
          MaxDeliveries,  \* bound: files left in the directories
          MaxReports,     \* bound: reports handed in by other plugins
          MaxSwitches,    \* bound: adapters switched on or off
          SourceConfidence \* what the confidence table says of a finding of no confidence

\* A host keeps at least its latest result, findings come in lists, and "caller", the origin
\* of what is handed in, is no file.
ASSUME ScanAssumption ==
    /\ MaxHistoryKept \in Nat \ {0}
    /\ \A f \in DOMAIN Documents : f # "caller" /\ Documents[f].items \in Seq(ToSet(Documents[f].items))

VARIABLES inbox,          \* files in the report directories
          archive,        \* files in .processed
          adaptersOn,     \* adapters that are enabled
          scored,         \* host -> its results, oldest first
          snapshots,      \* host -> the state of its node
          scanning,       \* the scan loop runs
          pending,        \* results of reports handed in that are not stored yet
          moveFailures,   \* file -> moves to .processed that failed
          handedIn, switches

srdVars == <<inbox, archive, adaptersOn, scored, snapshots, scanning, pending, moveFailures, handedIn, switches>>

Tools == {"openscap", "lynis", "generic", "atomic_red_team"}
Files == DOMAIN Documents

----------------------------------------------------------------------------
(* Lynis: the result of a test is a text, kept as the set of the words the  *)
(* code looks for; a group may be a count.                                  *)
normalizeLynisResult(words) ==
    IF words \cap {"warning", "suggestion", "hardening", "note"} # {} THEN "fail"
    ELSE IF words \cap {"skipped", "not performed"} # {} THEN "pass"
    ELSE IF "done" \in words \/ ("found" \in words /\ "not found" \notin words) THEN "fail"
    ELSE IF words \cap {"pass", "ok"} # {} THEN "pass" ELSE "fail"
lynisInferLevel(words) ==
    IF "warning" \in words THEN IF "hardening" \in words THEN "high" ELSE "medium"
    ELSE IF "suggestion" \in words THEN "medium" ELSE IF "note" \in words THEN "low" ELSE "info"
lynisDelta(level) == CASE level = "high" -> -100 [] level = "medium" -> -75 [] level = "low" -> -50 [] OTHER -> 0

Item(id, fails, delta, conf) == [id |-> id, fails |-> fails, delta |-> IF fails THEN delta ELSE 0, conf |-> conf]
lynisItem(t) ==
    IF t.count >= 0 THEN Item(t.id, t.count > 0, -100, 0)
    ELSE Item(t.id, normalizeLynisResult(t.words) = "fail", lynisDelta(lynisInferLevel(t.words)), 0)

failed(items) == Where(items, LAMBDA i : i.fails)
\* The share of the findings that passed; what remains unset of no findings is the tool's own affair.
passedShare(items, none) ==
    IF items = <<>> THEN none ELSE (100 * (Len(items) - Len(failed(items)))) \div Len(items)

Report(tool, host, items, raw) == [tool |-> tool, host |-> host, items |-> items, raw |-> raw]
\* Any object is read: one of another tool has neither host nor tests.
lynisJSON(d) ==
    LET items == IF d.tool = "lynis" THEN [k \in DOMAIN d.items |-> lynisItem(d.items[k])] ELSE <<>>
    IN Report("lynis", IF d.tool = "lynis" THEN d.host ELSE "", items, passedShare(items, 100))
\* Of the tests in a .dat only the warnings count, at one weight; the score is the tool's.
datWarnings(d) == Where(d.items, LAMBDA t : "warning" \in t.words)
parseReportDat(d) ==
    Report("lynis", d.host, [k \in DOMAIN datWarnings(d) |-> Item(datWarnings(d)[k].id, TRUE, -75, 0)],
           IF d.index # 0 THEN d.index ELSE d.share)
\* A warning whose key is shorter than the slice taken of it: the parser panics.
shortKey(d) == \E k \in DOMAIN datWarnings(d) : datWarnings(d)[k].short

(* Atomic Red Team: an attack that ran is a defence that failed. *)
atomicItem(t) ==
    LET status == IF "status" \in DOMAIN t THEN t.status ELSE ""
        detected == "status" \in DOMAIN t /\ t.detected
        ran == status \in {"succeeded", "success", "completed"}
        fails == status \notin {"failed", "failure", "error", "skipped", "manual", "not_applicable"}
    IN Item(t.id, fails, IF ran /\ ~detected THEN -100 ELSE -75, IF fails THEN 9 ELSE 0)
atomicReport(d) ==
    LET items == [k \in DOMAIN d.items |-> atomicItem(d.items[k])]
    IN Report("atomic_red_team", IF d.tool = "atomic" /\ d.host # "" THEN d.host ELSE "unknown", items,
              passedShare(items, 100))

(* The generic adapter: the full schema, an array of findings, or one of    *)
(* the two inside a wrapper.                                                *)
DeltaFromSeverity(severity) ==
    CASE severity \in {"critical", "high"} -> -150 [] severity = "medium" -> -100
      [] severity = "low" -> -50 [] severity = "info" -> 0 [] OTHER -> -75
genericItem(t) ==
    IF "result" \in DOMAIN t
    THEN Item(t.id, t.result \in {"fail", "error", "warning"}, DeltaFromSeverity(t.severity), t.conf)
    ELSE Item("generic", FALSE, 0, 0)
genericItems(d) == [k \in DOMAIN d.items |-> genericItem(d.items[k])]
\* The score a full report brings along is not read.
BuildReportFromGeneric(d) == Report("generic", d.host, genericItems(d), 0)
buildFromItems(d) == Report("generic", "unknown", genericItems(d), passedShare(genericItems(d), 0))

isObject(d) == d.shape \in {"object", "wrapped"}
isArray(d) == d.shape = "array"
\* What an adapter makes of a document: a report, an error, or a panic.  The elements of the
\* XML types carry a prefix no parsed element has, so no XML document is ever decoded.
Parse(tool, d) ==
    CASE tool = "lynis" /\ isObject(d) -> lynisJSON(d)
      [] tool = "lynis" /\ d.shape = "lines" -> IF shortKey(d) THEN [tool |-> "panic"] ELSE parseReportDat(d)
      [] tool = "atomic_red_team" /\ (isArray(d) \/ (d.shape = "object" /\ d.tool = "atomic")) -> atomicReport(d)
      [] tool = "generic" /\ d.shape = "object" /\ d.tool = "generic" -> BuildReportFromGeneric(d)
      [] tool = "generic" /\ (isArray(d) \/ d.shape = "wrapped") /\ d.items # <<>> -> buildFromItems(d)
      [] OTHER -> [tool |-> "error"]

\* An adapter takes a file by its name.
SupportsFormat(tool, d) ==
    CASE tool = "openscap" -> "oscap" \in d.named
      [] tool = "lynis" -> "lynis" \in d.named
      [] tool = "atomic_red_team" -> {"json", "atomic"} \subseteq d.named
      [] tool = "generic" -> "json" \in d.named

IsReport(r) == r.tool \in Tools
firstReport(tools, d) ==
    LET tried == Where(tools, LAMBDA t : Parse(t, d).tool # "error")
    IN IF tried = <<>> THEN [tool |-> "error"] ELSE Parse(tried[1], d)
\* The file's own tools first, then the generic adapter, whatever the file is called; the
\* adapter of Atomic Red Team is never asked.
ProcessFromFile(d) ==
    firstReport(Where(<<"openscap", "lynis">>, LAMBDA t : t \in adaptersOn /\ SupportsFormat(t, d))
                \o (IF "generic" \in adaptersOn THEN <<"generic">> ELSE <<>>), d)
\* A named tool is used whether it is enabled or not; the generic adapter always is.
ProcessFromBytes(tool, d) ==
    IF tool # "" THEN Parse(tool, d)
    ELSE firstReport(Where(<<"openscap", "lynis">>, LAMBDA t : t \in adaptersOn) \o <<"generic">>, d)

----------------------------------------------------------------------------
failures(r) == failed(r.items)
certain(c) == IF c > 0 THEN c ELSE SourceConfidence
Mean(q) == IF q = <<>> THEN 10 ELSE TotalSeq(q, LAMBDA i : i.conf) \div Len(q)
\* Every failed finding becomes a failure of the node, with the confidence of the tool, else
\* of the table.
reportToNodeState(r) ==
    [score |-> r.raw, confidence |-> Mean(Where(failures(r), LAMBDA i : i.conf > 0)),
     failedChecks |-> [k \in DOMAIN failures(r) |->
                         [id |-> failures(r)[k].id, delta |-> failures(r)[k].delta, conf |-> certain(failures(r)[k].conf)]]]

\* Scoring takes the snapshot of the host; the result is stored afterwards.
Process(r) == snapshots' = [h \in DOMAIN snapshots \cup {r.host} |->
                             IF h = r.host THEN reportToNodeState(r) ELSE snapshots[h]]
hostKey(h) == IF h = "" THEN "unknown" ELSE h
keyOf(r) == hostKey(r.host)
heldOf(h) == IF h \in DOMAIN scored THEN scored[h] ELSE <<>>
newest(q) == SubSeq(q, (IF Len(q) > MaxHistoryKept THEN Len(q) - MaxHistoryKept ELSE 0) + 1, Len(q))
storeResult(r, from) ==
    scored' = [h \in DOMAIN scored \cup {keyOf(r)} |->
                  IF h = keyOf(r) THEN newest(Append(heldOf(h), [report |-> r, from |-> from])) ELSE scored[h]]

----------------------------------------------------------------------------
SrdInit ==
    /\ inbox = {} /\ archive = {} /\ adaptersOn = {"generic"} /\ scored = << >> /\ snapshots = << >>
    /\ scanning = TRUE /\ pending = {} /\ moveFailures = [f \in Files |-> 0] /\ handedIn = 0 /\ switches = 0

\* A tool leaves its report in a directory.
Deliver(f) ==
    /\ f \notin inbox \cup archive /\ Cardinality(inbox \cup archive) < MaxDeliveries
    /\ inbox' = inbox \cup {f}
    /\ UNCHANGED <<archive, adaptersOn, scored, snapshots, scanning, pending, moveFailures, handedIn, switches>>

SetEnabled(tool) ==
    /\ switches < MaxSwitches
    /\ adaptersOn' = IF tool \in adaptersOn THEN adaptersOn \ {tool} ELSE adaptersOn \cup {tool}
    /\ switches' = switches + 1
    /\ UNCHANGED <<inbox, archive, scored, snapshots, scanning, pending, moveFailures, handedIn>>

\* A scan that moves a file before it knows that anything could be read of it.
MoveFirst(f) ==
    /\ scanning /\ f \in inbox /\ \E t \in adaptersOn : SupportsFormat(t, Documents[f])
    /\ inbox' = inbox \ {f} /\ archive' = archive \cup {f}
    /\ UNCHANGED <<adaptersOn, scored, snapshots, scanning, pending, moveFailures, handedIn, switches>>

\* One file of a scan: once an adapter takes its name, the file is read, scored, stored and
\* moved.  The error of the move is not looked at.
performScan(f) ==
    LET d == Documents[f]
        r == ProcessFromFile(d)
    IN /\ scanning /\ f \in inbox
       /\ \E t \in adaptersOn : SupportsFormat(t, d)
       /\ IsReport(r)
       /\ Process(r) /\ storeResult(r, f)
       /\ \/ inbox' = inbox \ {f} /\ archive' = archive \cup {f} /\ UNCHANGED moveFailures
          \/ /\ moveFailures[f] = 0 /\ moveFailures' = [moveFailures EXCEPT ![f] = 1]
             /\ UNCHANGED <<inbox, archive>>
       /\ UNCHANGED <<adaptersOn, scanning, pending, handedIn, switches>>

\* The loop recovers from a parser's panic, and ends.
ScanPanics(f) ==
    /\ scanning /\ f \in inbox
    /\ \E t \in adaptersOn : SupportsFormat(t, Documents[f])
    /\ ProcessFromFile(Documents[f]).tool = "panic"
    /\ scanning' = FALSE
    /\ UNCHANGED <<inbox, archive, adaptersOn, scored, snapshots, pending, moveFailures, handedIn, switches>>

\* A report handed in: scored by its caller, then stored.
ProcessReport(tool, f) ==
    LET r == ProcessFromBytes(tool, Documents[f])
    IN /\ handedIn < MaxReports /\ handedIn' = handedIn + 1
       /\ IsReport(r)
       /\ Process(r)
       /\ pending' = pending \cup {[report |-> r, from |-> "caller"]}
       /\ UNCHANGED <<inbox, archive, adaptersOn, scored, scanning, moveFailures, switches>>
StoreReported(p) ==
    /\ p \in pending /\ pending' = pending \ {p}
    /\ storeResult(p.report, p.from)
    /\ UNCHANGED <<inbox, archive, adaptersOn, snapshots, scanning, moveFailures, handedIn, switches>>

SrdStop ==
    /\ scanning /\ scanning' = FALSE
    /\ UNCHANGED <<inbox, archive, adaptersOn, scored, snapshots, pending, moveFailures, handedIn, switches>>

SrdNext ==
    \/ \E f \in Files : Deliver(f) \/ performScan(f) \/ ScanPanics(f)
    \/ \E t \in Tools : SetEnabled(t)
    \/ \E t \in Tools \cup {""}, f \in Files : ProcessReport(t, f)
    \/ \E p \in pending : StoreReported(p)
    \/ SrdStop

----------------------------------------------------------------------------
timesKept(f) ==
    Cardinality({p \in (DOMAIN scored) \X (1 .. MaxHistoryKept) :
                   p[2] <= Len(scored[p[1]]) /\ scored[p[1]][p[2]].from = f})
crowded == \E h \in DOMAIN scored : Len(scored[h]) = MaxHistoryKept

\* A file that was moved away has been scored, once more than its moves failed: its result is
\* in the history unless that host's history has dropped it (manager.go, performScan).
MovedMeansScored ==
    \A f \in Files :
        /\ timesKept(f) <= moveFailures[f] + 1
        /\ f \in archive => timesKept(f) = moveFailures[f] + 1 \/ crowded

\* No host keeps more than its share, and of all tools only a .dat, whose score is taken as it
\* stands, can bring a score no host can have, or failures and still a score of 100
\* (lynis.go, parseReportDat; manager.go, storeResult).
ScoresFollowFindings ==
    \A h \in DOMAIN scored :
        /\ Len(scored[h]) <= MaxHistoryKept
        /\ \A k \in DOMAIN scored[h] :
              LET r == scored[h][k].report
              IN r.raw \notin 0 .. 100 \/ (failures(r) # <<>> /\ r.raw = 100) =>
                   \E f \in Files : Documents[f].shape = "lines" /\ Documents[f].host = r.host

\* The node of a host carries the failures of a report that is stored or about to be: two
\* reports of one host may be stored in the other order, but no node shows findings nobody
\* reported (pipeline.go, Process).
NodesComeFromReports ==
    \A h \in DOMAIN snapshots :
        \/ \E p \in pending : p.report.host = h /\ snapshots[h] = reportToNodeState(p.report)
        \/ /\ hostKey(h) \in DOMAIN scored
           /\ \/ \E j \in DOMAIN scored[hostKey(h)] :
                    snapshots[h] = reportToNodeState(scored[hostKey(h)][j].report)
              \/ Len(scored[hostKey(h)]) = MaxHistoryKept
ScanSound == MovedMeansScored /\ ScoresFollowFindings /\ NodesComeFromReports
=============================================================================
