--------------------------------- MODULE Spc ---------------------------------
(***************************************************************************)
(* The security posture calculator (internal/spc): the CVE cache, the      *)
(* feeds that fill it, its clean-up and its file, and the calculation of a  *)
(* host's posture, which reads the cache's array after the lock is gone.   *)
(*                                                                         *)
(* The fetch loop and the console run FetchFromAllSources, one step for    *)
(* each time they take m.mu.  CVSS is in points, EPSS and factors are in    *)
(* percent, scores in thousandths.  A CPE is [part, vendor, product,        *)
(* version, range] after its fixed "cpe:2.3", "*" standing for any.        *)
(***************************************************************************)
EXTENDS Integers, Sequences, FiniteSets, SequencesExt, Collections

CONSTANTS
    CveIds,
    Feed,        \* [source -> set of batches (sequences of CVEs) it may answer]
    Samples,     \* generateSampleCVEs
    Windows,     \* the date windows of one NVD synchronisation
    MaxRetries,  \* of one window (3 in the code)
    MaxCacheSize,
    SavedFiles,  \* spc_cache.json as an earlier run may have left it
    Inventories, \* assets of the host: [cpes, pkgs, zone, control]
    MinPScore,
    EpssFactor(_), \* min(1, -ln(1 - epss) / 5), in percent
    MaxSyncs,    \* bound on synchronisations
    MaxRounds,   \* bound on clean-ups and imports
    MaxCalcs     \* bound on calculations

None0 == {}      \* no CPEs
Unset == <<>>    \* no lowered form
CVE(id) == [id |-> id, pri |-> 0, cvss |-> 0, epss |-> 0, kev |-> FALSE, poc |-> FALSE,
            cpes |-> None0, desc |-> "", recent |-> FALSE, techs |-> 0, apts |-> 0, age |-> 30]

\* The records a cache may hold: a feed or a file has given each CPE and each text.
cveLists == {Samples} \cup SavedFiles \cup UNION {Feed[source] : source \in DOMAIN Feed}
fieldsGiven(field) == {c[field] : c \in UNION {Range(list) : list \in cveLists}}
Percent == 0..100
CveRecords ==
    [id : CveIds, pri : Nat, cvss : Nat, epss : Percent, kev : BOOLEAN, poc : BOOLEAN, cpes : fieldsGiven("cpes"),
     desc : fieldsGiven("desc"), recent : BOOLEAN, techs : Nat, apts : Nat, age : Nat]
\* A file was saved from a cache.
loadable(cves) ==
    /\ cves \in Seq(CveRecords)
    /\ \A i, j \in DOMAIN cves : cves[i].id = cves[j].id => i = j
    /\ Len(cves) > MaxCacheSize => \A i \in DOMAIN cves : cves[i].kev
ASSUME SpcAssumption ==
    /\ DOMAIN Feed = {"nvd", "epss", "kev", "misp", "cnnvd", "other"}
    /\ \A list \in cveLists : list \in Seq(CveRecords)
    /\ \A cves \in SavedFiles : loadable(cves)
    /\ MaxCacheSize \in Nat /\ MinPScore \in Int /\ MinPScore <= 1000
    /\ \A epss \in Percent : EpssFactor(epss) \in Nat

VARIABLES
    db,          \* [arr, n, index, low, lowDesc]: the cache is the first n places of arr
    kevCatalog,
    synced,      \* lastUpdate is not zero
    fetch,       \* [Fetchers -> [pc, got, failed, wins]]
    limiter,     \* nvdLimiter holds a token
    timers,      \* the timers that will take it out are alive
    sweep,       \* cleanupOldCVEs between its two locks: the records it keeps
    inventory,   \* assetCache of the one host: [cpes, pkgs, zone, control]
    calc,        \* a calculation under way
    correction,  \* the last result
    savedCves,   \* spc_cache.json, <<>> if there is none
    spcUp,       \* "off", "up", "stopped"
    syncs, rounds, calcsDone
spcVars == <<db, kevCatalog, synced, fetch, limiter, timers, sweep, inventory, calc, correction,
             savedCves, spcUp, syncs, rounds, calcsDone>>

Fetchers == {"loop", "console"}
cached == {db.arr[i].id : i \in 1..db.n}

----------------------------------------------------------------------------
\* The cache.

put(s, i, c) == IF i <= Len(s) THEN [s EXCEPT ![i] = c] ELSE Append(s, c)
append(s, c) == [s EXCEPT !.arr = put(@, s.n + 1, c), !.n = @ + 1, !.index[c.id] = s.n + 1]

\* mergeCVEInPlace
merged(e, c) ==
    LET over == c.pri > e.pri
        fill(new, old, zero) == IF new # zero /\ (old = zero \/ over) THEN new ELSE old
    IN  [e EXCEPT !.cvss = IF c.cvss > 0 /\ c.pri >= e.pri THEN c.cvss
                           ELSE IF c.cvss > @ THEN c.cvss ELSE @,
                  !.epss = fill(c.epss, @, 0), !.kev = @ \/ c.kev, !.poc = @ \/ c.poc,
                  !.recent = @ \/ c.recent, !.cpes = fill(c.cpes, @, None0),
                  !.techs = fill(c.techs, @, 0), !.apts = fill(c.apts, @, 0),
                  !.desc = fill(c.desc, @, ""), !.pri = IF over THEN c.pri ELSE @]
mergeCVEInPlace(s, i, c) ==
    LET e == s.arr[i]
        m == merged(e, c)
        keep == m.cpes = e.cpes /\ m.desc = e.desc
    IN  [s EXCEPT !.arr[i] = m, !.low[c.id] = IF keep THEN @ ELSE Unset,
                  !.lowDesc[c.id] = IF keep THEN @ ELSE Unset]

\* evictLowestPriorityCVE: the tail of the array is moved down in place, so its
\* last record is there twice.
evictLowestPriorityCVE(s) ==
    LET cand == {i \in 1..s.n : ~s.arr[i].kev}
        score(i) == s.arr[i].cvss * 50 + s.arr[i].epss
        worst == CHOOSE i \in cand : \A j \in cand : score(i) < score(j) \/ (score(i) = score(j) /\ i <= j)
        id == s.arr[worst].id
    IN  IF cand = {} THEN s
        ELSE [arr |-> [i \in DOMAIN s.arr |-> IF worst <= i /\ i < s.n THEN s.arr[i + 1] ELSE s.arr[i]],
              n |-> s.n - 1,
              index |-> [j \in CveIds |-> IF j = id THEN 0
                                          ELSE IF s.index[j] > worst THEN s.index[j] - 1 ELSE s.index[j]],
              low |-> [s.low EXCEPT ![id] = Unset], lowDesc |-> [s.lowDesc EXCEPT ![id] = Unset]]

\* MergeCVEs (and AddCVE, AddCVEs): a full cache makes room for a KEV record
\* and drops any other; where nothing can be evicted the record is added anyway.
MergeCVE(s, c) ==
    IF s.index[c.id] # 0 THEN mergeCVEInPlace(s, s.index[c.id], c)
    ELSE IF s.n < MaxCacheSize THEN append(s, c)
    ELSE IF c.kev THEN append(evictLowestPriorityCVE(s), c) ELSE s
\* What a feed does to a record that is there: NVD, MISP and OSCAL merge; EPSS
\* overwrites, KEV marks, CNNVD and CNVD raise the score and fill the CPEs.
amended(e, c, source) ==
    CASE source = "epss" -> [e EXCEPT !.epss = c.epss]
      [] source = "kev" -> [e EXCEPT !.kev = TRUE, !.apts = IF c.apts > @ THEN c.apts ELSE @]
      [] OTHER -> [e EXCEPT !.cvss = IF c.cvss > @ THEN c.cvss ELSE @,
                            !.cpes = IF @ = None0 THEN c.cpes ELSE @]
updated(s, i, c, source) ==
    IF source \in {"nvd", "misp", "oscal"} THEN mergeCVEInPlace(s, i, c)
    ELSE [s EXCEPT !.arr[i] = amended(@, c, source)]
\* Each adds what is missing while there is room.  EPSS and KEV go on with the
\* records that are there, the others stop at the first new one there is no
\* room for, and OSCAL at any.
absorbCVE(p, c, source) ==
    LET i == p.s.index[c.id]
        full == p.s.n >= MaxCacheSize
    IN  IF p.stop \/ (source = "oscal" /\ full) THEN [p EXCEPT !.stop = TRUE]
        ELSE IF i # 0 THEN [p EXCEPT !.s = updated(@, i, c, source)]
        ELSE IF full THEN [p EXCEPT !.stop = source \notin {"epss", "kev"}]
        ELSE [p EXCEPT !.s = append(@, c)]
\* A batch is taken record by record.
taken(p, c, source) == IF source = "add" THEN [p EXCEPT !.s = MergeCVE(@, c)] ELSE absorbCVE(p, c, source)
absorb(s0, batch, source) ==
    LET after[n \in 0..Len(batch)] ==
          IF n = 0 THEN [s |-> s0, stop |-> FALSE] ELSE taken(after[n - 1], batch[n], source)
    IN  after[Len(batch)].s
MergeCVEs(s0, batch) == absorb(s0, batch, "add")
loaded(cves) ==
    [arr |-> cves, n |-> Len(cves),
     index |-> [id \in CveIds |-> IF \E i \in DOMAIN cves : cves[i].id = id
                                  THEN CHOOSE i \in DOMAIN cves : cves[i].id = id ELSE 0],
     low |-> [id \in CveIds |-> Unset], lowDesc |-> [id \in CveIds |-> Unset]]

----------------------------------------------------------------------------
\* What a change of the cache means for the calculation that reads its array:
\* it sees the change, unless append had to take a larger array, in which case
\* the one it reads changes no more.  Which of the two is the allocator's choice.
Store0(s) ==
    /\ db' = s
    /\ IF calc.pc # "reading" \/ s = db THEN calc' = calc
       ELSE \E moved \in IF Len(s.arr) > Len(db.arr) THEN BOOLEAN ELSE {FALSE} :
              calc' = [calc EXCEPT !.quiet = FALSE,
                                   !.array = IF @ = <<>> /\ moved THEN db.arr ELSE @]

At0(f, pc) == fetch[f].pc = pc /\ (f = "loop" => spcUp # "off")
Step0(f, pc) == fetch' = [fetch EXCEPT ![f] = [@ EXCEPT !.pc = pc, !.got = <<>>, !.failed = FALSE,
                                                         !.wins = [w \in Windows |-> 0]]]

\* FetchFromNVD: the windows are asked one at a time through the limiter, whose
\* token a timer takes out 6 s later; Stop ends the timers, and with them the
\* windows that still wait.
StartFetch(f) ==
    /\ spcUp = "up" /\ fetch[f].pc = "idle" /\ syncs < MaxSyncs
    /\ f = "loop" => sweep = <<>>
    /\ Step0(f, "nvd") /\ syncs' = syncs + 1
    /\ UNCHANGED <<db, calc, kevCatalog, synced, limiter, timers, sweep, inventory, correction, savedCves, spcUp, rounds, calcsDone>>
finishedWindow == MaxRetries + 1
\* fetchNVDWindow: a page, a time-out or a 429 (tried again), or an error.
fetchNVDWindow(f, w) ==
    /\ At0(f, "nvd") /\ ~limiter /\ fetch[f].wins[w] < finishedWindow
    /\ limiter' = TRUE /\ timers' = (spcUp = "up")
    /\ \/ \E b \in Feed["nvd"] : fetch' = [fetch EXCEPT ![f].got = @ \o b, ![f].wins[w] = finishedWindow]
       \/ fetch' = [fetch EXCEPT ![f].wins[w] = @ + 1,
                                 ![f].failed = @ \/ fetch[f].wins[w] = MaxRetries]
       \/ fetch' = [fetch EXCEPT ![f].wins[w] = finishedWindow, ![f].failed = TRUE]
    /\ UNCHANGED <<db, calc, kevCatalog, synced, sweep, inventory, correction, savedCves, spcUp, syncs, rounds, calcsDone>>
TimerFires ==
    /\ limiter /\ timers
    /\ limiter' = FALSE /\ timers' = FALSE
    /\ UNCHANGED <<db, calc, kevCatalog, synced, fetch, sweep, inventory, correction, savedCves, spcUp, syncs, rounds, calcsDone>>
\* fetchNVDAPI: an error counts only when no window had anything, and then, as
\* in an empty first synchronisation, the samples take the place of the data.
FetchFromNVD(f) ==
    /\ At0(f, "nvd") /\ \A w \in Windows : fetch[f].wins[w] = finishedWindow
    /\ LET got == fetch[f].got
       IN  Store0(absorb(db, IF got = <<>> /\ (fetch[f].failed \/ ~synced) THEN Samples ELSE got, "nvd"))
    /\ Step0(f, "epss")
    /\ UNCHANGED <<kevCatalog, synced, limiter, timers, sweep, inventory, correction, savedCves, spcUp, syncs, rounds, calcsDone>>

\* The other sources: a source that cannot be read leaves all as it was.
After == [epss |-> "kev", kev |-> "misp", misp |-> "cnnvd", cnnvd |-> "finish"]
Skip(f, source) ==
    /\ At0(f, source) /\ Step0(f, After[source])
    /\ UNCHANGED <<db, calc, kevCatalog, synced, limiter, timers, sweep, inventory, correction, savedCves, spcUp, syncs, rounds, calcsDone>>
FetchFromEPSS(f) ==
    /\ At0(f, "epss") /\ Step0(f, "kev")
    /\ \E b \in Feed["epss"] : Store0(absorb(db, b, "epss"))
    /\ UNCHANGED <<kevCatalog, synced, limiter, timers, sweep, inventory, correction, savedCves, spcUp, syncs, rounds, calcsDone>>
FetchFromCISAKEV(f) ==
    /\ At0(f, "kev") /\ Step0(f, "misp")
    /\ \E b \in Feed["kev"] : /\ Store0(absorb(db, b, "kev"))
                              /\ kevCatalog' = {c.id : c \in Range(b)}
    /\ UNCHANGED <<synced, limiter, timers, sweep, inventory, correction, savedCves, spcUp, syncs, rounds, calcsDone>>
FetchFromMISP(f) ==
    /\ At0(f, "misp") /\ Step0(f, "cnnvd")
    /\ \E b \in Feed["misp"] : Store0(absorb(db, b, "misp"))
    /\ UNCHANGED <<kevCatalog, synced, limiter, timers, sweep, inventory, correction, savedCves, spcUp, syncs, rounds, calcsDone>>
\* FetchFromCNNVD, and FetchFromCNVD, which does the same with its own feed.
FetchFromCNNVD(f) ==
    /\ At0(f, "cnnvd") /\ Step0(f, "finish")
    /\ \E b \in Feed["cnnvd"] : Store0(absorb(db, b, "cnnvd"))
    /\ UNCHANGED <<kevCatalog, synced, limiter, timers, sweep, inventory, correction, savedCves, spcUp, syncs, rounds, calcsDone>>
FinishFetch(f) ==
    /\ At0(f, "finish") /\ Step0(f, IF f = "loop" /\ spcUp = "stopped" THEN "ended" ELSE "idle")
    /\ synced' = TRUE
    /\ savedCves' = IF f = "loop" /\ spcUp = "stopped" /\ db.n > 0 THEN SubSeq(db.arr, 1, db.n) ELSE savedCves
    /\ UNCHANGED <<db, calc, kevCatalog, limiter, timers, sweep, inventory, correction, spcUp, syncs, rounds, calcsDone>>

\* ImportOSCAL, MergeCVEs and ClearCache, which others call.
ImportOSCAL(batch) ==
    /\ spcUp = "up" /\ rounds < MaxRounds /\ rounds' = rounds + 1
    /\ Store0(absorb(db, batch, "oscal"))
    /\ UNCHANGED <<kevCatalog, synced, fetch, limiter, timers, sweep, inventory, correction, savedCves, spcUp, syncs, calcsDone>>
AddCVEs(batch) ==
    /\ spcUp = "up" /\ rounds < MaxRounds /\ rounds' = rounds + 1
    /\ Store0(MergeCVEs(db, batch))
    /\ UNCHANGED <<kevCatalog, synced, fetch, limiter, timers, sweep, inventory, correction, savedCves, spcUp, syncs, calcsDone>>
ClearCache ==
    /\ spcUp = "up" /\ db.n > 0 /\ rounds < MaxRounds /\ rounds' = rounds + 1
    /\ Store0([loaded(<<>>) EXCEPT !.arr = db.arr])
    /\ UNCHANGED <<kevCatalog, synced, fetch, limiter, timers, sweep, inventory, correction, savedCves, spcUp, syncs, calcsDone>>

\* cleanupOldCVEs: the records are copied under the read lock and the cache is
\* replaced under the write lock; what came in between is lost, and the lowered
\* forms stay.
CleanupCopies ==
    /\ spcUp = "up" /\ fetch["loop"].pc = "idle" /\ sweep = <<>> /\ rounds < MaxRounds
    /\ LET kept == {i \in 1..db.n : db.arr[i].recent \/ db.arr[i].kev}
           before(i, j) == i < j
       IN  \E q \in Sortings(kept, before) : Len(q) < db.n /\ sweep' = <<[k \in DOMAIN q |-> db.arr[q[k]]]>>
    /\ rounds' = rounds + 1
    /\ UNCHANGED <<db, calc, kevCatalog, synced, fetch, limiter, timers, inventory, correction, savedCves, spcUp, syncs, calcsDone>>
CleanupReplaces ==
    /\ sweep # <<>> /\ sweep' = <<>>
    /\ db' = [loaded(sweep[1]) EXCEPT !.low = db.low, !.lowDesc = db.lowDesc]
    /\ calc' = IF calc.pc = "reading" /\ calc.array = <<>>
               THEN [calc EXCEPT !.array = db.arr, !.quiet = FALSE] ELSE calc
    /\ UNCHANGED <<kevCatalog, synced, fetch, limiter, timers, inventory, correction, savedCves, spcUp, syncs, rounds, calcsDone>>

\* Start loads the file; Stop ends the timers and saves, and so does the fetch
\* loop when it comes to its select; an empty cache is not saved.  A restart
\* finds the file.
StartSpc ==
    /\ spcUp = "off" /\ spcUp' = "up"
    /\ db' = IF savedCves = <<>> THEN db ELSE loaded(savedCves)
    /\ synced' = (synced \/ savedCves # <<>>)
    /\ UNCHANGED <<calc, kevCatalog, fetch, limiter, timers, sweep, inventory, correction, savedCves, syncs, rounds, calcsDone>>
StopSpc ==
    /\ spcUp = "up" /\ spcUp' = "stopped"
    /\ timers' = FALSE
    /\ savedCves' = IF db.n > 0 THEN SubSeq(db.arr, 1, db.n) ELSE savedCves
    /\ fetch' = [fetch EXCEPT !["loop"].pc = IF @ = "idle" THEN "ended" ELSE @]
    /\ UNCHANGED <<db, calc, kevCatalog, synced, limiter, sweep, inventory, correction, syncs, rounds, calcsDone>>
idleFetch == [f \in Fetchers |-> [pc |-> "idle", got |-> <<>>, failed |-> FALSE, wins |-> [w \in Windows |-> 0]]]
noCalc == [pc |-> "idle", len |-> 0, array |-> <<>>, quiet |-> TRUE, inv |-> <<>>, kevs |-> {}]
RestartSpc ==
    /\ spcUp = "stopped" /\ spcUp' = "off"
    /\ db' = loaded(<<>>) /\ kevCatalog' = {} /\ synced' = FALSE
    /\ fetch' = idleFetch /\ limiter' = FALSE /\ timers' = FALSE /\ sweep' = <<>>
    /\ calc' = noCalc
    /\ UNCHANGED <<inventory, correction, savedCves, syncs, rounds, calcsDone>>

----------------------------------------------------------------------------
\* The posture of a host.

\* versionInRange
versionInRange(v, r) == v = 0 \/ (r[1] <= v /\ v < r[2])
\* compareCPE: "cpe" and "2.3" are the first two of the fields that agree.
compareCPE(inst, vuln) ==
    LET agrees(i) == vuln.name[i] \in {"*", inst.name[i]}
        count == 2 + Cardinality({i \in 1..3 : \A j \in 1..i : agrees(j)})
    IN  IF count >= 5 /\ vuln.range = <<>>
        THEN IF inst.version # 0 /\ vuln.version # 0 THEN 4 ELSE 3
        ELSE IF count >= 4
        THEN IF vuln.range = <<>> \/ versionInRange(inst.version, vuln.range) THEN 3 ELSE 0
        ELSE IF count = 3 THEN 2 ELSE 1
\* matchCPEFast: by description without CPEs; else the best level of any pair,
\* else a package named in a CPE.
matchCPEFast(c, inv, low, desc) ==
    LET cpes == low[1]
        levels == {compareCPE(i, v) : i \in inv.cpes, v \in cpes}
        best == CHOOSE l \in levels : \A m \in levels : m <= l
    IN  IF c.cpes = None0 THEN IF desc # Unset /\ desc[1] \in inv.pkgs THEN 2 ELSE 0
        ELSE IF levels # {} /\ best > 0 THEN best
        ELSE IF \E v \in cpes : Range(v.name) \cap inv.pkgs # {} THEN 2 ELSE 0
matchFactor == <<15, 30, 70, 100>>
determineExposure(zone) ==
    CASE zone = "public" -> 100 [] zone = "dmz" -> 70 [] zone = "localhost" -> 10 [] OTHER -> 40
determineControlLevel(control) ==
    CASE control = "patch" -> 20 [] control = "rules" -> 50 [] OTHER -> 100
penalty(c, level, inv, kevs) ==
    LET kev == IF c.kev \/ c.id \in kevs THEN 100 ELSE IF c.poc THEN 30 ELSE 0
        impact == 20 * c.cvss + 5 * EpssFactor(c.epss) + 3 * kev
        widened == (((impact * (10 + c.techs)) \div 10) * (10 + 2 * c.apts)) \div 10
        scaled(x, percent) == (x * percent) \div 100
    IN  scaled(scaled(scaled(scaled(widened, matchFactor[level]), determineExposure(inv.zone)),
                      determineControlLevel(inv.control)), c.age)
isqrt(x) == CHOOSE r \in 0..x : r * r <= x /\ x < (r + 1) * (r + 1)
ClassifyAction(score) ==
    IF score >= 950 THEN "none" ELSE IF score >= 850 THEN "warn" ELSE IF score >= 750 THEN "patch"
    ELSE IF score >= 650 THEN "priority" ELSE "isolate"

UpsertAsset(asset) ==
    /\ calcsDone < MaxCalcs /\ asset # inventory
    /\ inventory' = asset
    /\ UNCHANGED <<db, kevCatalog, synced, fetch, limiter, timers, sweep, calc, correction, savedCves, spcUp, syncs, rounds, calcsDone>>

neutral(why) == [score |-> 1000, action |-> why, affected |-> <<>>, hits |-> {}, quiet |-> TRUE]
\* Calculate takes the slice under the lock ...
CalculateBegins ==
    /\ spcUp = "up" /\ calc.pc = "idle" /\ calcsDone < MaxCalcs
    /\ IF db.n = 0 \/ (inventory.cpes = {} /\ inventory.pkgs = {})
       THEN /\ correction' = neutral(IF db.n = 0 THEN "no_data" ELSE "no_input")
            /\ calcsDone' = calcsDone + 1 /\ calc' = calc
       ELSE /\ calc' = [pc |-> "reading", len |-> db.n, array |-> <<>>, quiet |-> TRUE,
                        inv |-> inventory, kevs |-> kevCatalog]
            /\ UNCHANGED <<correction, syncs, calcsDone>>
    /\ UNCHANGED <<db, kevCatalog, synced, fetch, limiter, timers, sweep, inventory, savedCves, spcUp, syncs, rounds>>
totalPenalty(len, penalties) ==
    LET squares[i \in 0..len] == IF i = 0 THEN 0 ELSE squares[i - 1] + penalties[i] * penalties[i]
    IN  isqrt(squares[len])
\* ... and walks it without: the lowered forms are taken from their cache, and
\* put there when they are missing.
Calculate ==
    /\ calc.pc = "reading"
    /\ LET seen == SubSeq(IF calc.array = <<>> THEN db.arr ELSE calc.array, 1, calc.len)
           low == [id \in CveIds |->
                     IF db.low[id] = Unset /\ \E c \in Range(seen) : c.id = id /\ c.cpes # None0
                     THEN <<(CHOOSE c \in Range(seen) : c.id = id /\ c.cpes # None0).cpes>> ELSE db.low[id]]
           desc == [id \in CveIds |->
                     IF db.lowDesc[id] = Unset /\ calc.inv.pkgs # {}
                        /\ \E c \in Range(seen) : c.id = id /\ c.cpes = None0
                     THEN <<(CHOOSE c \in Range(seen) : c.id = id /\ c.cpes = None0).desc>> ELSE db.lowDesc[id]]
           level(c) == matchCPEFast(c, calc.inv, low[c.id], desc[c.id])
           penalties == [i \in 1..calc.len |->
                            IF level(seen[i]) = 0 THEN 0 ELSE penalty(seen[i], level(seen[i]), calc.inv, calc.kevs)]
           hits == {[at |-> i, id |-> seen[i].id, level |-> level(seen[i]), penalty |-> penalties[i]] :
                       i \in {j \in 1..calc.len : level(seen[j]) > 0}}
           kept == IF hits = {} THEN 1000 ELSE 1000 - totalPenalty(calc.len, penalties)
           score == IF kept < MinPScore THEN MinPScore ELSE kept
       IN  /\ db' = [db EXCEPT !.low = low, !.lowDesc = desc]
           /\ correction' = [score |-> score, action |-> ClassifyAction(score), hits |-> hits,
                             affected |-> [i \in 1..Cardinality(hits) |->
                                 (CHOOSE h \in hits : Cardinality({g \in hits : g.at <= h.at}) = i).id],
                             quiet |-> calc.quiet]
    /\ calc' = noCalc /\ calcsDone' = calcsDone + 1
    /\ UNCHANGED <<kevCatalog, synced, fetch, limiter, timers, sweep, inventory, savedCves, spcUp, syncs, rounds>>

----------------------------------------------------------------------------
SpcInit ==
    /\ db = loaded(<<>>) /\ kevCatalog = {} /\ synced = FALSE /\ fetch = idleFetch
    /\ limiter = FALSE /\ timers = FALSE /\ sweep = <<>>
    /\ inventory = [cpes |-> {}, pkgs |-> {}, zone |-> "", control |-> ""]
    /\ calc = noCalc /\ correction = neutral("none") /\ savedCves \in SavedFiles /\ spcUp = "off"
    /\ syncs = 0 /\ rounds = 0 /\ calcsDone = 0

SpcNext ==
    \/ \E f \in Fetchers : \/ StartFetch(f) \/ FetchFromNVD(f) \/ FetchFromEPSS(f)
                           \/ FetchFromCISAKEV(f) \/ FetchFromMISP(f) \/ FetchFromCNNVD(f)
                           \/ FinishFetch(f)
                           \/ \E w \in Windows : fetchNVDWindow(f, w)
                           \/ \E source \in DOMAIN After : Skip(f, source)
    \/ TimerFires
    \/ \E batch \in Feed["other"] : ImportOSCAL(batch) \/ AddCVEs(batch)
    \/ ClearCache \/ CleanupCopies \/ CleanupReplaces
    \/ StartSpc \/ StopSpc \/ RestartSpc
    \/ \E asset \in Inventories : UpsertAsset(asset)
    \/ CalculateBegins \/ Calculate
SpcSpec == SpcInit /\ [][SpcNext]_spcVars

----------------------------------------------------------------------------
\* However feeds, imports, evictions, clean-ups and restarts follow each other,
\* the index is the cache's: every CVE is at the place its index says, once, and
\* no other has an index (every later merge, mark or eviction goes by it); the
\* cache outgrows its size only by known exploited CVEs.
CacheSound ==
    /\ \A id \in CveIds : \A i \in 1..db.n : db.arr[i].id = id <=> db.index[id] = i
    /\ \A id \in CveIds : db.index[id] \in 0..db.n
    /\ db.n > MaxCacheSize => \A i \in 1..db.n : db.arr[i].kev

\* A posture no other step ran into counts every CVE once, and no CVE is hidden
\* by the others: the score is at most what the worst CVE alone leaves, or the
\* configured minimum.
CorrectionSound ==
    /\ correction.score \in MinPScore..1000
    /\ correction.quiet => \A g, h \in correction.hits : g.id = h.id => g = h
    /\ \A h \in correction.hits : correction.score > MinPScore => correction.score <= 1000 - h.penalty

\* Both: the scores that go into the assessment come from a cache in which every
\* vulnerability is found, merged and evicted under its own number.
SpcSound == CacheSound /\ CorrectionSound

\* The levels of the user manual (docs/en/user-manual.md, 8.9) that a CPE match
\* may have: from "vendor" on the vendor is the same, from "product" on the
\* product too, and "exact" means the same version.
documented(inst, vuln, level) ==
    /\ level >= 1 => vuln.name[2] \in {"*", inst.name[2]}
    /\ level >= 2 => vuln.name[3] \in {"*", inst.name[3]}
    /\ level = 4 => inst.version = vuln.version
MatchAsDocumented ==
    \A h \in correction.hits, i \in 1..db.n :
        correction.quiet /\ db.arr[i].id = h.id /\ db.arr[i].cpes # None0 =>
            \E vuln \in db.arr[i].cpes :
                \/ h.level = 2 /\ Range(vuln.name) \cap inventory.pkgs # {}
                \/ \E inst \in inventory.cpes : documented(inst, vuln, h.level)
===============================================================================
