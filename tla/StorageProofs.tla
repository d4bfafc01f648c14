--------------------------- MODULE StorageProofs ---------------------------
(***************************************************************************)
(* Proofs about Persistence, for any datasets, buffers, retention and      *)
(* length of the year, and any number of records, failures and crashes;    *)
(* and about SourceManager, for any sources, dependencies and requests.    *)
(* And about LocalAssessment, for any checks, tools, reports, techniques   *)
(* and configurations, in any order of answers, failures and reloads; and  *)
(* about Adapters, for any outputs of their tools.                         *)
(***************************************************************************)
EXTENDS Persistence, SourceManager, LocalAssessment, FiniteSetTheorems, WellFoundedInduction, TLAPS

-----------------------------------------------------------------------------
(* One dataset: its directory and its writer.                              *)

Recs == [id : Nat, day : Nat \ {0}, into : Nat \ {0}, late : BOOLEAN]
Writers == [file : Nat, linked : BOOLEAN, buf : Seq(Recs), broken : BOOLEAN]
Files == [recs : Seq(Recs), touched : Nat]
Directories == UNION {[S -> Files] : S \in SUBSET (Nat \ {0})}

Stored(files) == UNION {Range(files[n].recs) : n \in DOMAIN files}
Held(files, w) == Stored(files) \cup Range(w.buf)

\* A record belongs to the file of day n.
Belongs(r, n) == r.into = n /\ r.day >= n /\ YearDay(r.day) = YearDay(n)

\* The files of a directory at day t.
FilesInv(files, t) ==
    /\ files \in Directories
    /\ \A n \in DOMAIN files : n <= files[n].touched /\ n <= t
    /\ \A n \in DOMAIN files : \A r \in Range(files[n].recs) : Belongs(r, n)

\* The writer, with Stop at c.  A file removed behind its writer is from an earlier day, so
\* the records that go into it are of another day than the file.
WriterInv(files, w, t, c) ==
    /\ w \in Writers /\ w.file <= t
    /\ w.file = NoInode => w = Fresh
    /\ w.linked => w.file \in DOMAIN files
    /\ \A r \in Range(w.buf) : Belongs(r, w.file)
    /\ w.file # NoInode /\ ~w.linked /\ ~w.broken => w.file < t /\ \A r \in Range(w.buf) : r.into # r.day
    /\ c = "no" /\ ~w.broken => \A r \in Range(w.buf) : r.day >= t - 1
    /\ c = "stopped" /\ ~w.broken => \A r \in Range(w.buf) : r.late

PairInv(files, w, t, c) ==
    /\ FilesInv(files, t) /\ WriterInv(files, w, t, c)
    /\ Stored(files) \cap Range(w.buf) = {}

\* From one pair to another no record appears, none leaves the disk, and one is only lost from
\* a broken buffer or with a file that was removed.
Keeps(files, w, gs, x) ==
    /\ Stored(files) \subseteq Stored(gs)
    /\ Held(gs, x) \subseteq Held(files, w)
    /\ \A r \in Held(files, w) \ Held(gs, x) : w.broken \/ r.into # r.day

LEMMA ConcatRange ==
    ASSUME NEW S, NEW s \in Seq(S), NEW t \in Seq(S)
    PROVE  Range(s \o t) = Range(s) \cup Range(t)
<1>1. \A k \in DOMAIN s : (s \o t)[k] = s[k] /\ k \in DOMAIN (s \o t)
  OBVIOUS
<1>2. \A k \in DOMAIN t : (s \o t)[Len(s) + k] = t[k] /\ Len(s) + k \in DOMAIN (s \o t)
  OBVIOUS
<1>3. \A k \in DOMAIN (s \o t) : k \in DOMAIN s \/ (k - Len(s) \in DOMAIN t /\ (s \o t)[k] = t[k - Len(s)])
  OBVIOUS
<1>4. Range(s) \subseteq Range(s \o t)
  BY <1>1 DEF Range
<1>5. Range(t) \subseteq Range(s \o t)
  BY <1>2 DEF Range
<1>6. Range(s \o t) \subseteq Range(s) \cup Range(t)
  <2> SUFFICES ASSUME NEW k \in DOMAIN (s \o t) PROVE (s \o t)[k] \in Range(s) \cup Range(t)
    BY DEF Range
  <2>1. CASE k \in DOMAIN s
    BY <1>1, <2>1 DEF Range
  <2>2. CASE k \notin DOMAIN s
    BY <1>3, <2>2 DEF Range
  <2> QED
    BY <2>1, <2>2
<1> QED
  BY <1>4, <1>5, <1>6

LEMMA AppendRange ==
    ASSUME NEW S, NEW s \in Seq(S), NEW e \in S
    PROVE  Append(s, e) \in Seq(S) /\ Range(Append(s, e)) = Range(s) \cup {e}
<1>1. /\ DOMAIN Append(s, e) = 1 .. Len(s) + 1 /\ DOMAIN s = 1 .. Len(s) /\ Len(s) \in Nat
      /\ \A k \in DOMAIN s : Append(s, e)[k] = s[k]
      /\ Append(s, e)[Len(s) + 1] = e
  OBVIOUS
<1>2. \A k \in 1 .. Len(s) + 1 : k \in DOMAIN s \/ k = Len(s) + 1
  BY <1>1
<1>3. Range(s) \subseteq Range(Append(s, e)) /\ e \in Range(Append(s, e))
  BY <1>1 DEF Range
<1>4. Range(Append(s, e)) \subseteq Range(s) \cup {e}
  BY <1>1, <1>2 DEF Range
<1> QED
  BY <1>3, <1>4

LEMMA FreshWriter ==
    ASSUME NEW files, NEW t \in Nat, NEW c
    PROVE  WriterInv(files, Fresh, t, c) /\ Fresh \in Writers /\ Range(Fresh.buf) = {}
<1>1. <<>> \in Seq(Recs) /\ Range(<<>>) = {}
  BY DEF Range
<1>2. Fresh \in Writers
  BY <1>1 DEF Writers, Fresh, NoInode
<1> QED
  BY <1>1, <1>2 DEF WriterInv, Fresh, NoInode

\* A flush that works moves the buffer to disk.
LEMMA FlushKeeps ==
    ASSUME NEW files, NEW w, NEW c, day \in Nat \ {0}, PairInv(files, w, day, c), ~w.broken,
           NEW x, x = [w EXCEPT !.buf = <<>>] \/ x = Fresh
    PROVE  PairInv(Flushed(files, w), x, day, c) /\ Keeps(files, w, Flushed(files, w), x)
<1> DEFINE gs == Flushed(files, w)
<1>1. files \in Directories /\ w \in Writers
  BY DEF PairInv, FilesInv, WriterInv
<1>2. Range(<<>>) = {} /\ Range(x.buf) = {}
  BY <1>1 DEF Range, Fresh, Writers
<1>3. x \in Writers
  <2>1. <<>> \in Seq(Recs)
    OBVIOUS
  <2>2. [w EXCEPT !.buf = <<>>] \in Writers
    BY <1>1, <2>1 DEF Writers
  <2> QED
    BY <2>2, FreshWriter
<1>4. CASE w.buf = <<>> \/ ~w.linked
  <2>1. gs = files
    BY <1>4 DEF Flushed
  <2>2. WriterInv(files, x, day, c)
    BY <1>1, <1>2, <1>3, <1>4 DEF PairInv, WriterInv, Writers, Fresh, NoInode
  <2>3. \A r \in Range(w.buf) : r.into # r.day
    BY <1>2, <1>4 DEF PairInv, WriterInv, Fresh
  <2> QED
    BY <2>1, <2>2, <2>3, <1>2 DEF PairInv, Keeps, Held
<1>5. CASE w.buf # <<>> /\ w.linked
  <2>1. w.file \in DOMAIN files /\ files[w.file] \in Files
    BY <1>1, <1>5 DEF PairInv, WriterInv, Directories
  <2>2. /\ DOMAIN gs = DOMAIN files
        /\ \A n \in DOMAIN files : n # w.file => gs[n] = files[n]
        /\ gs[w.file].recs = files[w.file].recs \o w.buf /\ gs[w.file].touched = day
        /\ gs[w.file] \in Files
    BY <1>1, <1>5, <2>1 DEF Flushed, Files, Writers, Directories
  <2>3. Range(gs[w.file].recs) = Range(files[w.file].recs) \cup Range(w.buf)
    BY <1>1, <2>1, <2>2, ConcatRange DEF Files, Writers
  <2>4. Stored(gs) = Stored(files) \cup Range(w.buf)
    <3>1. \A n \in DOMAIN files : n # w.file => Range(gs[n].recs) = Range(files[n].recs)
      BY <2>2
    <3>2. Stored(gs) \subseteq Stored(files) \cup Range(w.buf)
      BY <2>1, <2>2, <2>3, <3>1 DEF Stored
    <3>3. Stored(files) \subseteq Stored(gs)
      BY <2>1, <2>2, <2>3, <3>1 DEF Stored
    <3>4. Range(w.buf) \subseteq Stored(gs)
      BY <2>1, <2>2, <2>3 DEF Stored
    <3> QED
      BY <3>2, <3>3, <3>4
  <2>5. gs \in Directories
    <3>1. PICK S \in SUBSET (Nat \ {0}) : files \in [S -> Files]
      BY <1>1 DEF Directories
    <3>2. gs \in [S -> Files]
      BY <1>5, <2>1, <2>2, <3>1 DEF Flushed
    <3> QED
      BY <3>2 DEF Directories
  <2>6. FilesInv(gs, day)
    BY <2>1, <2>2, <2>3, <2>5 DEF FilesInv, PairInv, WriterInv
  <2>7. WriterInv(gs, x, day, c)
    <3>1. CASE x = Fresh
      BY <3>1, FreshWriter
    <3>2. CASE x = [w EXCEPT !.buf = <<>>]
      <4>1. x.file = w.file /\ x.linked = w.linked
        BY <1>1, <3>2 DEF Writers
      <4>2. w.file # NoInode
        BY <1>5 DEF PairInv, WriterInv, Fresh
      <4> QED
        BY <1>2, <1>3, <1>5, <2>2, <4>1, <4>2 DEF PairInv, WriterInv
    <3> QED
      BY <3>1, <3>2
  <2> QED
    BY <2>4, <2>6, <2>7, <1>2 DEF PairInv, Keeps, Held
<1> QED
  BY <1>4, <1>5

\* The file of the day is opened for a writer that has none.
LEMMA OpenKeeps ==
    ASSUME NEW files, NEW c, day \in Nat \ {0}, FilesInv(files, day),
           NEW x, x = [Fresh EXCEPT !.file = day, !.linked = TRUE]
    PROVE  PairInv(Opened(files), x, day, c) /\ Stored(Opened(files)) = Stored(files)
<1> DEFINE gs == Opened(files)
<1>1. PICK S \in SUBSET (Nat \ {0}) : files \in [S -> Files]
  BY DEF FilesInv, Directories
<1>2. <<>> \in Seq(Recs) /\ Range(<<>>) = {}
  BY DEF Range
<1>3. /\ DOMAIN gs = DOMAIN files \cup {day}
      /\ \A n \in DOMAIN files : gs[n] = files[n]
      /\ day \notin DOMAIN files => gs[day] = [recs |-> <<>>, touched |-> day]
  BY DEF Opened
<1>4. gs \in Directories
  <2>1. gs \in [S \cup {day} -> Files]
    BY <1>1, <1>2, <1>3 DEF Opened, Files
  <2> QED
    BY <2>1, <1>1 DEF Directories
<1>5. Stored(gs) = Stored(files)
  BY <1>2, <1>3 DEF Stored
<1>6. FilesInv(gs, day)
  BY <1>2, <1>3, <1>4 DEF FilesInv
<1>7. x.file = day /\ x.linked /\ x.buf = <<>> /\ ~x.broken /\ x \in Writers
  BY <1>2 DEF Fresh, Writers, NoInode
<1> QED
  BY <1>2, <1>3, <1>5, <1>6, <1>7 DEF PairInv, WriterInv, NoInode

Buffered(w, r) == [w EXCEPT !.buf = Append(@, r)]

\* A record is put into the buffer of a file of a day of the same number.
LEMMA AppendKeeps ==
    ASSUME NEW files, NEW w, NEW r, day \in Nat \ {0}, PairInv(files, w, day, closing),
           w.file # NoInode, YearDay(w.file) = YearDay(day),
           r \in Recs, r.into = w.file, r.day = day, closing = "stopped" => r.late, r \notin Stored(files),
           ~w.broken
    PROVE  PairInv(files, Buffered(w, r), day, closing) /\ Held(files, Buffered(w, r)) = Held(files, w) \cup {r}
<1> DEFINE x == Buffered(w, r)
<1>1. w \in Writers
  BY DEF PairInv, WriterInv
<1>2. Range(x.buf) = Range(w.buf) \cup {r} /\ x \in Writers
  <2>1. w.buf \in Seq(Recs) /\ x.buf = Append(w.buf, r)
    BY <1>1 DEF Writers, Buffered
  <2>2. x.buf \in Seq(Recs) /\ Range(x.buf) = Range(w.buf) \cup {r}
    BY <2>1, AppendRange
  <2> QED
    BY <1>1, <2>2 DEF Writers, Buffered
<1>3. x.file = w.file /\ x.linked = w.linked /\ ~x.broken
  BY <1>1 DEF Writers, Buffered
<1>4. w.file \in Nat /\ w.file <= day
  BY <1>1 DEF PairInv, WriterInv, Writers
<1>5. WriterInv(files, x, day, closing)
  BY <1>2, <1>3, <1>4 DEF PairInv, WriterInv, Belongs
<1> QED
  BY <1>2, <1>5 DEF PairInv, Held

LEMMA KeepsTransitive ==
    ASSUME NEW f, NEW w, NEW g, NEW x, NEW h, NEW y,
           Keeps(f, w, g, x), Keeps(g, x, h, y), x.broken => w.broken
    PROVE  Keeps(f, w, h, y)
BY DEF Keeps

\* The roll-over before a write.
LEMMA RollKeeps ==
    ASSUME NEW files, NEW w, NEW c, day \in Nat \ {0}, PairInv(files, w, day, c)
    PROVE  /\ PairInv(afterRoll(files, w), rolled(w), day, c)
           /\ Keeps(files, w, afterRoll(files, w), rolled(w))
           /\ rolled(w).broken => w.broken
           /\ rolled(w).file # NoInode => YearDay(rolled(w).file) = YearDay(day)
<1>1. FilesInv(files, day) /\ ~Fresh.broken /\ Fresh.file = NoInode
  BY DEF PairInv, Fresh
<1>2. CASE ~rolls(w)
  BY <1>2 DEF afterRoll, rolled, rolls, Keeps
<1>3. CASE rolls(w) /\ ~w.broken
  BY <1>1, <1>3, FlushKeeps DEF afterRoll, rolled
<1>4. CASE rolls(w) /\ w.broken
  <2>1. PairInv(files, Fresh, day, c)
    BY <1>1, FreshWriter DEF PairInv
  <2>2. Keeps(files, w, files, Fresh)
    BY <1>4, FreshWriter DEF Keeps, Held
  <2> QED
    BY <1>1, <1>4, <2>1, <2>2 DEF afterRoll, rolled
<1> QED
  BY <1>2, <1>3, <1>4

-----------------------------------------------------------------------------
(* All datasets.                                                           *)

HeldAt(d) == Held(dayFiles[d], writers[d])

\* From this state to the next the dataset d keeps its records, and gains N.
Gains(d, N) ==
    /\ PairInv(dayFiles'[d], writers'[d], day, closing)
    /\ writers'[d].broken => writers[d].broken
    /\ Stored(dayFiles[d]) \subseteq Stored(dayFiles'[d])
    /\ HeldAt(d)' \subseteq HeldAt(d) \cup N /\ N \subseteq HeldAt(d)'
    /\ \A r \in HeldAt(d) \ HeldAt(d)' : writers[d].broken \/ r.into # r.day

DataInv ==
    /\ day \in Nat \ {0} /\ closing \in {"no", "stopping", "stopped"}
    /\ crashes \in Nat /\ diskFaults \in Nat
    /\ writers \in [Datasets -> Writers] /\ dayFiles \in [Datasets -> Directories]
    /\ \A d \in Datasets : PairInv(dayFiles[d], writers[d], day, closing)
    /\ \A d \in Datasets : writers[d].broken => diskFaults > 0

\* An Append that succeeds adds its record; one that finds the buffer broken adds nothing.
LEMMA WriteKeeps ==
    ASSUME DataInv, NEW d \in Datasets, NEW n \in Nat, write(d, n), \A r \in HeldAt(d) : r.id # n
    PROVE  /\ \A e \in Datasets \ {d} : dayFiles'[e] = dayFiles[e] /\ writers'[e] = writers[e]
           /\ writers' \in [Datasets -> Writers] /\ dayFiles' \in [Datasets -> Directories]
           /\ \E N \in SUBSET {Record(n, rolled(writers[d]))} :
                 acked' = acked \cup N /\ Gains(d, N)
<1> DEFINE w0 == writers[d]
           w == rolled(w0)
           files == afterRoll(dayFiles[d], w0)
           there == IF w.file = NoInode THEN Opened(files) ELSE files
           full == Len(w.buf) = BufferRecords
           v == [w EXCEPT !.file = IF @ = NoInode THEN day ELSE @, !.linked = w.file = NoInode \/ @]
           r == Record(n, w)
<1>1. /\ day \in Nat \ {0} /\ PairInv(dayFiles[d], w0, day, closing)
      /\ writers \in [Datasets -> Writers] /\ dayFiles \in [Datasets -> Directories]
  BY DEF DataInv
<1>2. /\ PairInv(files, w, day, closing) /\ Keeps(dayFiles[d], w0, files, w) /\ (w.broken => w0.broken)
      /\ (w.file # NoInode => YearDay(w.file) = YearDay(day))
  BY <1>1, RollKeeps
<1>3. CASE w.broken
  <2>1. /\ writers' = [writers EXCEPT ![d] = Fresh] /\ dayFiles' = [dayFiles EXCEPT ![d] = files]
        /\ acked' = acked
    BY <1>3 DEF write
  <2>2. PairInv(files, Fresh, day, closing) /\ ~Fresh.broken /\ files \in Directories
    BY <1>1, <1>2, FreshWriter DEF PairInv, FilesInv, Fresh
  <2>3. Stored(dayFiles[d]) \subseteq Stored(files) /\ Held(files, Fresh) \subseteq Held(dayFiles[d], w0)
    BY <1>2, FreshWriter DEF Keeps, Held
  <2>4. writers'[d] = Fresh /\ dayFiles'[d] = files
    BY <1>1, <2>1
  <2>5. Gains(d, {})
    BY <1>2, <1>3, <2>2, <2>3, <2>4 DEF Gains, HeldAt
  <2> QED
    BY <1>1, <2>1, <2>2, <2>5, FreshWriter
<1>4. CASE ~w.broken
  <2> DEFINE gs == IF full THEN Flushed(there, v) ELSE there
             x == [v EXCEPT !.buf = IF full THEN <<>> ELSE @]
             y == [v EXCEPT !.buf = Append(IF full THEN <<>> ELSE @, r)]
  <2>1. /\ dayFiles' = [dayFiles EXCEPT ![d] = gs]
        /\ writers' = [writers EXCEPT ![d] = y]
        /\ acked' = acked \cup {r}
    BY <1>4 DEF write
  <2>2. w \in Writers /\ <<>> \in Seq(Recs) /\ (w.file = NoInode => w = Fresh)
    BY <1>2 DEF PairInv, WriterInv
  <2>3. /\ PairInv(there, v, day, closing) /\ Keeps(files, w, there, v) /\ ~v.broken
        /\ v.file # NoInode /\ YearDay(v.file) = YearDay(day) /\ v.buf = w.buf /\ v \in Writers
    <3>1. CASE w.file = NoInode
      <4>1. v = [Fresh EXCEPT !.file = day, !.linked = TRUE] /\ there = Opened(files) /\ v.file = day
        BY <2>2, <3>1 DEF Fresh
      <4>2. PairInv(there, v, day, closing) /\ Stored(there) = Stored(files)
        <5>1. FilesInv(files, day)
          BY <1>2 DEF PairInv
        <5> HIDE DEF there, v, files
        <5> QED
          BY <1>1, <4>1, <5>1, OpenKeeps
      <4>3. w = Fresh /\ v.buf = w.buf /\ ~v.broken /\ day # NoInode
        BY <1>1, <2>2, <3>1, <4>1 DEF Fresh, NoInode
      <4> QED
        BY <4>1, <4>2, <4>3 DEF Keeps, Held, PairInv, WriterInv
    <3>2. CASE w.file # NoInode
      <4>1. v.file = w.file /\ v.linked = w.linked /\ v.buf = w.buf /\ v.broken = w.broken /\ v \in Writers
        BY <2>2, <3>2 DEF Writers
      <4>2. v = w /\ there = files
        BY <2>2, <3>2, <4>1 DEF Writers
      <4> QED
        BY <1>2, <1>4, <2>2, <3>2, <4>2 DEF Keeps
    <3> QED
      BY <3>1, <3>2
  <2>4. PairInv(gs, x, day, closing) /\ Keeps(there, v, gs, x) /\ ~x.broken /\ x.file = v.file /\ x \in Writers
    <3>1. x.file = v.file /\ x.broken = v.broken /\ x \in Writers
      BY <2>2, <2>3 DEF Writers
    <3>2. CASE full
      BY <1>1, <2>3, <3>1, <3>2, FlushKeeps
    <3>3. CASE ~full
      <4>1. x = v
        BY <2>3, <3>3 DEF Writers
      <4> QED
        BY <2>3, <3>3, <4>1 DEF Keeps
    <3> QED
      BY <3>2, <3>3, <3>1, <2>3
  <2>5. Keeps(dayFiles[d], w0, gs, x)
    <3> HIDE DEF there, v, files, gs, x, w
    <3>1. Keeps(dayFiles[d], w0, there, v)
      BY <1>2, <2>3, KeepsTransitive
    <3> QED
      BY <2>3, <2>4, <3>1, KeepsTransitive
  <2>6. PairInv(gs, y, day, closing) /\ Held(gs, y) = Held(gs, x) \cup {r} /\ ~y.broken
    <3>1. r = [id |-> n, day |-> day, into |-> v.file, late |-> closing # "no"]
      BY <2>2, <2>3 DEF Record
    <3>2. r \in Recs /\ r.into = v.file /\ r.day = day /\ (closing = "stopped" => r.late) /\ r.id = n
      <4>1. r \in Recs
        <5>1. day \in Nat \ {0} /\ v.file \in Nat \ {0} /\ (closing # "no") \in BOOLEAN
          BY <1>1, <2>3 DEF Writers, NoInode
        <5>2. r.id \in Nat /\ r.day \in Nat \ {0} /\ r.into \in Nat \ {0}
          BY <3>1, <5>1
        <5>3. r.late \in BOOLEAN
          BY <3>1, <5>1
        <5>4. r = [id |-> r.id, day |-> r.day, into |-> r.into, late |-> r.late]
          BY <3>1
        <5> HIDE DEF r
        <5> QED
          BY <5>2, <5>3, <5>4 DEF Recs
      <4>2. r.into = v.file /\ r.day = day /\ r.id = n /\ r.late = (closing # "no")
        BY <3>1
      <4> QED
        BY <4>1, <4>2
    <3>3. r \notin Stored(gs)
      BY <2>5, <3>2 DEF Keeps, HeldAt, Held
    <3>4. y = Buffered(x, r)
      BY <2>3 DEF Writers, Buffered
    <3>5. ~y.broken
      BY <2>4, <3>4 DEF Writers, Buffered
    <3> HIDE DEF gs, x, y, r, v, there, w, files
    <3> QED
      <4>1. r.into = x.file /\ YearDay(x.file) = YearDay(day) /\ x.file # NoInode
        BY <2>3, <2>4, <3>2
      <4>2. PairInv(gs, y, day, closing) /\ Held(gs, y) = Held(gs, x) \cup {r}
        BY <1>1, <2>4, <3>2, <3>3, <3>4, <4>1, AppendKeeps
      <4> QED
        BY <3>5, <4>2
  <2>7. Gains(d, {r})
    BY <1>1, <2>1, <2>5, <2>6 DEF Gains, HeldAt, Keeps
  <2> QED
    BY <1>1, <2>1, <2>6, <2>7 DEF PairInv, WriterInv, FilesInv
<1> QED
  BY <1>3, <1>4

LEMMA GainsNothing ==
    ASSUME DataInv, NEW d \in Datasets, dayFiles'[d] = dayFiles[d], writers'[d] = writers[d]
    PROVE  Gains(d, {})
BY DEF DataInv, Gains, HeldAt

\* The file of the day cannot be opened.
LEMMA OpenFailsKeeps ==
    ASSUME DataInv, NEW d \in Datasets, openFails(d)
    PROVE  /\ writers' \in [Datasets -> Writers] /\ dayFiles' \in [Datasets -> Directories]
           /\ acked' = acked /\ \A e \in Datasets : Gains(e, {})
<1>1. /\ day \in Nat \ {0} /\ PairInv(dayFiles[d], writers[d], day, closing)
      /\ writers \in [Datasets -> Writers] /\ dayFiles \in [Datasets -> Directories]
  BY DEF DataInv
<1>2. /\ PairInv(afterRoll(dayFiles[d], writers[d]), rolled(writers[d]), day, closing)
      /\ Keeps(dayFiles[d], writers[d], afterRoll(dayFiles[d], writers[d]), rolled(writers[d]))
  BY <1>1, RollKeeps
<1>3. /\ rolled(writers[d]) = Fresh /\ afterRoll(dayFiles[d], writers[d]) \in Directories
  BY <1>2 DEF openFails, PairInv, WriterInv, FilesInv
<1>4. /\ writers' = [writers EXCEPT ![d] = Fresh] /\ acked' = acked
      /\ dayFiles' = [dayFiles EXCEPT ![d] = afterRoll(dayFiles[d], writers[d])]
  BY DEF openFails
<1>5. writers'[d] = Fresh /\ dayFiles'[d] = afterRoll(dayFiles[d], writers[d]) /\ ~Fresh.broken
  BY <1>1, <1>4 DEF Fresh
<1>6. Gains(d, {})
  BY <1>2, <1>3, <1>5 DEF Gains, Keeps, HeldAt
<1>7. \A e \in Datasets \ {d} : dayFiles'[e] = dayFiles[e] /\ writers'[e] = writers[e]
  BY <1>1, <1>4
<1> QED
  BY <1>1, <1>3, <1>4, <1>6, <1>7, GainsNothing, FreshWriter

\* jsonlWriter.close moves every buffer to disk but the broken ones.
LEMMA CloseKeeps ==
    ASSUME DataInv, closeAll
    PROVE  /\ writers' \in [Datasets -> Writers] /\ dayFiles' \in [Datasets -> Directories]
           /\ \A d \in Datasets : Gains(d, {}) /\ writers'[d] \in {writers[d], Fresh}
           /\ \A d \in Datasets : writers'[d] # Fresh => writers'[d].broken
<1>1. SUFFICES ASSUME NEW d \in Datasets
               PROVE  /\ writers'[d] \in Writers /\ dayFiles'[d] \in Directories
                      /\ Gains(d, {}) /\ writers'[d] \in {writers[d], Fresh}
                      /\ writers'[d] # Fresh => writers'[d].broken
  BY DEF closeAll
<1>2. /\ day \in Nat \ {0} /\ PairInv(dayFiles[d], writers[d], day, closing)
      /\ writers[d] \in Writers /\ dayFiles[d] \in Directories
  BY DEF DataInv
<1>3. CASE writers[d].broken
  BY <1>2, <1>3, GainsNothing DEF closeAll, closed
<1>4. CASE ~writers[d].broken
  <2>1. writers'[d] = Fresh /\ dayFiles'[d] = Flushed(dayFiles[d], writers[d])
    BY <1>4 DEF closeAll, closed
  <2>2. /\ PairInv(dayFiles'[d], Fresh, day, closing)
        /\ Keeps(dayFiles[d], writers[d], dayFiles'[d], Fresh) /\ ~Fresh.broken
    BY <1>2, <1>4, <2>1, FlushKeeps DEF Fresh
  <2>3. Gains(d, {})
    BY <2>1, <2>2 DEF Gains, Keeps, HeldAt
  <2> QED
    BY <2>1, <2>2, <2>3, FreshWriter DEF PairInv, FilesInv
<1> QED
  BY <1>3, <1>4

-----------------------------------------------------------------------------
(* The records.                                                            *)

Excused(r) == r.id \in expired \/ crashes > 0 \/ diskFaults > 0 \/ r.late \/ r.into # r.day

\* A record acknowledged is at one dataset, or there is a reason that it is not.
RecordsInv ==
    /\ acked \subseteq Recs /\ IsFiniteSet(acked)
    /\ \A r \in acked : r.id <= Cardinality(acked)
    /\ \A r, s \in acked : r.id = s.id => r = s
    /\ \A d \in Datasets : HeldAt(d) \subseteq acked
    /\ \A d, e \in Datasets : d # e => HeldAt(d) \cap HeldAt(e) = {}
    /\ \A r \in acked : Excused(r) \/ \E d \in Datasets : r \in HeldAt(d)

LEMMA RecordsLost ==
    ASSUME RecordsInv, acked' = acked,
           \A d \in Datasets : HeldAt(d)' \subseteq HeldAt(d),
           \A d \in Datasets : \A r \in HeldAt(d) \ HeldAt(d)' : Excused(r)',
           \A r \in acked : Excused(r) => Excused(r)'
    PROVE  RecordsInv'
<1>1. acked' \subseteq Recs /\ IsFiniteSet(acked') /\ \A r \in acked' : r.id <= Cardinality(acked)'
  BY DEF RecordsInv
<1>2. \A r, s \in acked' : r.id = s.id => r = s
  BY DEF RecordsInv
<1>3. \A d \in Datasets : HeldAt(d)' \subseteq acked'
  BY DEF RecordsInv
<1>4. \A d, e \in Datasets : d # e => HeldAt(d)' \cap HeldAt(e)' = {}
  BY DEF RecordsInv
<1>5. \A r \in acked' : Excused(r)' \/ \E d \in Datasets : r \in HeldAt(d)'
  BY DEF RecordsInv
<1> QED
  BY <1>1, <1>2, <1>3, <1>4, <1>5 DEF RecordsInv

\* The identifiers of a directory and of a buffer.
LEMMA IdsOfRange == ASSUME NEW q PROVE ids(q) = {r.id : r \in Range(q)}
BY DEF ids, Range

LEMMA IdsOfFiles ==
    ASSUME NEW files
    PROVE  UNION {ids(files[n].recs) : n \in DOMAIN files} = {r.id : r \in Stored(files)}
BY IdsOfRange DEF Stored

DiskIds == {r.id : r \in UNION {Stored(dayFiles[d]) : d \in Datasets}}

LEMMA IdsOnDisk ==
    /\ \A d \in Datasets : onDisk(d) = {r.id : r \in Stored(dayFiles[d])}
    /\ \A d \in Datasets : buffered(d) = {r.id : r \in Range(writers[d].buf)}
    /\ allOnDisk = DiskIds
<1>1. /\ \A d \in Datasets : onDisk(d) = {r.id : r \in Stored(dayFiles[d])}
      /\ \A d \in Datasets : buffered(d) = {r.id : r \in Range(writers[d].buf)}
  BY IdsOfFiles, IdsOfRange DEF onDisk, buffered
<1> QED
  BY <1>1 DEF allOnDisk, DiskIds

\* What has been copied is on disk still, or expired.
CopiesInv ==
    /\ snapshotsKept # <<>> => snapshotsKept[Len(snapshotsKept)] \subseteq DiskIds \cup expired
    /\ snapshotsKept \in Seq(SUBSET Nat)
    /\ CopiesGrow

LEMMA CopiesStay ==
    ASSUME CopiesInv, UNCHANGED <<snapshotsKept, archives>>, acked \subseteq acked', expired \subseteq expired',
           DiskIds \subseteq DiskIds' \cup expired'
    PROVE  CopiesInv'
BY DEF CopiesInv, CopiesGrow

RowsInv == DataInv /\ RecordsInv /\ CopiesInv

\* A step that moves records between buffers and files.
LEMMA QuietStep ==
    ASSUME RowsInv, \A d \in Datasets : Gains(d, {}), UNCHANGED <<acked, expired, snapshotsKept, archives, crashes>>,
           diskFaults' \in Nat, diskFaults' >= diskFaults
    PROVE  RecordsInv' /\ CopiesInv'
<1>1. \A d \in Datasets : /\ Stored(dayFiles[d]) \subseteq Stored(dayFiles'[d])
                          /\ HeldAt(d)' \subseteq HeldAt(d)
                          /\ \A r \in HeldAt(d) \ HeldAt(d)' : diskFaults > 0 \/ r.into # r.day
  BY DEF Gains, RowsInv, DataInv
<1>2. \A r : Excused(r) => Excused(r)'
  BY DEF Excused, RowsInv, DataInv
<1>3. \A d \in Datasets : \A r \in HeldAt(d) \ HeldAt(d)' : Excused(r)'
  BY <1>1 DEF Excused, RowsInv, DataInv
<1>4. RecordsInv'
  BY <1>1, <1>2, <1>3, RecordsLost DEF RowsInv
<1>5. DiskIds \subseteq DiskIds'
  BY <1>1 DEF DiskIds
<1> QED
  BY <1>4, <1>5, CopiesStay DEF RowsInv

\* A record acknowledged anew.
LEMMA NewRecord ==
    ASSUME RowsInv, NEW d \in Datasets, NEW r \in Recs, r.id = numbered, acked' = acked \cup {r},
           Gains(d, {r}), \A e \in Datasets \ {d} : Gains(e, {}),
           UNCHANGED <<expired, snapshotsKept, archives, crashes, diskFaults>>
    PROVE  RecordsInv' /\ CopiesInv'
<1> USE DEF RowsInv
<1>1. IsFiniteSet(acked) /\ Cardinality(acked) \in Nat /\ acked \subseteq Recs
  BY FS_CardinalityType DEF RecordsInv
<1>2. r \notin acked
  BY <1>1 DEF RecordsInv, numbered, Recs
<1>3. IsFiniteSet(acked') /\ Cardinality(acked') = Cardinality(acked) + 1
  BY <1>1, <1>2, FS_AddElement
<1>4. acked' \subseteq Recs /\ \A s \in acked' : s.id <= Cardinality(acked')
  BY <1>1, <1>3 DEF RecordsInv, numbered, Recs
<1>5. \A s, u \in acked' : s.id = u.id => s = u
  BY <1>1 DEF RecordsInv, numbered, Recs
<1>6. \A e \in Datasets : HeldAt(e)' \subseteq HeldAt(e) \cup (IF e = d THEN {r} ELSE {})
  BY DEF Gains
<1>7. \A e \in Datasets : HeldAt(e)' \subseteq acked' /\ (e # d => r \notin HeldAt(e)')
  BY <1>2, <1>6 DEF RecordsInv
<1>8. \A e, f \in Datasets : e # f => HeldAt(e)' \cap HeldAt(f)' = {}
  BY <1>6, <1>7 DEF RecordsInv
<1>9. \A s \in acked' : Excused(s)' \/ \E e \in Datasets : s \in HeldAt(e)'
  <2> SUFFICES ASSUME NEW s \in acked', ~Excused(s)'
               PROVE  \E e \in Datasets : s \in HeldAt(e)'
    OBVIOUS
  <2>1. CASE s = r
    BY <2>1 DEF Gains
  <2>2. CASE s # r
    <3>1. ~Excused(s) /\ s \in acked
      BY <2>2 DEF Excused
    <3>2. PICK e \in Datasets : s \in HeldAt(e)
      BY <3>1 DEF RecordsInv
    <3>3. writers[e].broken => Excused(s)
      BY DEF DataInv, Excused
    <3>4. s.into = s.day
      BY <3>1 DEF Excused
    <3> QED
      BY <3>1, <3>2, <3>3, <3>4 DEF Gains
  <2> QED
    BY <2>1, <2>2
<1>10. RecordsInv'
  BY <1>3, <1>4, <1>5, <1>7, <1>8, <1>9 DEF RecordsInv
<1>11. DiskIds \subseteq DiskIds'
  BY DEF DiskIds, Gains
<1> QED
  BY <1>10, <1>11, CopiesStay

\* The part of the data invariant that Gains gives.
LEMMA DataStays ==
    ASSUME DataInv, \A d \in Datasets : \E N : Gains(d, N),
           writers' \in [Datasets -> Writers], dayFiles' \in [Datasets -> Directories],
           UNCHANGED <<day, closing, crashes>>, diskFaults' \in Nat, diskFaults' >= diskFaults
    PROVE  DataInv'
<1>1. \A d \in Datasets : PairInv(dayFiles'[d], writers'[d], day', closing')
  BY DEF Gains
<1>2. \A d \in Datasets : writers'[d].broken => writers[d].broken
  BY DEF Gains
<1>3. diskFaults > 0 => diskFaults' > 0
  BY DEF DataInv
<1> QED
  BY <1>1, <1>2, <1>3 DEF DataInv

\* Append, for a registration or an assessment.
LEMMA AppendStep == ASSUME RowsInv, NEW d \in Datasets, AppendTo(d) PROVE RowsInv'
<1> USE DEF RowsInv
<1>1. UNCHANGED <<day, expired, snapshotsKept, archives, closing, exited, crashes>> /\ DataInv
  BY DEF AppendTo
<1>2. CASE openFails(d)
  <2>1. diskFaults' = diskFaults + 1 /\ diskFaults \in Nat
    BY <1>2 DEF openFails, DataInv
  <2>2. /\ writers' \in [Datasets -> Writers] /\ dayFiles' \in [Datasets -> Directories]
        /\ acked' = acked /\ \A e \in Datasets : Gains(e, {})
    BY <1>1, <1>2, OpenFailsKeeps
  <2>3. DataInv'
    BY <1>1, <2>1, <2>2, DataStays
  <2> QED
    BY <1>1, <2>1, <2>2, <2>3, QuietStep
<1>3. CASE write(d, numbered) /\ UNCHANGED diskFaults
  <2>1. IsFiniteSet(acked) /\ Cardinality(acked) \in Nat /\ numbered = Cardinality(acked) + 1
    BY FS_CardinalityType DEF RecordsInv, numbered
  <2>2. \A r \in HeldAt(d) : r.id # numbered
    <3> SUFFICES ASSUME NEW r \in HeldAt(d) PROVE r.id # numbered
      OBVIOUS
    <3>1. r \in Recs /\ r.id <= Cardinality(acked)
      BY DEF RecordsInv
    <3> QED
      BY <2>1, <3>1 DEF Recs
  <2> DEFINE r == Record(numbered, rolled(writers[d]))
  <2>3. numbered \in Nat
    BY <2>1
  <2>4. /\ \A e \in Datasets \ {d} : dayFiles'[e] = dayFiles[e] /\ writers'[e] = writers[e]
        /\ writers' \in [Datasets -> Writers] /\ dayFiles' \in [Datasets -> Directories]
        /\ \E N \in SUBSET {r} : acked' = acked \cup N /\ Gains(d, N)
    BY <1>1, <1>3, <2>2, <2>3, WriteKeeps
  <2>5. \A e \in Datasets \ {d} : Gains(e, {})
    BY <1>1, <2>4, GainsNothing
  <2>6. diskFaults' = diskFaults /\ diskFaults \in Nat
    BY <1>3 DEF DataInv
  <2>7. DataInv'
    BY <1>1, <2>4, <2>5, <2>6, DataStays
  <2>8. PICK N \in SUBSET {r} : acked' = acked \cup N /\ Gains(d, N)
    BY <2>4
  <2>9. CASE N = {}
    BY <1>1, <2>5, <2>6, <2>7, <2>8, <2>9, QuietStep
  <2>10. CASE N = {r}
    <3>1. r \in Recs
      <4>1. /\ day \in Nat \ {0} /\ (closing # "no") \in BOOLEAN
            /\ writers[d] \in Writers /\ (rolled(writers[d]) = Fresh \/ rolled(writers[d]) = writers[d])
        BY DEF DataInv, rolled
      <4>2. r.id = numbered /\ r.day = day /\ r.late = (closing # "no") /\ r.into \in Nat \ {0}
        BY <4>1, FreshWriter DEF Record, Writers, NoInode
      <4>3. r = [id |-> r.id, day |-> r.day, into |-> r.into, late |-> r.late]
        BY DEF Record
      <4> HIDE DEF r
      <4>4. r.late \in BOOLEAN
        BY <4>1, <4>2
      <4> QED
        BY <2>3, <4>1, <4>2, <4>3, <4>4 DEF Recs
    <3>2. r.id = numbered
      BY DEF Record
    <3> HIDE DEF r
    <3>3. RecordsInv' /\ CopiesInv'
      BY <1>1, <2>5, <2>6, <2>8, <2>10, <3>1, <3>2, NewRecord
    <3> QED
      BY <2>7, <3>3
  <2> QED
    BY <2>8, <2>9, <2>10
<1> QED
  BY <1>2, <1>3 DEF AppendTo

\* A flush that works, or one that leaves the buffer broken.
LEMMA SyncStep == ASSUME RowsInv, NEW d \in Datasets, sync(d) PROVE RowsInv'
<1> USE DEF RowsInv
<1>1. /\ UNCHANGED <<day, acked, expired, snapshotsKept, archives, closing, exited, crashes>> /\ DataInv
      /\ ~writers[d].broken
  BY DEF sync
<1>2. /\ day \in Nat \ {0} /\ PairInv(dayFiles[d], writers[d], day, closing)
      /\ writers \in [Datasets -> Writers] /\ dayFiles \in [Datasets -> Directories] /\ diskFaults \in Nat
  BY DEF DataInv
<1>3. CASE dayFiles' = [dayFiles EXCEPT ![d] = Flushed(@, writers[d])] /\ writers' = [writers EXCEPT ![d].buf = <<>>] /\ UNCHANGED diskFaults
  <2>1. dayFiles'[d] = Flushed(dayFiles[d], writers[d]) /\ writers'[d] = [writers[d] EXCEPT !.buf = <<>>]
    BY <1>2, <1>3
  <2>2. /\ PairInv(dayFiles'[d], writers'[d], day, closing)
        /\ Keeps(dayFiles[d], writers[d], dayFiles'[d], writers'[d])
    BY <1>1, <1>2, <2>1, FlushKeeps
  <2>3. ~writers'[d].broken
    BY <1>1, <1>2, <2>1 DEF Writers
  <2>4. Gains(d, {})
    BY <2>2, <2>3 DEF Gains, Keeps, HeldAt
  <2>5. \A e \in Datasets \ {d} : dayFiles'[e] = dayFiles[e] /\ writers'[e] = writers[e]
    BY <1>2, <1>3
  <2>6. writers' \in [Datasets -> Writers] /\ dayFiles' \in [Datasets -> Directories]
    BY <1>2, <1>3, <2>1, <2>2 DEF PairInv, FilesInv, WriterInv
  <2>7. \A e \in Datasets : Gains(e, {})
    BY <1>1, <2>4, <2>5, GainsNothing
  <2> QED
    BY <1>1, <1>2, <1>3, <2>6, <2>7, QuietStep, DataStays
<1>4. CASE diskFaults' = diskFaults + 1 /\ writers' = [writers EXCEPT ![d].broken = TRUE] /\ UNCHANGED dayFiles
  <2> DEFINE w == writers[d]
             x == writers'[d]
  <2>1. /\ writers' \in [Datasets -> Writers] /\ x \in Writers /\ w \in Writers
        /\ x.file = w.file /\ x.linked = w.linked /\ x.buf = w.buf /\ x.broken
        /\ \A e \in Datasets \ {d} : writers'[e] = writers[e]
    BY <1>2, <1>4 DEF Writers
  <2>2. w.file # NoInode
    BY <1>2 DEF sync, PairInv, WriterInv, Fresh
  <2>3. PairInv(dayFiles[d], x, day, closing)
    BY <1>2, <2>1, <2>2 DEF PairInv, WriterInv
  <2>4. \A e \in Datasets : HeldAt(e)' = HeldAt(e)
    BY <1>4, <2>1 DEF HeldAt, Held
  <2>5. \A r : Excused(r) => Excused(r)'
    BY <1>1, <1>2, <1>4 DEF Excused
  <2>6. RecordsInv'
    BY <1>1, <2>4, <2>5, RecordsLost
  <2>7. CopiesInv'
    BY <1>1, <1>4, CopiesStay DEF DiskIds
  <2>8. \A e \in Datasets : PairInv(dayFiles'[e], writers'[e], day, closing)
    BY <1>4, <2>1, <2>3 DEF DataInv
  <2>9. DataInv'
    <3>1. diskFaults' \in Nat /\ diskFaults' > 0
      BY <1>2, <1>4
    <3>2. dayFiles' = dayFiles
      BY <1>4
    <3> QED
      BY <1>1, <2>1, <2>8, <3>1, <3>2 DEF DataInv
  <2> QED
    BY <2>6, <2>7, <2>9
<1> QED
  BY <1>3, <1>4 DEF sync

LEMMA RotateStep == ASSUME RowsInv, RotateAll PROVE RowsInv'
<1>1. /\ UNCHANGED <<day, acked, expired, snapshotsKept, archives, closing, exited, crashes, diskFaults>>
      /\ DataInv /\ closeAll /\ diskFaults \in Nat
  BY DEF RotateAll, RowsInv, DataInv
<1>2. /\ writers' \in [Datasets -> Writers] /\ dayFiles' \in [Datasets -> Directories]
      /\ \A d \in Datasets : Gains(d, {})
  BY <1>1, CloseKeeps
<1> QED
  BY <1>1, <1>2, QuietStep, DataStays DEF RowsInv

\* Stop flushes and closes; only a broken buffer is left with records.
LEMMA StopEndsStep == ASSUME RowsInv, StopEnds PROVE RowsInv'
<1>1. /\ UNCHANGED <<day, acked, expired, snapshotsKept, archives, exited, crashes, diskFaults>>
      /\ DataInv /\ closeAll /\ diskFaults \in Nat /\ closing' = "stopped"
  BY DEF StopEnds, RowsInv, DataInv
<1>2. /\ writers' \in [Datasets -> Writers] /\ dayFiles' \in [Datasets -> Directories]
      /\ \A d \in Datasets : Gains(d, {}) /\ (writers'[d] # Fresh => writers'[d].broken)
  BY <1>1, CloseKeeps
<1>3. RecordsInv' /\ CopiesInv'
  BY <1>1, <1>2, QuietStep
<1>4. \A d \in Datasets : PairInv(dayFiles'[d], writers'[d], day', closing')
  <2> TAKE d \in Datasets
  <2>1. PairInv(dayFiles'[d], writers'[d], day, closing) /\ day \in Nat \ {0}
    BY <1>1, <1>2 DEF Gains, DataInv
  <2>2. CASE writers'[d] = Fresh
    <3>1. WriterInv(dayFiles'[d], Fresh, day, "stopped")
      BY <2>1, FreshWriter
    <3> QED
      BY <1>1, <2>1, <2>2, <3>1 DEF PairInv
  <2>3. CASE writers'[d].broken
    BY <1>1, <2>1, <2>3 DEF PairInv, WriterInv
  <2> QED
    BY <1>2, <2>2, <2>3
<1>5. DataInv'
  <2>1. \A d \in Datasets : writers'[d].broken => diskFaults > 0
    BY <1>1, <1>2 DEF DataInv, Gains
  <2> QED
    BY <1>1, <1>2, <1>4, <2>1 DEF DataInv
<1> QED
  BY <1>3, <1>5 DEF RowsInv

\* Steps that touch neither records nor copies.
LEMMA RowsStay ==
    ASSUME RowsInv, UNCHANGED <<writers, dayFiles, acked, expired, snapshotsKept, archives, crashes, diskFaults>>
    PROVE  RecordsInv' /\ CopiesInv'
<1>1. \A d \in Datasets : HeldAt(d)' = HeldAt(d)
  BY DEF HeldAt
<1>2. \A r : Excused(r)' = Excused(r)
  BY DEF Excused
<1>3. RecordsInv'
  BY <1>1, <1>2, RecordsLost DEF RowsInv
<1> QED
  BY <1>3, CopiesStay DEF RowsInv, DiskIds

LEMMA StopBeginsStep == ASSUME RowsInv, StopBegins PROVE RowsInv'
<1>1. UNCHANGED <<day, writers, dayFiles, acked, expired, snapshotsKept, archives, crashes, diskFaults>> /\ closing' = "stopping"
  BY DEF StopBegins
<1>2. \A d \in Datasets : PairInv(dayFiles[d], writers[d], day, "stopping")
  BY DEF RowsInv, DataInv, PairInv, WriterInv
<1>3. DataInv'
  BY <1>1, <1>2 DEF RowsInv, DataInv
<1> QED
  BY <1>1, <1>3, RowsStay DEF RowsInv

\* Midnight finds no record of the day before in a buffer that could be flushed.
LEMMA DayStep == ASSUME RowsInv, DayPasses PROVE RowsInv'
<1>1. UNCHANGED <<writers, dayFiles, acked, expired, snapshotsKept, archives, closing, crashes, diskFaults>> /\ day' = day + 1
  BY DEF DayPasses
<1>2. \A d \in Datasets : PairInv(dayFiles[d], writers[d], day + 1, closing)
  <2> TAKE d \in Datasets
  <2> DEFINE w == writers[d]
  <2>1. day \in Nat \ {0} /\ PairInv(dayFiles[d], w, day, closing) /\ w \in Writers
    BY DEF RowsInv, DataInv
  <2>2. closing = "no" /\ ~w.broken => \A r \in Range(w.buf) : r.day = day
    BY DEF DayPasses, Range
  <2>3. FilesInv(dayFiles[d], day + 1)
    <3>1. dayFiles[d] \in Directories /\ \A n \in DOMAIN dayFiles[d] : n <= day
      BY <2>1 DEF PairInv, FilesInv
    <3>2. \A n \in DOMAIN dayFiles[d] : n \in Nat
      BY <3>1 DEF Directories
    <3>3. \A n \in DOMAIN dayFiles[d] : n <= day + 1
      BY <2>1, <3>1, <3>2
    <3> QED
      BY <2>1, <3>3 DEF PairInv, FilesInv
  <2>4. WriterInv(dayFiles[d], w, day + 1, closing)
    BY <2>1, <2>2 DEF PairInv, WriterInv, Writers
  <2> QED
    BY <2>1, <2>3, <2>4 DEF PairInv
<1>3. DataInv'
  BY <1>1, <1>2 DEF RowsInv, DataInv
<1> QED
  BY <1>1, <1>3, RowsStay DEF RowsInv

\* The process ends, with a crash or after Stop: every buffer is gone.
LEMMA EndStep == ASSUME RowsInv, ExitProcess \/ KernelCrash PROVE RowsInv'
<1>1. /\ UNCHANGED <<day, dayFiles, acked, expired, snapshotsKept, archives, diskFaults>>
      /\ writers' = [d \in Datasets |-> Fresh] /\ closing' \in {"no", "stopping", "stopped"}
      /\ \/ closing = "stopped" /\ crashes' = crashes
         \/ crashes' = crashes + 1
  BY DEF ExitProcess, KernelCrash, emptied
<1>2. DataInv /\ day \in Nat /\ crashes \in Nat /\ crashes' \in Nat /\ crashes' >= crashes /\ (crashes' = crashes \/ crashes' > 0)
  BY <1>1 DEF RowsInv, DataInv
<1>3. \A d \in Datasets : writers'[d] = Fresh /\ HeldAt(d)' = Stored(dayFiles[d])
  BY <1>1, FreshWriter DEF HeldAt, Held
<1>4. DataInv'
  <2>1. \A d \in Datasets : WriterInv(dayFiles[d], Fresh, day, closing') /\ Range(Fresh.buf) = {} /\ ~Fresh.broken
    BY <1>2, FreshWriter DEF Fresh
  <2>2. \A d \in Datasets : PairInv(dayFiles'[d], writers'[d], day', closing')
    BY <1>1, <1>2, <1>3, <2>1 DEF DataInv, PairInv
  <2>3. writers' \in [Datasets -> Writers]
    BY <1>1, <1>2, FreshWriter
  <2> QED
    BY <1>1, <1>2, <1>3, <2>1, <2>2, <2>3 DEF DataInv
<1>5. \A d \in Datasets : \A r \in HeldAt(d) \ HeldAt(d)' : Excused(r)'
  <2> SUFFICES ASSUME NEW d \in Datasets, NEW r \in HeldAt(d) \ HeldAt(d)' PROVE Excused(r)'
    OBVIOUS
  <2>1. r \in Range(writers[d].buf)
    BY <1>3 DEF HeldAt, Held
  <2>2. CASE crashes' > 0
    BY <2>2 DEF Excused
  <2>3. CASE closing = "stopped"
    <3>1. writers[d].broken \/ r.late
      BY <1>2, <2>1, <2>3 DEF DataInv, PairInv, WriterInv
    <3> QED
      BY <1>1, <1>2, <3>1 DEF DataInv, Excused
  <2> QED
    BY <1>1, <1>2, <2>2, <2>3
<1>6. \A r : Excused(r) => Excused(r)'
  BY <1>1, <1>2 DEF Excused
<1>7. \A d \in Datasets : HeldAt(d)' \subseteq HeldAt(d)
  BY <1>3 DEF HeldAt, Held
<1>8. RecordsInv'
  BY <1>1, <1>5, <1>6, <1>7, RecordsLost DEF RowsInv
<1> QED
  BY <1>1, <1>4, <1>8, CopiesStay DEF RowsInv, DiskIds

\* The retention removes whole files; a writer that has one open goes on without it.
LEMMA CleanupStep == ASSUME RowsInv, cleanupOldLogs PROVE RowsInv'
<1>1. /\ UNCHANGED <<day, acked, snapshotsKept, archives, closing, crashes, diskFaults>> /\ closing = "no" /\ DataInv
      /\ expired' = expired \cup UNION {UNION {ids(dayFiles[d][n].recs) : n \in old(d)} : d \in Datasets}
      /\ dayFiles' = [d \in Datasets |-> [n \in (DOMAIN dayFiles[d]) \ old(d) |-> dayFiles[d][n]]]
      /\ writers' = [d \in Datasets |-> [writers[d] EXCEPT !.linked = @ /\ writers[d].file \notin old(d)]]
  BY DEF cleanupOldLogs, RowsInv
<1>2. ASSUME NEW d \in Datasets
      PROVE  /\ writers'[d] \in Writers /\ dayFiles'[d] \in Directories
             /\ PairInv(dayFiles'[d], writers'[d], day', closing')
             /\ writers'[d].broken <=> writers[d].broken
             /\ HeldAt(d)' \subseteq HeldAt(d)
             /\ \A r \in Stored(dayFiles[d]) \ Stored(dayFiles'[d]) : r.id \in expired'
             /\ \A r \in HeldAt(d) \ HeldAt(d)' : r.id \in expired'
  <2> DEFINE f == dayFiles[d]
             w == writers[d]
             g == dayFiles'[d]
             x == writers'[d]
  <2>1. day \in Nat \ {0} /\ PairInv(f, w, day, "no") /\ w \in Writers /\ f \in Directories
    BY <1>1 DEF DataInv
  <2>2. /\ g = [n \in (DOMAIN f) \ old(d) |-> f[n]] /\ x = [w EXCEPT !.linked = @ /\ w.file \notin old(d)]
        /\ old(d) = {n \in DOMAIN f : f[n].touched < day - RetentionDays}
    BY <1>1 DEF old
  <2>3. /\ x \in Writers /\ x.file = w.file /\ x.buf = w.buf /\ x.broken = w.broken
        /\ x.linked <=> (w.linked /\ w.file \notin old(d))
    BY <2>1, <2>2 DEF Writers
  <2>4. g \in Directories /\ DOMAIN g = (DOMAIN f) \ old(d) /\ \A n \in DOMAIN g : g[n] = f[n]
    <3>1. PICK S \in SUBSET (Nat \ {0}) : f \in [S -> Files]
      BY <2>1 DEF Directories
    <3>2. g \in [S \ old(d) -> Files]
      BY <2>2, <3>1
    <3> QED
      BY <2>2, <3>2 DEF Directories
  <2>5. Stored(g) \subseteq Stored(f)
    BY <2>4 DEF Stored
  <2>6. \A r \in Stored(f) \ Stored(g) : r.id \in expired'
    <3> SUFFICES ASSUME NEW n \in DOMAIN f, NEW r \in Range(f[n].recs), r \notin Stored(g)
                 PROVE  r.id \in expired'
      BY DEF Stored
    <3>1. n \in old(d)
      BY <2>4 DEF Stored
    <3>2. r.id \in ids(f[n].recs)
      BY IdsOfRange
    <3> QED
      BY <1>1, <3>1, <3>2
  <2>7. FilesInv(g, day)
    BY <2>1, <2>4 DEF PairInv, FilesInv
  <2>8. w.file \in old(d) => w.file < day - 1
    <3> SUFFICES ASSUME w.file \in old(d) PROVE w.file < day - 1
      OBVIOUS
    <3>1. /\ w.file \in DOMAIN f /\ w.file <= f[w.file].touched /\ f[w.file].touched < day - RetentionDays
          /\ w.file \in Nat /\ f[w.file].touched \in Nat
      BY <2>1, <2>2 DEF PairInv, FilesInv, Directories, Files, Writers
    <3>2. RetentionDays \in Nat /\ RetentionDays >= 1
      BY PersistenceAssumption
    <3> QED
      BY <2>1, <3>1, <3>2
  <2>9. WriterInv(g, x, day, "no")
    <3>1. w.file = NoInode => x = Fresh
      <4>1. w = Fresh => x = Fresh
        <5> SUFFICES ASSUME w = Fresh PROVE x = Fresh
          OBVIOUS
        <5>1. x.file = NoInode /\ x.buf = <<>> /\ x.linked = FALSE /\ x.broken = FALSE
          BY <2>3 DEF Fresh
        <5>2. x = [file |-> x.file, linked |-> x.linked, buf |-> x.buf, broken |-> x.broken]
          BY <2>3 DEF Writers
        <5> HIDE DEF x
        <5> QED
          BY <5>1, <5>2 DEF Fresh
      <4> QED
        BY <2>1, <4>1 DEF PairInv, WriterInv
    <3>2. x.linked => x.file \in DOMAIN g
      BY <2>1, <2>3, <2>4 DEF PairInv, WriterInv
    <3>3. w.file \in old(d) /\ ~w.broken => \A r \in Range(w.buf) : r.into # r.day
      BY <2>1, <2>8 DEF PairInv, WriterInv, Belongs, Writers
    <3>4. x.file # NoInode /\ ~x.linked /\ ~x.broken => x.file < day /\ \A r \in Range(x.buf) : r.into # r.day
      <4>1. w.file \in Nat
        BY <2>1 DEF Writers
      <4> QED
        BY <2>1, <2>3, <2>8, <3>3, <4>1 DEF PairInv, WriterInv
    <3> QED
      BY <2>1, <2>3, <3>1, <3>2, <3>4 DEF PairInv, WriterInv
  <2>10. PairInv(g, x, day, "no")
    BY <2>1, <2>3, <2>5, <2>7, <2>9 DEF PairInv
  <2> QED
    BY <1>1, <2>3, <2>4, <2>5, <2>6, <2>10 DEF HeldAt, Held
<1>3. DataInv'
  <2>1. writers' \in [Datasets -> Writers] /\ dayFiles' \in [Datasets -> Directories]
    BY <1>1, <1>2
  <2> QED
    BY <1>1, <1>2, <2>1 DEF DataInv
<1>4. \A r : Excused(r) => Excused(r)'
  BY <1>1 DEF Excused
<1>5. RecordsInv'
  BY <1>1, <1>2, <1>4, RecordsLost DEF RowsInv, Excused
<1>6. DiskIds \subseteq DiskIds' \cup expired'
  BY <1>2 DEF DiskIds
<1> QED
  BY <1>1, <1>3, <1>5, <1>6, CopiesStay DEF RowsInv

LEMMA DiskIsAcked == ASSUME RowsInv PROVE DiskIds \subseteq {r.id : r \in acked} /\ DiskIds \subseteq Nat
<1>1. DiskIds \subseteq {r.id : r \in acked}
  BY DEF RowsInv, RecordsInv, HeldAt, Held, DiskIds
<1> QED
  BY <1>1 DEF RowsInv, RecordsInv, Recs

\* A snapshot copies what is on disk; the oldest go.
LEMMA SnapshotStep == ASSUME RowsInv, createHourlySnapshot PROVE RowsInv'
<1> DEFINE s == snapshotsKept
           q == Append(s, DiskIds)
           lo == (IF Len(q) > MaxSnapshots THEN Len(q) - MaxSnapshots ELSE 0) + 1
<1>1. /\ UNCHANGED <<day, writers, dayFiles, acked, expired, archives, closing, crashes, diskFaults>>
      /\ s' = SubSeq(q, lo, Len(q))
  BY IdsOnDisk DEF createHourlySnapshot
<1>2. s \in Seq(SUBSET Nat) /\ DiskIds \in SUBSET Nat
  BY DiskIsAcked DEF RowsInv, CopiesInv
<1>3. /\ q \in Seq(SUBSET Nat) /\ Len(q) = Len(s) + 1 /\ Len(s) \in Nat /\ q[Len(q)] = DiskIds
      /\ \A k \in 1 .. Len(s) : q[k] = s[k]
  BY <1>2
<1>4. lo \in 1 .. Len(q)
  <2>1. MaxSnapshots \in Nat \ {0}
    BY PersistenceAssumption
  <2> QED
    BY <1>3, <2>1
<1>5. \A k \in 1 .. Len(s) : q[k] \ q[k + 1] \subseteq expired
  <2> SUFFICES ASSUME NEW k \in 1 .. Len(s) PROVE q[k] \ q[k + 1] \subseteq expired
    OBVIOUS
  <2>1. CASE k = Len(s)
    BY <1>3, <2>1 DEF RowsInv, CopiesInv
  <2>2. CASE k < Len(s)
    BY <1>3, <2>2 DEF RowsInv, CopiesInv, CopiesGrow
  <2> QED
    BY <1>3, <2>1, <2>2
<1> HIDE DEF q, lo
<1>6. /\ s' \in Seq(SUBSET Nat) /\ Len(s') = Len(q) - lo + 1
      /\ \A k \in 1 .. Len(s') : s'[k] = q[lo + k - 1]
  BY <1>1, <1>3, <1>4
<1>7. s'[Len(s')] = DiskIds
  BY <1>3, <1>4, <1>6
<1>8. \A k \in 1 .. Len(s') - 1 : s'[k] \ s'[k + 1] \subseteq expired
  <2> SUFFICES ASSUME NEW k \in 1 .. Len(s') - 1 PROVE s'[k] \ s'[k + 1] \subseteq expired
    OBVIOUS
  <2>1. lo + k - 1 \in 1 .. Len(s) /\ s'[k] = q[lo + k - 1] /\ s'[k + 1] = q[(lo + k - 1) + 1]
    BY <1>3, <1>4, <1>6
  <2> QED
    BY <1>5, <2>1
<1>9. DiskIds' = DiskIds
  BY <1>1 DEF DiskIds
<1>10. CopiesInv'
  BY <1>1, <1>6, <1>7, <1>8, <1>9 DEF RowsInv, CopiesInv, CopiesGrow
<1>11. DataInv'
  BY <1>1 DEF RowsInv, DataInv
<1>12. RecordsInv'
  <2>1. \A d \in Datasets : HeldAt(d)' = HeldAt(d)
    BY <1>1 DEF HeldAt
  <2>2. \A r : Excused(r)' = Excused(r)
    BY <1>1 DEF Excused
  <2> QED
    BY <1>1, <2>1, <2>2, RecordsLost DEF RowsInv
<1> QED
  BY <1>10, <1>11, <1>12 DEF RowsInv

LEMMA ArchiveStep == ASSUME RowsInv, createDailyArchive PROVE RowsInv'
<1>1. /\ UNCHANGED <<day, writers, dayFiles, acked, expired, snapshotsKept, closing, crashes, diskFaults>>
      /\ archives' = [n \in {m \in DOMAIN archives : m >= day - RetentionDays} \cup {day} |->
                         IF n = day THEN DiskIds ELSE archives[n]]
  BY IdsOnDisk DEF createDailyArchive
<1>2. \A n \in DOMAIN archives' : archives'[n] \subseteq {r.id : r \in acked}
  BY <1>1, DiskIsAcked DEF RowsInv, CopiesInv, CopiesGrow
<1>3. DiskIds' = DiskIds
  BY <1>1 DEF DiskIds
<1>4. CopiesInv'
  BY <1>1, <1>2, <1>3 DEF RowsInv, CopiesInv, CopiesGrow
<1>5. DataInv'
  BY <1>1 DEF RowsInv, DataInv
<1>6. RecordsInv'
  <2>1. \A d \in Datasets : HeldAt(d)' = HeldAt(d)
    BY <1>1 DEF HeldAt
  <2>2. \A r : Excused(r)' = Excused(r)
    BY <1>1 DEF Excused
  <2> QED
    BY <1>1, <2>1, <2>2, RecordsLost DEF RowsInv
<1> QED
  BY <1>4, <1>5, <1>6 DEF RowsInv

-----------------------------------------------------------------------------
(* The report.                                                             *)

Replacing(m) == handler[m] \in {"write", "rename"}

ReportTypeOK ==
    /\ handler \in [Messages -> {"due", "report", "write", "rename", "done"}]
    /\ content \in Seq(Seq(Messages))
    /\ tmp \in 0 .. Len(content) /\ latest \in 0 .. Len(content)
    /\ holds \in [Messages -> 0 .. Len(content)]
    /\ \A m \in Messages : Replacing(m) => holds[m] # NoInode

\* As long as nobody overlaps and nothing crashes, the one handler that replaces the report has
\* the temporary file for itself.
ReportInv ==
    ~overlapped /\ crashes = 0 =>
        /\ \A m, n \in Messages : Replacing(m) /\ Replacing(n) => m = n
        /\ \A m \in Messages : Replacing(m) => holds[m] = tmp /\ tmp # NoInode
        /\ \A m \in Messages : handler[m] = "write" => content[tmp] = <<>>
        /\ \A m \in Messages : handler[m] = "rename" => Len(content[tmp]) = 1
        /\ latest # NoInode => Len(content[latest]) = 1 /\ tmp # latest

LEMMA ReportSteps ==
    ASSUME ReportTypeOK, ReportInv, NEW m \in Messages, OpenTmp(m) \/ WriteTmp(m) \/ RenameTmp(m)
    PROVE  ReportTypeOK' /\ ReportInv'
<1>1. /\ content \in Seq(Seq(Messages)) /\ Len(content) \in Nat /\ <<>> \in Seq(Messages)
      /\ handler \in [Messages -> {"due", "report", "write", "rename", "done"}]
      /\ holds \in [Messages -> 0 .. Len(content)]
      /\ tmp \in 0 .. Len(content) /\ latest \in 0 .. Len(content)
  BY DEF ReportTypeOK
<1>2. CASE OpenTmp(m)
  <2> DEFINE f == IF tmp # NoInode THEN tmp ELSE Len(content) + 1
  <2>1. /\ UNCHANGED <<crashes, latest>> /\ tmp' = f /\ holds' = [holds EXCEPT ![m] = f]
        /\ handler[m] = "report" /\ handler' = [handler EXCEPT ![m] = "write"]
        /\ content' = IF f \in DOMAIN content THEN [content EXCEPT ![f] = <<>>] ELSE Append(content, <<>>)
        /\ overlapped' = (overlapped \/ replacing # {})
    BY <1>2 DEF OpenTmp, rowVars
  <2>2. /\ content' \in Seq(Seq(Messages)) /\ Len(content') >= Len(content) /\ f \in 1 .. Len(content')
        /\ content'[f] = <<>> /\ Len(content') \in Nat
        /\ \A k \in 1 .. Len(content) : k # f => content'[k] = content[k]
    <3>1. CASE tmp # NoInode
      BY <1>1, <2>1, <3>1 DEF NoInode
    <3>2. CASE tmp = NoInode
      BY <1>1, <2>1, <3>2
    <3> QED
      BY <3>1, <3>2
  <2>3. \A n \in Messages \ {m} : handler'[n] = handler[n] /\ holds'[n] = holds[n]
    BY <1>1, <2>1
  <2>4. handler'[m] = "write" /\ holds'[m] = f
    BY <1>1, <2>1
  <2>5. ReportTypeOK'
    BY <1>1, <2>1, <2>2, <2>3, <2>4 DEF ReportTypeOK, Replacing, NoInode
  <2>6. ASSUME ~overlapped', crashes' = 0
        PROVE  /\ \A n \in Messages : Replacing(n)' => n = m
               /\ latest # NoInode => latest # f
    <3>1. ~overlapped /\ crashes = 0 /\ \A n \in Messages : ~Replacing(n)
      BY <2>1, <2>6 DEF replacing, Replacing
    <3>2. \A n \in Messages : Replacing(n)' => n = m
      BY <2>3, <3>1 DEF Replacing
    <3>3. latest # NoInode => latest # f
      BY <1>1, <3>1 DEF ReportInv
    <3> QED
      BY <3>2, <3>3
  <2>7. ReportInv'
    <3> SUFFICES ASSUME ~overlapped', crashes' = 0 PROVE
          /\ \A k, n \in Messages : Replacing(k)' /\ Replacing(n)' => k = n
          /\ \A k \in Messages : Replacing(k)' => holds'[k] = tmp' /\ tmp' # NoInode
          /\ \A k \in Messages : handler'[k] = "write" => content'[tmp'] = <<>>
          /\ \A k \in Messages : handler'[k] = "rename" => Len(content'[tmp']) = 1
          /\ latest' # NoInode => Len(content'[latest']) = 1 /\ tmp' # latest'
      BY DEF ReportInv
    <3>1. \A k \in Messages : handler'[k] # "rename"
      BY <2>4, <2>6 DEF Replacing
    <3>2. latest' # NoInode => Len(content'[latest']) = 1 /\ tmp' # latest'
      <4>1. ~overlapped /\ crashes = 0
        BY <2>1
      <4> QED
        BY <1>1, <2>1, <2>2, <2>6, <4>1 DEF ReportInv, NoInode
    <3>3. \A k \in Messages : Replacing(k)' => k = m
      BY <2>6
    <3>4. tmp' # NoInode /\ content'[tmp'] = <<>>
      BY <2>1, <2>2 DEF NoInode
    <3> QED
      BY <2>1, <2>4, <3>1, <3>2, <3>3, <3>4
  <2> QED
    BY <2>5, <2>7
<1>3. CASE WriteTmp(m)
  <2>1. /\ UNCHANGED <<crashes, tmp, latest, holds, overlapped>>
        /\ handler[m] = "write" /\ handler' = [handler EXCEPT ![m] = "rename"]
        /\ content' = [content EXCEPT ![holds[m]] = over(m, content[holds[m]])]
    BY <1>3 DEF WriteTmp, rowVars
  <2>2. holds[m] \in 1 .. Len(content)
    BY <1>1, <2>1 DEF ReportTypeOK, Replacing, NoInode
  <2>3. over(m, content[holds[m]]) \in Seq(Messages) /\ (content[holds[m]] = <<>> => Len(over(m, content[holds[m]])) = 1)
    <3>1. content[holds[m]] \in Seq(Messages)
      BY <1>1, <2>2
    <3>2. content[holds[m]] # <<>> => Last(content[holds[m]]) \in Messages
      BY <3>1 DEF Last
    <3> QED
      BY <3>2 DEF over
  <2>4. /\ content' \in Seq(Seq(Messages)) /\ Len(content') = Len(content)
        /\ \A k \in 1 .. Len(content) : k # holds[m] => content'[k] = content[k]
        /\ content'[holds[m]] = over(m, content[holds[m]])
    BY <1>1, <2>1, <2>2, <2>3
  <2>5. handler'[m] = "rename" /\ \A n \in Messages \ {m} : handler'[n] = handler[n]
    BY <1>1, <2>1
  <2>6. ReportTypeOK'
    BY <1>1, <2>1, <2>4, <2>5 DEF ReportTypeOK, Replacing
  <2>7. ReportInv'
    <3> SUFFICES ASSUME ~overlapped', crashes' = 0 PROVE
          /\ \A k, n \in Messages : Replacing(k)' /\ Replacing(n)' => k = n
          /\ \A k \in Messages : Replacing(k)' => holds'[k] = tmp' /\ tmp' # NoInode
          /\ \A k \in Messages : handler'[k] = "write" => content'[tmp'] = <<>>
          /\ \A k \in Messages : handler'[k] = "rename" => Len(content'[tmp']) = 1
          /\ latest' # NoInode => Len(content'[latest']) = 1 /\ tmp' # latest'
      BY DEF ReportInv
    <3>1. /\ \A k, n \in Messages : Replacing(k) /\ Replacing(n) => k = n
          /\ \A k \in Messages : Replacing(k) => holds[k] = tmp /\ tmp # NoInode
          /\ \A k \in Messages : handler[k] = "write" => content[tmp] = <<>>
          /\ latest # NoInode => Len(content[latest]) = 1 /\ tmp # latest
      BY <2>1 DEF ReportInv
    <3>2. \A k \in Messages : Replacing(k)' => Replacing(k)
      BY <2>1, <2>5 DEF Replacing
    <3>3. holds[m] = tmp /\ content[tmp] = <<>> /\ \A k \in Messages : Replacing(k)' => k = m
      BY <2>1, <3>1, <3>2 DEF Replacing
    <3>4. Len(content'[tmp']) = 1 /\ \A k \in Messages : handler'[k] # "write"
      BY <2>1, <2>3, <2>4, <2>5, <3>3 DEF Replacing
    <3>5. latest' # NoInode => Len(content'[latest']) = 1 /\ tmp' # latest'
      BY <1>1, <2>1, <2>4, <3>1, <3>3 DEF NoInode
    <3> QED
      BY <2>1, <3>1, <3>2, <3>4, <3>5
  <2> QED
    BY <2>6, <2>7
<1>4. CASE RenameTmp(m)
  <2>1. /\ UNCHANGED <<crashes, content, overlapped>> /\ tmp' = NoInode /\ holds' = [holds EXCEPT ![m] = NoInode]
        /\ handler[m] = "rename" /\ handler' = [handler EXCEPT ![m] = "done"]
        /\ latest' = IF tmp = NoInode THEN latest ELSE tmp
    BY <1>4 DEF RenameTmp, rowVars
  <2>2. handler'[m] = "done" /\ \A n \in Messages \ {m} : handler'[n] = handler[n] /\ holds'[n] = holds[n]
    BY <1>1, <2>1
  <2>3. ReportTypeOK'
    BY <1>1, <2>1, <2>2 DEF ReportTypeOK, Replacing, NoInode
  <2>4. ReportInv'
    <3> SUFFICES ASSUME ~overlapped, crashes = 0
                 PROVE  /\ \A k \in Messages : ~Replacing(k)'
                        /\ latest' # NoInode => Len(content[latest']) = 1
      BY <2>1, <2>2 DEF ReportInv, Replacing, NoInode
    <3>1. /\ \A k \in Messages : Replacing(k) => k = m
          /\ Len(content[tmp]) = 1
          /\ latest # NoInode => Len(content[latest]) = 1
      BY <2>1 DEF ReportInv, Replacing
    <3> QED
      BY <2>1, <2>2, <3>1 DEF Replacing
  <2> QED
    BY <2>3, <2>4
<1> QED
  BY <1>2, <1>3, <1>4

-----------------------------------------------------------------------------
(* The theorem.                                                            *)

StorageInv == RowsInv /\ ReportTypeOK /\ ReportInv

LEMMA StorageInit == PersistInit => StorageInv
<1> SUFFICES ASSUME PersistInit PROVE StorageInv
  OBVIOUS
<1> USE DEF PersistInit
<1>1. NoFiles \in Directories /\ DOMAIN NoFiles = {} /\ Stored(NoFiles) = {}
  <2>1. NoFiles \in [{} -> Files] /\ DOMAIN NoFiles = {}
    BY DEF NoFiles
  <2> QED
    BY <2>1 DEF Directories, Stored
<1>2. WriterInv(NoFiles, Fresh, 1, "no") /\ Fresh \in Writers /\ Range(Fresh.buf) = {} /\ ~Fresh.broken
  BY FreshWriter DEF Fresh
<1>3. \A d \in Datasets : writers[d] = Fresh /\ dayFiles[d] = NoFiles /\ HeldAt(d) = {}
  BY <1>1, <1>2 DEF HeldAt, Held
<1>4. PairInv(NoFiles, Fresh, 1, "no")
  BY <1>1, <1>2 DEF PairInv, FilesInv
<1>5. DataInv
  BY <1>1, <1>2, <1>3, <1>4 DEF DataInv
<1>6. RecordsInv
  BY <1>3, FS_EmptySet DEF RecordsInv
<1>7. CopiesInv
  BY DEF CopiesInv, CopiesGrow
<1>8. ReportTypeOK /\ ReportInv
  BY DEF ReportTypeOK, ReportInv, Replacing, NoInode
<1> QED
  BY <1>5, <1>6, <1>7, <1>8 DEF StorageInv, RowsInv

LEMMA StorageStep == StorageInv /\ [PersistNext]_persistVars => StorageInv'
<1> SUFFICES ASSUME StorageInv, [PersistNext]_persistVars PROVE StorageInv'
  OBVIOUS
<1> USE DEF StorageInv
<1>1. ASSUME UNCHANGED rowVars PROVE RowsInv'
  <2>1. UNCHANGED <<day, writers, dayFiles, acked, expired, snapshotsKept, archives, closing, crashes, diskFaults>>
    BY <1>1 DEF rowVars
  <2>2. DataInv'
    BY <2>1 DEF RowsInv, DataInv
  <2> QED
    BY <2>1, <2>2, RowsStay DEF RowsInv
<1>2. ASSUME UNCHANGED <<handler, reportVars, crashes>> PROVE ReportTypeOK' /\ ReportInv'
  BY <1>2 DEF ReportTypeOK, ReportInv, Replacing, reportVars
<1>3. CASE UNCHANGED persistVars
  BY <1>1, <1>2, <1>3 DEF persistVars, rowVars
<1>4. CASE onAgentEvent
  <2>1. "agents" \in Datasets /\ AppendTo("agents") /\ UNCHANGED <<handler, reportVars, crashes>>
    BY <1>4, PersistenceAssumption DEF onAgentEvent, AppendTo
  <2> QED
    BY <1>2, <2>1, AppendStep
<1>5. CASE RotateAll
  BY <1>2, <1>5, RotateStep DEF RotateAll
<1>6. CASE DayPasses
  BY <1>2, <1>6, DayStep DEF DayPasses
<1>7. CASE cleanupOldLogs
  BY <1>2, <1>7, CleanupStep DEF cleanupOldLogs
<1>8. CASE StopBegins
  BY <1>2, <1>8, StopBeginsStep DEF StopBegins
<1>9. CASE StopEnds
  BY <1>2, <1>9, StopEndsStep DEF StopEnds
<1>10. CASE ExitProcess
  BY <1>2, <1>10, EndStep DEF ExitProcess
<1>11. CASE KernelCrash
  <2>1. RowsInv'
    BY <1>11, EndStep
  <2>2. /\ handler' = [m \in Messages |-> IF handler[m] = "due" THEN "due" ELSE "done"]
        /\ holds' = [m \in Messages |-> NoInode] /\ UNCHANGED <<tmp, latest, content>>
        /\ crashes' = crashes + 1 /\ crashes \in Nat
    BY <1>11 DEF KernelCrash, RowsInv, DataInv
  <2>3. ReportTypeOK'
    BY <2>2 DEF ReportTypeOK, Replacing, NoInode
  <2>4. ReportInv'
    BY <2>2 DEF ReportInv
  <2> QED
    BY <2>1, <2>3, <2>4
<1>12. CASE createHourlySnapshot
  BY <1>2, <1>12, SnapshotStep DEF createHourlySnapshot
<1>13. CASE createDailyArchive
  BY <1>2, <1>13, ArchiveStep DEF createDailyArchive
<1>14. ASSUME NEW d \in Datasets, sync(d) PROVE StorageInv'
  BY <1>2, <1>14, SyncStep DEF sync
<1>15. ASSUME NEW m \in Messages, onAssessmentResult(m) PROVE StorageInv'
  <2>1. "assessments" \in Datasets /\ AppendTo("assessments") /\ UNCHANGED <<reportVars, crashes>>
    BY <1>15, PersistenceAssumption DEF onAssessmentResult, AppendTo
  <2>2. handler[m] = "due" /\ handler' = [handler EXCEPT ![m] = "report"]
    BY <1>15 DEF onAssessmentResult
  <2>3. \A n \in Messages : handler'[n] = handler[n] \/ (n = m /\ handler'[n] = "report")
    BY <2>2 DEF ReportTypeOK
  <2>4. ReportTypeOK'
    BY <2>1, <2>2, <2>3 DEF ReportTypeOK, Replacing, reportVars
  <2>5. ReportInv'
    BY <2>1, <2>3 DEF ReportInv, Replacing, reportVars
  <2> QED
    BY <2>1, <2>4, <2>5, AppendStep
<1>16. ASSUME NEW m \in Messages, OpenTmp(m) \/ WriteTmp(m) \/ RenameTmp(m) PROVE StorageInv'
  BY <1>1, <1>16, ReportSteps DEF OpenTmp, WriteTmp, RenameTmp
<1> QED
  BY <1>3, <1>4, <1>5, <1>6, <1>7, <1>8, <1>9, <1>10, <1>11, <1>12, <1>13, <1>14,
     <1>15, <1>16
     DEF PersistNext

\* Wherever a record may be counted, at most one dataset has it.
LEMMA OneDataset ==
    ASSUME NEW S, NEW T \in SUBSET S, \A d, e \in T : d = e
    PROVE  Cardinality(T) <= 1
<1>1. CASE T = {}
  BY <1>1, FS_EmptySet
<1>2. ASSUME NEW d \in T PROVE Cardinality(T) <= 1
  <2>1. T = {d}
    OBVIOUS
  <2> QED
    BY <2>1, FS_Singleton
<1> QED
  BY <1>1, <1>2

LEMMA InvSuffices == StorageInv => StorageSound
<1> SUFFICES ASSUME StorageInv PROVE StorageSound
  OBVIOUS
<1> USE DEF StorageInv, RowsInv
<1>1. \A d \in Datasets : onDisk(d) \cup buffered(d) = {r.id : r \in HeldAt(d)}
  BY IdsOnDisk DEF HeldAt, Held
<1>2. ASSUME NEW d \in Datasets, NEW r \in acked, r.id \in onDisk(d) \cup buffered(d)
      PROVE  r \in HeldAt(d)
  <2>1. PICK s \in HeldAt(d) : s.id = r.id
    BY <1>1, <1>2
  <2> QED
    BY <2>1 DEF RecordsInv
<1>3. RecordsAccounted
  <2> SUFFICES ASSUME NEW r \in acked
               PROVE  /\ Cardinality({d \in Datasets : r.id \in onDisk(d) \cup buffered(d)}) <= 1
                      /\ \A d \in Datasets : r.id \notin onDisk(d) \cap buffered(d)
                      /\ \/ r.id \in allOnDisk \cup expired \/ \E d \in Datasets : r.id \in buffered(d)
                         \/ crashes > 0 \/ diskFaults > 0 \/ r.late \/ r.into # r.day
    BY DEF RecordsAccounted
  <2>1. Cardinality({d \in Datasets : r.id \in onDisk(d) \cup buffered(d)}) <= 1
    <3> DEFINE T == {d \in Datasets : r.id \in onDisk(d) \cup buffered(d)}
    <3>1. \A d, e \in T : d = e
      BY <1>2 DEF RecordsInv
    <3>2. T \in SUBSET Datasets
      OBVIOUS
    <3> HIDE DEF T
    <3>3. Cardinality(T) <= 1
      BY <3>1, <3>2, OneDataset
    <3> QED
      BY <3>3 DEF T
  <2>2. ASSUME NEW d \in Datasets, r.id \in onDisk(d) \cap buffered(d) PROVE FALSE
    <3>1. PICK s \in Stored(dayFiles[d]) : s.id = r.id
      BY <2>2, IdsOnDisk
    <3>2. PICK u \in Range(writers[d].buf) : u.id = r.id
      BY <2>2, IdsOnDisk
    <3>3. s = u
      BY <3>1, <3>2 DEF RecordsInv, HeldAt, Held
    <3> QED
      BY <3>3 DEF DataInv, PairInv
  <2>3. \/ r.id \in allOnDisk \cup expired \/ \E d \in Datasets : r.id \in buffered(d)
        \/ crashes > 0 \/ diskFaults > 0 \/ r.late \/ r.into # r.day
    <3>1. CASE Excused(r)
      BY <3>1 DEF Excused
    <3>2. ASSUME NEW d \in Datasets, r \in HeldAt(d) PROVE r.id \in allOnDisk \/ r.id \in buffered(d)
      BY <3>2, IdsOnDisk DEF HeldAt, Held, DiskIds
    <3> QED
      BY <3>1, <3>2 DEF RecordsInv
  <2> QED
    BY <2>1, <2>2, <2>3
<1>4. FileOfTheDay
  <2> SUFFICES ASSUME NEW d \in Datasets, NEW n \in DOMAIN dayFiles[d],
                      NEW k \in DOMAIN dayFiles[d][n].recs
               PROVE  Belongs(dayFiles[d][n].recs[k], n)
    BY DEF FileOfTheDay, Belongs
  <2>1. dayFiles[d][n].recs[k] \in Range(dayFiles[d][n].recs)
    BY DEF Range
  <2> QED
    BY <2>1 DEF DataInv, PairInv, FilesInv
<1>5. CopiesGrow
  BY DEF CopiesInv
<1>6. LatestWhole
  BY DEF LatestWhole, ReportInv
<1> QED
  BY <1>3, <1>4, <1>5, <1>6 DEF StorageSound

\* An acknowledged record is in one place and lost only the ways the code means, files hold the
\* records of their day, copies only grow, and the latest report is whole (write, Stop,
\* cleanupOldLogs and WriteDashboardReport in persistence.go).
THEOREM RecordsAreKept == PersistSpec => []StorageSound
<1> QED
  BY StorageInit, StorageStep, InvSuffices, PTL DEF PersistSpec

-----------------------------------------------------------------------------
(* The sources of findings.                                                *)

Ids == Sources \cup Builtin
States == {"installed", "enabled", "disabled", "running", "error", ""}
Statuses == [state : States, enabled : BOOLEAN]
SourceFiles == [specs : SUBSET Ids, statuses : UNION {[S -> Statuses] : S \in SUBSET Ids}]
RequestPcs == {"idle", "run", "ran", "save", "half", "write", "crossed"}
Requests == [pc : RequestPcs, id : Ids \cup {""}, on : SUBSET Ids, file : SourceFiles]

\* What holds of the sources there are, and of every copy of them that may be loaded.
Settled(f, taken, mis) ==
    /\ f.specs \subseteq DOMAIN f.statuses \cup mis
    /\ (DOMAIN f.statuses) \ f.specs \subseteq taken \cup mis
    /\ \A id \in (DOMAIN f.statuses) \ f.specs : f.statuses[id].enabled => id \in mis
    /\ \A id \in f.specs \cap DOMAIN f.statuses :
          f.statuses[id].enabled => DependsOn[id] \subseteq f.specs \cup mis
    /\ \A id \in (DOMAIN f.statuses) \ taken :
          IF f.statuses[id].state = "running" THEN f.statuses[id].enabled
          ELSE f.statuses[id].enabled <=> f.statuses[id].state \in {"enabled", "error"}

\* A request still owes the source the result of its run.
Owed(id) == \E r \in Runners : runner[r].pc \in {"run", "ran"} /\ runner[r].id = id

SourceTypes ==
    /\ file \in SourceFiles /\ savedState \in SourceFiles
    /\ runner \in [Runners -> Requests] /\ \A r \in Runners : runner[r].pc # "idle" => runner[r].id \in Ids
    /\ overtaken \subseteq Ids /\ reloaded \in BOOLEAN
    /\ kernelOn \in SUBSET (Ids \cup OnInFile) /\ oldOn \in SUBSET (Ids \cup OnInFile)

\* The specs of a file that a run has half put together name no source that has only an
\* enabled status: one that has can neither be deployed nor uninstalled.
RunsInv ==
    /\ \A id \in known \ overtaken : statuses[id].state = "running" => Owed(id)
    /\ \A r \in Runners : runner[r].pc \in {"run", "ran"} /\ runner[r].id \notin overtaken =>
          runner[r].id \in known /\ statuses[runner[r].id].enabled
    /\ \A r \in Runners : runner[r].pc = "half" =>
          \A id \in known \ specs : statuses[id].enabled => id \notin runner[r].file.specs
    /\ \A r \in savers : Settled(runner[r].file, overtaken, misfiled)

SwitchInv ==
    /\ driven \subseteq specs \cap known
    /\ \A id \in driven : id \in kernelOn <=> statuses[id].enabled

SourcesInv ==
    /\ SourceTypes /\ Settled(file, overtaken, misfiled) /\ Settled(savedState, overtaken, misfiled)
    /\ RunsInv /\ SwitchInv /\ FileNamesSources

LEMMA FileFacts ==
    ASSUME file \in SourceFiles
    PROVE  /\ specs \in SUBSET Ids /\ statuses \in [known -> Statuses] /\ known \in SUBSET Ids
           /\ file.specs = specs /\ file.statuses = statuses
BY DEF file, SourceFiles, known

LEMMA MakesFile ==
    ASSUME NEW sp \in SUBSET Ids, NEW D \in SUBSET Ids, NEW st \in [D -> Statuses]
    PROVE  /\ [specs |-> sp, statuses |-> st] \in SourceFiles
           /\ DOMAIN st = D
BY DEF SourceFiles

LEMMA OvertakenGrows ==
    ASSUME NEW f, NEW a, NEW b, NEW m, NEW n, Settled(f, a, m), a \subseteq b, m \subseteq n
    PROVE  Settled(f, b, n)
BY DEF Settled

\* Nothing loaded settles everything.
LEMMA NothingFiled ==
    /\ NoSources \in SourceFiles /\ NoSources.specs = {} /\ DOMAIN NoSources.statuses = {}
    /\ \A a, m : Settled(NoSources, a, m)
<1>1. << >> \in [{} -> Statuses] /\ DOMAIN << >> = {}
  BY SMT
<1>2. NoSources \in SourceFiles /\ NoSources.specs = {} /\ DOMAIN NoSources.statuses = {}
  BY <1>1 DEF SourceFiles, NoSources
<1> QED
  BY ONLY <1>2 DEF Settled

\* The status of any id.
LEMMA CurrentStatus ==
    ASSUME SourcesInv, NEW id
    PROVE  /\ current(id) \in Statuses /\ current(id).enabled \in BOOLEAN
           /\ id \in known => current(id) = statuses[id]
           /\ id \notin known => current(id).enabled = FALSE /\ current(id).state = ""
<1>1. statusOf("", FALSE) \in Statuses
  BY DEF statusOf, Statuses, States
<1>2. id \in known => statuses[id] \in Statuses
  BY FileFacts DEF SourcesInv, SourceTypes
<1>3. current(id) \in Statuses /\ (id \in known => current(id) = statuses[id])
  BY <1>1, <1>2 DEF current
<1>4. id \notin known => current(id).enabled = FALSE /\ current(id).state = ""
  BY DEF current, statusOf
<1> QED
  BY <1>3, <1>4 DEF Statuses

\* The invariant is as strong as the property.
LEMMA InvSettles == SourcesInv => SourcesSettled
<1> SUFFICES ASSUME SourcesInv PROVE SourcesSettled
  OBVIOUS
<1> USE DEF SourcesInv
<1>0. /\ specs \in SUBSET Ids /\ statuses \in [known -> Statuses] /\ known \in SUBSET Ids
      /\ file.specs = specs /\ file.statuses = statuses /\ DOMAIN statuses = known
  BY FileFacts DEF SourceTypes
<1>1. StatesSettle
  <2>1. specs \subseteq known \cup misfiled /\ known \ specs \subseteq overtaken \cup misfiled
    BY <1>0 DEF Settled
  <2>2. ASSUME NEW id \in specs \ overtaken
        PROVE  IF current(id).state = "running" THEN current(id).enabled /\ running(id)
               ELSE current(id).enabled <=> current(id).state \in {"enabled", "error"}
    <3>1. CASE id \in known
      <4>1. current(id) = statuses[id] /\ id \in known \ overtaken
        BY <2>2, <3>1, CurrentStatus
      <4>2. IF statuses[id].state = "running" THEN statuses[id].enabled
            ELSE statuses[id].enabled <=> statuses[id].state \in {"enabled", "error"}
        BY <1>0, <4>1 DEF Settled
      <4>3. statuses[id].state = "running" => running(id)
        BY <4>1 DEF RunsInv, Owed, running
      <4> QED
        BY <4>1, <4>2, <4>3
    <3>2. CASE id \notin known
      BY <3>2, CurrentStatus
    <3> QED
      BY <3>1, <3>2
  <2> QED
    BY <2>1, <2>2 DEF StatesSettle
<1>2. DependenciesStay
  BY <1>0, CurrentStatus DEF Settled, DependenciesStay
<1>3. SwitchesFollow
  BY CurrentStatus DEF SwitchInv, SwitchesFollow, adapterOn
<1> QED
  BY <1>1, <1>2, <1>3 DEF SourcesSettled

LEMMA SourcesInitGood == SourcesInit => SourcesInv
<1> SUFFICES ASSUME SourcesInit PROVE SourcesInv
  OBVIOUS
<1> USE DEF SourcesInit
<1>1. statuses \in [Builtin -> Statuses] /\ specs = Builtin
  BY DEF statusOf, Statuses, States
<1>2. file \in SourceFiles /\ file.specs = Builtin /\ file.statuses = statuses /\ DOMAIN statuses = Builtin
  BY <1>1 DEF SourceFiles, Ids, file
<1>3. savedState \in SourceFiles /\ savedState.specs = {} /\ DOMAIN savedState.statuses = {}
  BY NothingFiled
<1>4. SourceTypes
  <2>1. Idle \in Requests /\ Idle.pc = "idle"
    BY NothingFiled DEF Requests, RequestPcs, Idle
  <2> QED
    BY <1>2, <1>3, <2>1 DEF SourceTypes
<1>5. Settled(file, overtaken, misfiled) /\ Settled(savedState, overtaken, misfiled)
  <2>1. \A id \in Builtin : /\ statuses[id].state # "running" /\ DependsOn[id] = {}
                            /\ statuses[id].enabled <=> statuses[id].state \in {"enabled", "error"}
    BY BuiltinAssumption DEF statusOf
  <2>2. Settled(file, overtaken, misfiled)
    BY ONLY <1>2, <2>1 DEF Settled
  <2> QED
    BY <2>2, NothingFiled
<1>6. RunsInv
  BY <1>1 DEF RunsInv, Idle, statusOf, savers, known
<1>7. SwitchInv /\ FileNamesSources
  BY <1>3 DEF SwitchInv, FileNamesSources
<1> QED
  BY <1>4, <1>5, <1>6, <1>7 DEF SourcesInv

-----------------------------------------------------------------------------

\* What a save under the lock makes of the file and of the runs that save.
LEMMA LockedSave ==
    ASSUME SourcesInv, saveState, file' \in SourceFiles, Settled(file', overtaken', misfiled'),
           overtaken \subseteq overtaken', misfiled \subseteq misfiled'
    PROVE  /\ savedState' \in SourceFiles /\ Settled(savedState', overtaken', misfiled')
           /\ runner' \in [Runners -> Requests]
           /\ \A r \in Runners : runner'[r].id = runner[r].id /\ runner'[r].file = runner[r].file
           /\ \A r \in Runners : runner'[r].pc = runner[r].pc \/ (r \in savers /\ runner'[r].pc = "crossed")
           /\ savers' = savers
           /\ FileNamesSources'
<1>1. savedState' = file' \/ savedState' = NoSources \/ savedState' = savedState
  BY DEF saveState, saveFails, file
<1>2. savedState' \in SourceFiles /\ Settled(savedState', overtaken', misfiled')
  BY <1>1, NothingFiled, OvertakenGrows DEF SourcesInv, SourceTypes
<1>3. FileNamesSources'
  <2>1. ~overwrote' => savedState' = file'
    BY DEF saveState, saveFails, file
  <2> QED
    BY <2>1 DEF FileNamesSources, file
<1>4. \A r \in Runners : runner[r] \in Requests
  BY DEF SourcesInv, SourceTypes
<1>5. ASSUME NEW r \in Runners
      PROVE  /\ runner'[r] \in Requests /\ runner'[r].id = runner[r].id /\ runner'[r].file = runner[r].file
             /\ runner'[r].pc = IF r \in savers THEN "crossed" ELSE runner[r].pc
  <2>1. runner'[r] = IF r \in savers THEN [runner[r] EXCEPT !.pc = "crossed"] ELSE runner[r]
    BY DEF saveState, crossed
  <2>2. runner[r] \in Requests
    BY <1>4
  <2> QED
    BY <2>1, <2>2 DEF Requests, RequestPcs
<1>6. runner' \in [Runners -> Requests]
  <2>1. runner' = [r \in Runners |-> runner'[r]]
    BY DEF saveState, crossed
  <2> QED
    BY <1>5, <2>1
<1>7. savers' = savers
  BY <1>5 DEF savers
<1> QED
  BY <1>2, <1>3, <1>5, <1>6, <1>7

\* The assignments of an operation that saves the state: one source is changed, added or removed.
LEMMA OperationKeeps ==
    ASSUME SourcesInv, NEW id \in Sources, saveState, UNCHANGED <<reloaded, oldOn, misfiled>>, touch(id),
           file' \in SourceFiles, kernelOn' \in SUBSET (Ids \cup OnInFile),
           Settled(file', overtaken', misfiled'),
           \A x \in Ids \ {id} : /\ x \in specs' <=> x \in specs
                                 /\ x \in known' <=> x \in known
                                 /\ x \in known => statuses'[x] = statuses[x],
           id \in known' => id \in specs' /\ (running(id) \/ statuses'[id].state # "running"),
           SwitchInv'
    PROVE  SourcesInv'
<1> USE DEF SourcesInv
<1>1. /\ overtaken \subseteq overtaken' /\ overtaken' \subseteq overtaken \cup {id} /\ (running(id) => id \in overtaken')
      /\ misfiled' = misfiled /\ known' \in SUBSET Ids
  BY DEF touch, file, SourceFiles, known
<1>2. /\ savedState' \in SourceFiles /\ Settled(savedState', overtaken', misfiled')
      /\ runner' \in [Runners -> Requests]
      /\ \A r \in Runners : runner'[r].id = runner[r].id /\ runner'[r].file = runner[r].file
      /\ \A r \in Runners : runner'[r].pc = runner[r].pc \/ (r \in savers /\ runner'[r].pc = "crossed")
      /\ savers' = savers
      /\ FileNamesSources'
  BY <1>1, LockedSave
<1>3. \A r \in Runners : runner'[r].pc \in {"idle", "run", "ran", "half"} => runner'[r].pc = runner[r].pc
  BY <1>2
<1>4. \A r \in savers : runner[r].pc # "idle"
  BY DEF savers
<1>5. SourceTypes'
  BY <1>1, <1>2, <1>4, FileFacts DEF SourceTypes, Ids
<1>6. RunsInv'
  <2>1. ASSUME NEW x \in known' \ overtaken', statuses'[x].state = "running" PROVE Owed(x)'
    <3>1. x \in Ids /\ x # id
      BY <2>1, <1>1
    <3>2. x \in known \ overtaken /\ statuses[x].state = "running"
      BY <2>1, <3>1, <1>1
    <3>3. PICK q \in Runners : runner[q].pc \in {"run", "ran"} /\ runner[q].id = x
      BY <3>2 DEF RunsInv, Owed
    <3>4. q \notin savers
      BY <3>3 DEF savers
    <3> QED
      BY <3>3, <3>4, <1>2 DEF Owed
  <2>2. ASSUME NEW r \in Runners, runner'[r].pc \in {"run", "ran"}, runner'[r].id \notin overtaken'
        PROVE  runner'[r].id \in known' /\ statuses'[runner'[r].id].enabled
    <3>1. runner[r].pc \in {"run", "ran"} /\ runner'[r].id = runner[r].id
      BY <2>2, <1>2, <1>3
    <3>2. running(runner[r].id) /\ runner[r].id \in known /\ statuses[runner[r].id].enabled
      BY <2>2, <3>1, <1>1 DEF RunsInv, running
    <3>3. runner[r].id # id /\ runner[r].id \in Ids
      BY <2>2, <3>1, <3>2, <1>1, FileFacts DEF SourceTypes
    <3> QED
      BY <3>1, <3>2, <3>3
  <2>3. ASSUME NEW r \in Runners, runner'[r].pc = "half", NEW x \in known' \ specs', statuses'[x].enabled
        PROVE  x \notin runner'[r].file.specs
    <3>1. x \in Ids /\ x # id
      BY <2>3, <1>1
    <3>2. x \in known \ specs /\ statuses[x].enabled
      BY <2>3, <3>1
    <3> QED
      BY <2>3, <3>2, <1>2, <1>3 DEF RunsInv
  <2>4. ASSUME NEW r \in savers' PROVE Settled(runner'[r].file, overtaken', misfiled')
    <3>1. r \in savers /\ r \in Runners
      BY <2>4, <1>2 DEF savers
    <3> QED
      BY <3>1, <1>1, <1>2, OvertakenGrows DEF RunsInv
  <2> QED
    BY <2>1, <2>2, <2>3, <2>4 DEF RunsInv
<1> QED
  BY <1>2, <1>5, <1>6

\* The facts the operations start from.
LEMMA Before ==
    ASSUME SourcesInv
    PROVE  /\ specs \in SUBSET Ids /\ statuses \in [known -> Statuses] /\ known \in SUBSET Ids
           /\ file.specs = specs /\ file.statuses = statuses /\ DOMAIN statuses = known
           /\ specs \subseteq known \cup misfiled /\ known \ specs \subseteq overtaken \cup misfiled
           /\ \A id \in known \ specs : statuses[id].enabled => id \in misfiled
           /\ \A id \in specs \cap known : statuses[id].enabled => DependsOn[id] \subseteq specs \cup misfiled
           /\ \A id \in known \ overtaken :
                 IF statuses[id].state = "running" THEN statuses[id].enabled
                 ELSE statuses[id].enabled <=> statuses[id].state \in {"enabled", "error"}
           /\ overtaken \subseteq Ids /\ driven \subseteq specs \cap known
           /\ kernelOn \in SUBSET (Ids \cup OnInFile) /\ oldOn \in SUBSET (Ids \cup OnInFile) /\ reloaded \in BOOLEAN
<1> USE DEF SourcesInv
<1>1. /\ specs \in SUBSET Ids /\ statuses \in [known -> Statuses] /\ known \in SUBSET Ids
      /\ file.specs = specs /\ file.statuses = statuses /\ DOMAIN statuses = known
  BY FileFacts DEF SourceTypes
<1> QED
  BY <1>1 DEF Settled, SourceTypes, SwitchInv

LEMMA AfterFile ==
    ASSUME specs' \in SUBSET Ids, NEW D \in SUBSET Ids, statuses' \in [D -> Statuses]
    PROVE  /\ file' \in SourceFiles /\ file'.specs = specs' /\ file'.statuses = statuses'
           /\ DOMAIN statuses' = D /\ known' = D
BY MakesFile DEF file, known

LEMMA Overtaken ==
    ASSUME NEW id, touch(id)
    PROVE  /\ overtaken \subseteq overtaken' /\ overtaken' \subseteq overtaken \cup {id}
           /\ running(id) => id \in overtaken'
BY DEF touch

LEMMA AppliesConfig ==
    ASSUME SourcesInv, NEW id \in Ids, applyConfigToAdapter(id)
    PROVE  /\ kernelOn' \in SUBSET (Ids \cup OnInFile)
           /\ driven' \subseteq driven
           /\ \A x \in driven' : x \in kernelOn' <=> x \in kernelOn
BY Before DEF applyConfigToAdapter, setAdapterEnabled

\* The status of one source is set.
LEMMA StatusSet ==
    ASSUME SourcesInv, NEW id \in Ids, NEW v \in Statuses, statuses' = with(statuses, id, v), specs' \in SUBSET Ids
    PROVE  /\ statuses' \in [known \cup {id} -> Statuses] /\ statuses'[id] = v /\ known' = known \cup {id}
           /\ \A x \in known : x # id => statuses'[x] = statuses[x]
           /\ file' \in SourceFiles /\ file'.specs = specs' /\ file'.statuses = statuses' /\ DOMAIN statuses' = known'
<1>1. /\ statuses' \in [known \cup {id} -> Statuses] /\ statuses'[id] = v
      /\ \A x \in known : x # id => statuses'[x] = statuses[x]
  BY Before DEF with, known
<1>2. known \cup {id} \in SUBSET Ids
  BY Before
<1> QED
  BY <1>1, <1>2, AfterFile

LEMMA DeployStep == ASSUME SourcesInv, NEW id \in Sources, DeploySource(id) PROVE SourcesInv'
<1> USE DEF DeploySource
<1> DEFINE v == statusOf("installed", FALSE)
<1>0. v \in Statuses /\ v.state = "installed" /\ v.enabled = FALSE /\ id \in Ids
  BY DEF Statuses, States, statusOf, Ids
<1>1. statuses' = with(statuses, id, v) /\ specs' \in SUBSET Ids /\ misfiled' = misfiled
  BY <1>0, Before DEF op
<1> HIDE DEF v
<1>2. /\ statuses' \in [known \cup {id} -> Statuses] /\ statuses'[id] = v /\ known' = known \cup {id}
      /\ \A x \in known : x # id => statuses'[x] = statuses[x]
      /\ file' \in SourceFiles /\ file'.specs = specs' /\ file'.statuses = statuses' /\ DOMAIN statuses' = known'
  BY <1>0, <1>1, StatusSet
<1>3. Settled(file', overtaken', misfiled')
  BY <1>0, <1>1, <1>2, Before, Overtaken DEF Settled
<1>4. SwitchInv'
  BY <1>0, <1>2, Before, AppliesConfig DEF SwitchInv, SourcesInv
<1> QED
  BY <1>0, <1>1, <1>2, <1>3, <1>4, Before, AppliesConfig, OperationKeeps DEF op

LEMMA UninstallStep ==
    ASSUME SourcesInv, NEW id \in Sources, NEW force, UninstallSource(id, force)
    PROVE  SourcesInv'
<1> USE DEF UninstallSource
<1>0. misfiled' = misfiled
  BY DEF op
<1>1. /\ statuses' \in [known \ {id} -> Statuses]
      /\ \A x \in known \ {id} : statuses'[x] = statuses[x]
  BY Before DEF without, known
<1>2. /\ file' \in SourceFiles /\ file'.specs = specs' /\ file'.statuses = statuses'
      /\ DOMAIN statuses' = known' /\ known' = known \ {id}
  BY <1>1, Before, AfterFile
<1>3. Settled(file', overtaken', misfiled')
  <2>1. ASSUME NEW s \in specs' \cap known', statuses'[s].enabled
        PROVE  DependsOn[s] \subseteq specs' \cup misfiled'
    <3>1. s \in specs \cap known /\ statuses[s].enabled
      BY <2>1, <1>1, <1>2
    <3>2. id \notin DependsOn[s]
      BY <3>1, CurrentStatus
    <3>3. DependsOn[s] \subseteq specs \cup misfiled
      BY <3>1, Before
    <3> QED
      BY <3>2, <3>3, <1>0
  <2>2. /\ specs' \subseteq known' \cup misfiled' /\ known' \ specs' \subseteq overtaken' \cup misfiled'
        /\ \A x \in known' \ specs' : statuses'[x].enabled => x \in misfiled'
    BY <1>0, <1>1, <1>2, Before, Overtaken
  <2>3. \A x \in known' \ overtaken' :
                 IF statuses'[x].state = "running" THEN statuses'[x].enabled
                 ELSE statuses'[x].enabled <=> statuses'[x].state \in {"enabled", "error"}
    BY <1>1, <1>2, Before, Overtaken
  <2> QED
    BY <1>2, <2>1, <2>2, <2>3 DEF Settled
<1>4. SwitchInv' /\ kernelOn' \in SUBSET (Ids \cup OnInFile)
  BY <1>1, <1>2, Before DEF SwitchInv, SourcesInv, setAdapterEnabled
<1> QED
  BY <1>0, <1>1, <1>2, <1>3, <1>4, Before, OperationKeeps DEF op

\* A source that there is gets another status.
LEMMA StatusStep ==
    ASSUME SourcesInv, NEW id \in Sources, op, id \in specs, NEW v \in Statuses,
           statuses' = with(statuses, id, v), UNCHANGED specs, saveState, touch(id),
           v.state # "running", v.enabled <=> v.state \in {"enabled", "error"},
           v.enabled => DependsOn[id] \subseteq specs \cup misfiled,
           kernelOn' \in SUBSET (Ids \cup OnInFile), driven' \subseteq driven \cup {id},
           \A x \in driven' \ {id} : x \in kernelOn' <=> x \in kernelOn,
           id \in driven' => (id \in kernelOn' <=> v.enabled)
    PROVE  SourcesInv'
<1>0. known \in SUBSET Ids /\ specs \in SUBSET Ids /\ specs' = specs /\ misfiled' = misfiled /\ id \in Ids
  BY Before DEF op, Ids
<1>1. /\ statuses' \in [known \cup {id} -> Statuses] /\ statuses'[id] = v /\ known' = known \cup {id}
      /\ \A x \in known : x # id => statuses'[x] = statuses[x]
      /\ file' \in SourceFiles /\ file'.specs = specs' /\ file'.statuses = statuses' /\ DOMAIN statuses' = known'
  BY <1>0, StatusSet
<1>3. Settled(file', overtaken', misfiled')
  <2>1. overtaken \subseteq overtaken'
    BY Overtaken
  <2>2. \A x \in specs \cap known' : statuses'[x].enabled => DependsOn[x] \subseteq specs \cup misfiled
    BY <1>1, Before
  <2>3. \A x \in known' \ specs : statuses'[x].enabled => x \in misfiled
    BY <1>1, Before
  <2>4. \A x \in known' \ overtaken' :
          IF statuses'[x].state = "running" THEN statuses'[x].enabled
          ELSE statuses'[x].enabled <=> statuses'[x].state \in {"enabled", "error"}
    BY <1>1, <2>1, Before
  <2>5. specs \subseteq known' \cup misfiled /\ known' \ specs \subseteq overtaken' \cup misfiled
    BY <1>1, <2>1, Before
  <2> QED
    BY <1>0, <1>1, <2>2, <2>3, <2>4, <2>5 DEF Settled
<1>4. SwitchInv'
  BY <1>0, <1>1, Before DEF SwitchInv, SourcesInv
<1> QED
  BY <1>0, <1>1, <1>3, <1>4, Before, OperationKeeps DEF op

LEMMA EnableStep == ASSUME SourcesInv, NEW id \in Sources, EnableSource(id) PROVE SourcesInv'
<1> USE DEF EnableSource
<1> DEFINE v == statusOf("enabled", TRUE)
<1>1. v \in Statuses /\ v.state = "enabled" /\ v.enabled = TRUE /\ id \in Ids
  BY DEF Statuses, States, statusOf, Ids
<1> HIDE DEF v
<1>2. statuses' = with(statuses, id, v)
  BY DEF v
<1>3. DependsOn[id] \subseteq specs \cup misfiled
  <2>1. ASSUME NEW d \in DependsOn[id] PROVE d \in specs \cup misfiled
    BY Before, CurrentStatus
  <2> QED
    BY <2>1
<1>4. /\ kernelOn' \in SUBSET (Ids \cup OnInFile) /\ driven' = driven \cup {id} /\ id \in kernelOn'
      /\ \A x \in driven' \ {id} : x \in kernelOn' <=> x \in kernelOn
  BY <1>1, Before DEF setAdapterEnabled
<1> QED
  BY <1>1, <1>2, <1>3, <1>4, StatusStep

LEMMA DisableStep == ASSUME SourcesInv, NEW id \in Sources, DisableSource(id) PROVE SourcesInv'
<1> USE DEF DisableSource
<1> DEFINE v == statusOf("disabled", FALSE)
<1>1. v \in Statuses /\ v.state = "disabled" /\ v.enabled = FALSE /\ id \in Ids
  BY DEF Statuses, States, statusOf, Ids
<1> HIDE DEF v
<1>2. statuses' = with(statuses, id, v)
  BY DEF v
<1>3. /\ kernelOn' \in SUBSET (Ids \cup OnInFile) /\ driven' = driven \cup {id} /\ id \notin kernelOn'
      /\ \A x \in driven' \ {id} : x \in kernelOn' <=> x \in kernelOn
  BY <1>1, Before DEF setAdapterEnabled
<1> QED
  BY <1>1, <1>2, <1>3, StatusStep

LEMMA UpdateStep == ASSUME SourcesInv, NEW id \in Sources, UpdateSource(id) PROVE SourcesInv'
<1> USE DEF UpdateSource
<1> DEFINE on == current(id).enabled
           v == statusOf(IF on THEN "enabled" ELSE "installed", on)
<1>0. id \in Ids /\ on \in BOOLEAN /\ (id \in known => on = statuses[id].enabled) /\ (on => id \in known)
  BY CurrentStatus DEF Ids
<1>1. /\ v \in Statuses /\ v.state # "running" /\ v.enabled = on
      /\ v.enabled <=> v.state \in {"enabled", "error"}
  <2> HIDE DEF on
  <2> QED
    BY <1>0 DEF Statuses, States, statusOf
<1>2. statuses' = with(statuses, id, v)
  OBVIOUS
<1> HIDE DEF v, on
<1>3. id \in driven => (id \in kernelOn <=> v.enabled)
  BY <1>0, <1>1 DEF SourcesInv, SwitchInv
<1>4. v.enabled => DependsOn[id] \subseteq specs \cup misfiled
  BY <1>0, <1>1, Before
<1> QED
  BY <1>0, <1>1, <1>2, <1>3, <1>4, Before, StatusStep

LEMMA ConfigureStep == ASSUME SourcesInv, NEW id \in Sources, ConfigureSource(id) PROVE SourcesInv'
<1> USE DEF ConfigureSource
<1> DEFINE v == current(id)
<1>0. /\ v \in Statuses /\ v.enabled \in BOOLEAN /\ id \in Ids /\ id \in specs
      /\ id \in known => v = statuses[id]
      /\ id \notin known => v.enabled = FALSE /\ v.state = ""
      /\ statuses' = with(statuses, id, v) /\ specs' = specs /\ misfiled' = misfiled /\ overtaken' = overtaken
  BY CurrentStatus DEF Ids, op
<1> HIDE DEF v
<1>1. /\ statuses' \in [known \cup {id} -> Statuses] /\ statuses'[id] = v /\ known' = known \cup {id}
      /\ \A x \in known : x # id => statuses'[x] = statuses[x]
      /\ file' \in SourceFiles /\ file'.specs = specs' /\ file'.statuses = statuses' /\ DOMAIN statuses' = known'
  BY <1>0, Before, StatusSet
<1>2. /\ \A x \in known : statuses'[x] = statuses[x]
      /\ id \notin known => statuses'[id].enabled = FALSE /\ statuses'[id].state = ""
  BY <1>0, <1>1
<1>3. Settled(file', overtaken', misfiled')
  <2>1. \A x \in known' \ specs : x \in known /\ statuses'[x] = statuses[x]
    BY <1>0, <1>1, <1>2
  <2>2. \A x \in specs \cap known' : statuses'[x].enabled => x \in known /\ statuses[x].enabled
    BY <1>1, <1>2
  <2>3. ASSUME NEW x \in known' \ overtaken
        PROVE  IF statuses'[x].state = "running" THEN statuses'[x].enabled
               ELSE statuses'[x].enabled <=> statuses'[x].state \in {"enabled", "error"}
    <3>1. CASE x \in known
      BY <2>3, <3>1, <1>2, Before
    <3>2. CASE x \notin known
      BY <2>3, <3>2, <1>1, <1>2
    <3> QED
      BY <3>1, <3>2
  <2>4. \A x \in known' \ specs : x \in overtaken \cup misfiled /\ (statuses'[x].enabled => x \in misfiled)
    BY <2>1, Before
  <2>5. \A x \in specs \cap known' : statuses'[x].enabled => DependsOn[x] \subseteq specs \cup misfiled
    BY <2>2, Before
  <2>6. specs \subseteq known' \cup misfiled
    BY <1>1, Before
  <2> QED
    BY <1>0, <1>1, <2>3, <2>4, <2>5, <2>6 DEF Settled
<1>4. SwitchInv'
  BY <1>0, <1>1, <1>2, Before, AppliesConfig DEF SourcesInv, SwitchInv
<1>5. /\ savedState' \in SourceFiles /\ Settled(savedState', overtaken', misfiled')
      /\ runner' \in [Runners -> Requests]
      /\ \A r \in Runners : runner'[r].id = runner[r].id /\ runner'[r].file = runner[r].file
      /\ \A r \in Runners : runner'[r].pc = runner[r].pc \/ (r \in savers /\ runner'[r].pc = "crossed")
      /\ savers' = savers
      /\ FileNamesSources'
  BY <1>0, <1>1, <1>3, LockedSave
<1>6. \A r \in Runners : runner'[r].pc \in {"idle", "run", "ran", "half"} => runner'[r].pc = runner[r].pc
  BY <1>5
<1>7. \A r \in savers : runner[r].pc \notin {"idle", "run", "ran", "half"}
  BY DEF savers
<1>8. SourceTypes'
  BY <1>0, <1>1, <1>5, <1>7, Before, AppliesConfig DEF SourcesInv, SourceTypes, op
<1>9. RunsInv'
  <2>1. ASSUME NEW x \in known' \ overtaken', statuses'[x].state = "running" PROVE Owed(x)'
    <3>1. x \in known \ overtaken /\ statuses[x].state = "running"
      BY <2>1, <1>0, <1>1, <1>2
    <3>2. PICK q \in Runners : runner[q].pc \in {"run", "ran"} /\ runner[q].id = x
      BY <3>1 DEF SourcesInv, RunsInv, Owed
    <3> QED
      BY <3>2, <1>5, <1>7 DEF Owed
  <2>2. ASSUME NEW r \in Runners, runner'[r].pc \in {"run", "ran"}, runner'[r].id \notin overtaken'
        PROVE  runner'[r].id \in known' /\ statuses'[runner'[r].id].enabled
    <3>1. runner[r].pc \in {"run", "ran"} /\ runner'[r].id = runner[r].id /\ runner[r].id \notin overtaken
      BY <2>2, <1>0, <1>5, <1>6
    <3>2. runner[r].id \in known /\ statuses[runner[r].id].enabled
      BY <3>1 DEF SourcesInv, RunsInv
    <3> QED
      BY <3>1, <3>2, <1>1, <1>2
  <2>3. ASSUME NEW r \in Runners, runner'[r].pc = "half", NEW x \in known' \ specs', statuses'[x].enabled
        PROVE  x \notin runner'[r].file.specs
    <3>1. x \in known \ specs /\ statuses[x].enabled /\ runner[r].pc = "half"
      BY <2>3, <1>0, <1>1, <1>2, <1>6
    <3> QED
      BY <3>1, <1>5 DEF SourcesInv, RunsInv
  <2>4. ASSUME NEW r \in savers' PROVE Settled(runner'[r].file, overtaken', misfiled')
    <3>1. r \in savers /\ r \in Runners
      BY <2>4, <1>5 DEF savers
    <3> QED
      BY <3>1, <1>0, <1>5, OvertakenGrows DEF SourcesInv, RunsInv
  <2> QED
    BY <2>1, <2>2, <2>3, <2>4 DEF RunsInv
<1> QED
  BY <1>3, <1>4, <1>5, <1>8, <1>9 DEF SourcesInv

-----------------------------------------------------------------------------
\* The requests.
LEMMA Request ==
    ASSUME SourcesInv, NEW r \in Runners
    PROVE  /\ runner \in [Runners -> Requests] /\ runner[r] \in Requests /\ runner[r].file \in SourceFiles
           /\ runner[r].pc # "idle" => runner[r].id \in Ids
           /\ runner[r].pc \in {"run", "ran"} /\ runner[r].id \notin overtaken =>
                 runner[r].id \in known /\ statuses[runner[r].id].enabled
           /\ r \in savers => Settled(runner[r].file, overtaken, misfiled)
BY DEF SourcesInv, SourceTypes, RunsInv, Requests

\* The file does not change while a request runs.
LEMMA FileStays ==
    ASSUME SourcesInv, UNCHANGED <<savedState, overwrote, specs, kernelOn, oldOn, reloaded>>, overtaken \subseteq overtaken',
           misfiled \subseteq misfiled', overtaken' \subseteq Ids, file' \in SourceFiles,
           runner' \in [Runners -> Requests], \A r \in Runners : runner'[r].pc # "idle" => runner'[r].id \in Ids
    PROVE  SourceTypes' /\ Settled(savedState, overtaken, misfiled)' /\ FileNamesSources'
BY OvertakenGrows DEF SourcesInv, SourceTypes, FileNamesSources

\* The requests that a step leaves as they are.
LEMMA RunsStay ==
    ASSUME SourcesInv, NEW r \in Runners, specs' = specs, overtaken \subseteq overtaken', misfiled \subseteq misfiled',
           known \subseteq known', \A x \in known \ overtaken' : statuses'[x].enabled = statuses[x].enabled,
           \A x \in known' \ specs : statuses'[x].enabled => x \in known /\ statuses[x].enabled,
           \A q \in Runners \ {r} : /\ runner'[q].file = runner[q].file /\ runner'[q].id = runner[q].id
                                    /\ \/ runner'[q].pc = runner[q].pc
                                       \/ q \in savers /\ runner'[q].pc = "crossed"
    PROVE  /\ \A q \in Runners \ {r} : runner'[q].pc \in {"run", "ran"} /\ runner'[q].id \notin overtaken' =>
                 runner'[q].id \in known' /\ statuses'[runner'[q].id].enabled
           /\ \A q \in Runners \ {r} : runner'[q].pc = "half" =>
                 \A id \in known' \ specs' : statuses'[id].enabled => id \notin runner'[q].file.specs
           /\ \A q \in savers' \ {r} : Settled(runner'[q].file, overtaken', misfiled')
           /\ \A x : (\E q \in Runners \ {r} : runner[q].pc \in {"run", "ran"} /\ runner[q].id = x) => Owed(x)'
<1>1. ASSUME NEW q \in Runners \ {r}
      PROVE  /\ runner'[q].pc \in {"run", "ran", "half"} => runner'[q].pc = runner[q].pc
             /\ runner[q].pc \in {"run", "ran", "half"} => runner'[q].pc = runner[q].pc
             /\ runner'[q].pc \in {"write", "crossed"} => q \in savers
  BY DEF savers
<1>2. ASSUME NEW q \in Runners \ {r}, runner'[q].pc \in {"run", "ran"}, runner'[q].id \notin overtaken'
      PROVE  runner'[q].id \in known' /\ statuses'[runner'[q].id].enabled
  BY <1>1, <1>2 DEF SourcesInv, RunsInv
<1>3. ASSUME NEW q \in Runners \ {r}, runner'[q].pc = "half", NEW id \in known' \ specs', statuses'[id].enabled
      PROVE  id \notin runner'[q].file.specs
  BY <1>1, <1>3 DEF SourcesInv, RunsInv
<1>4. ASSUME NEW q \in savers' \ {r} PROVE Settled(runner'[q].file, overtaken', misfiled')
  <2>1. q \in Runners \ {r} /\ q \in savers
    BY <1>1, <1>4 DEF savers
  <2> QED
    BY <2>1, OvertakenGrows DEF SourcesInv, RunsInv
<1>5. ASSUME NEW x, NEW q \in Runners \ {r}, runner[q].pc \in {"run", "ran"}, runner[q].id = x PROVE Owed(x)'
  BY <1>1, <1>5 DEF Owed
<1> QED
  BY <1>2, <1>3, <1>4, <1>5

LEMMA RunStep ==
    ASSUME SourcesInv, NEW r \in Runners, NEW id \in Sources, RunSourceNow(r, id)
    PROVE  SourcesInv'
<1> USE DEF RunSourceNow
<1> DEFINE v == [statuses[id] EXCEPT !.state = "running"]
<1>0. /\ known \in SUBSET Ids /\ specs \in SUBSET Ids /\ specs' = specs /\ id \in Ids /\ statuses[id] \in Statuses
      /\ misfiled' = misfiled
  BY Before DEF Ids
<1>1. v \in Statuses /\ v.enabled = TRUE /\ v.state = "running"
  BY <1>0 DEF Statuses, States
<1>2. statuses' = [statuses EXCEPT ![id] = v]
  OBVIOUS
<1> HIDE DEF v
<1>3. /\ statuses' \in [known -> Statuses] /\ statuses'[id] = v
      /\ \A x \in known : x # id => statuses'[x] = statuses[x]
  BY <1>1, <1>2, Before
<1>4. file' \in SourceFiles /\ file'.specs = specs /\ file'.statuses = statuses' /\ DOMAIN statuses' = known /\ known' = known
  BY <1>0, <1>3, AfterFile
<1>5. /\ runner' \in [Runners -> Requests]
      /\ \A q \in Runners \ {r} : runner'[q] = runner[q]
      /\ \/ runner'[r].pc = "run" /\ runner'[r].id = id /\ overtaken' = overtaken
         \/ runner'[r].pc = "idle" /\ overtaken' = overtaken \cup {id}
  <2>1. CASE runner' = [runner EXCEPT ![r].pc = "run", ![r].id = id] /\ UNCHANGED overtaken
    <3> DEFINE v0 == [runner[r] EXCEPT !.pc = "run", !.id = id]
    <3>1. runner' = [runner EXCEPT ![r] = v0]
      BY <2>1
    <3>2. v0 \in Requests /\ v0.pc = "run" /\ v0.id = id
      BY <1>0, Request DEF Requests, RequestPcs
    <3> HIDE DEF v0
    <3> QED
      BY <2>1, <3>1, <3>2, Request
  <2>2. CASE overtaken' = overtaken \cup {id} /\ UNCHANGED runner
    BY <2>2, Request
  <2> QED
    BY <2>1, <2>2
<1>6. SourceTypes' /\ Settled(savedState, overtaken, misfiled)' /\ FileNamesSources'
  BY <1>0, <1>4, <1>5, Before, Request, FileStays
<1>7. Settled(file', overtaken', misfiled')
  <2>1. \A x \in known : statuses'[x].enabled = statuses[x].enabled
    BY <1>1, <1>3
  <2>2. \A x \in known \ overtaken' :
          IF statuses'[x].state = "running" THEN statuses'[x].enabled
          ELSE statuses'[x].enabled <=> statuses'[x].state \in {"enabled", "error"}
    BY <1>1, <1>3, <1>5, Before
  <2> QED
    BY <1>0, <1>4, <1>5, <2>1, <2>2, Before DEF Settled
<1>8. RunsInv'
  <2>1. \A x \in known : statuses'[x].enabled = statuses[x].enabled
    BY <1>1, <1>3
  <2>2. /\ \A q \in Runners \ {r} : runner'[q].pc \in {"run", "ran"} /\ runner'[q].id \notin overtaken' =>
                 runner'[q].id \in known' /\ statuses'[runner'[q].id].enabled
        /\ \A q \in Runners \ {r} : runner'[q].pc = "half" =>
                 \A x \in known' \ specs' : statuses'[x].enabled => x \notin runner'[q].file.specs
        /\ \A q \in savers' \ {r} : Settled(runner'[q].file, overtaken', misfiled')
        /\ \A x : (\E q \in Runners \ {r} : runner[q].pc \in {"run", "ran"} /\ runner[q].id = x) => Owed(x)'
    <3>1. overtaken \subseteq overtaken'
      BY <1>5
    <3> QED
      BY <2>1, <3>1, <1>0, <1>4, <1>5, RunsStay
  <2>3. ASSUME NEW x \in known' \ overtaken', statuses'[x].state = "running" PROVE Owed(x)'
    <3>1. CASE x = id
      BY <2>3, <3>1, <1>5 DEF Owed
    <3>2. CASE x # id
      <4>1. PICK q \in Runners : runner[q].pc \in {"run", "ran"} /\ runner[q].id = x
        BY <2>3, <3>2, <1>3, <1>4, <1>5 DEF SourcesInv, RunsInv, Owed
      <4>2. q # r
        BY <4>1
      <4> QED
        BY <2>2, <4>1, <4>2
    <3> QED
      BY <3>1, <3>2
  <2>4. runner'[r].pc \in {"run", "ran"} /\ runner'[r].id \notin overtaken' =>
          runner'[r].id \in known' /\ statuses'[runner'[r].id].enabled
    BY <1>1, <1>3, <1>4, <1>5
  <2>5. runner'[r].pc # "half" /\ r \notin savers'
    BY <1>5 DEF savers
  <2> QED
    BY <2>2, <2>3, <2>4, <2>5 DEF RunsInv
<1>9. SwitchInv'
  BY <1>1, <1>3, <1>4, Before DEF SourcesInv, SwitchInv
<1> QED
  BY <1>6, <1>7, <1>8, <1>9 DEF SourcesInv

\* A step of a request that changes neither the sources nor the file.
LEMMA RequestStep ==
    ASSUME SourcesInv, NEW r \in Runners, runner[r].pc # "idle",
           UNCHANGED <<specs, statuses, kernelOn, oldOn, reloaded, savedState, overtaken, driven, overwrote>>,
           misfiled \subseteq misfiled', runner' \in [Runners -> Requests], runner'[r].id = runner[r].id,
           \A q \in Runners \ {r} : /\ runner'[q].file = runner[q].file /\ runner'[q].id = runner[q].id
                                    /\ \/ runner'[q].pc = runner[q].pc
                                       \/ q \in savers /\ runner'[q].pc = "crossed",
           runner[r].pc \in {"run", "ran"} => runner'[r].pc \in {"run", "ran"},
           runner'[r].pc \in {"run", "ran"} => runner[r].pc \in {"run", "ran"},
           runner'[r].pc = "half" => runner'[r].file.specs = specs,
           r \in savers' => Settled(runner'[r].file, overtaken, misfiled')
    PROVE  SourcesInv'
<1>1. file' = file /\ file \in SourceFiles /\ known' = known
  BY DEF file, known, SourcesInv, SourceTypes
<1>2. SourceTypes' /\ Settled(savedState, overtaken, misfiled)' /\ FileNamesSources'
  <2>1. \A q \in Runners : runner'[q].pc # "idle" => runner'[q].id \in Ids
    <3>1. ASSUME NEW q \in Runners, runner'[q].pc # "idle" PROVE runner'[q].id \in Ids
      <4>1. runner[q].pc # "idle" /\ runner'[q].id = runner[q].id
        BY <3>1 DEF savers
      <4> QED
        BY <4>1, Request
    <3> QED
      BY <3>1
  <2> QED
    BY <1>1, <2>1, Before, FileStays
<1>3. Settled(file', overtaken', misfiled')
  BY <1>1, OvertakenGrows DEF SourcesInv
<1>4. RunsInv'
  <2>1. /\ \A q \in Runners \ {r} : runner'[q].pc \in {"run", "ran"} /\ runner'[q].id \notin overtaken' =>
                 runner'[q].id \in known' /\ statuses'[runner'[q].id].enabled
        /\ \A q \in Runners \ {r} : runner'[q].pc = "half" =>
                 \A x \in known' \ specs' : statuses'[x].enabled => x \notin runner'[q].file.specs
        /\ \A q \in savers' \ {r} : Settled(runner'[q].file, overtaken', misfiled')
        /\ \A x : (\E q \in Runners \ {r} : runner[q].pc \in {"run", "ran"} /\ runner[q].id = x) => Owed(x)'
    BY <1>1, RunsStay
  <2>2. ASSUME NEW x \in known' \ overtaken', statuses'[x].state = "running" PROVE Owed(x)'
    <3>1. PICK q \in Runners : runner[q].pc \in {"run", "ran"} /\ runner[q].id = x
      BY <2>2, <1>1 DEF SourcesInv, RunsInv, Owed
    <3>2. CASE q = r
      BY <3>1, <3>2 DEF Owed
    <3> QED
      BY <2>1, <3>1, <3>2
  <2>3. runner'[r].pc \in {"run", "ran"} /\ runner'[r].id \notin overtaken' =>
          runner'[r].id \in known' /\ statuses'[runner'[r].id].enabled
    BY <1>1, Request
  <2> QED
    BY <1>1, <2>1, <2>2, <2>3 DEF RunsInv
<1> QED
  BY <1>1, <1>2, <1>3, <1>4 DEF SourcesInv, SwitchInv

LEMMA AdaptersStep == ASSUME SourcesInv, NEW r \in Runners, RunAdapters(r) PROVE SourcesInv'
<1> USE DEF RunAdapters, histories
<1>1. adapterOn \cap Builtin \in SUBSET Ids
  BY DEF Ids
<1>2. /\ runner' \in [Runners -> Requests] /\ runner'[r].pc = "ran" /\ runner'[r].id = runner[r].id
      /\ \A q \in Runners \ {r} : runner'[q] = runner[q]
  BY <1>1, Request DEF Requests, RequestPcs
<1>3. r \notin savers'
  BY <1>2 DEF savers
<1> QED
  BY <1>2, <1>3, RequestStep

LEMMA ReadsStep == ASSUME SourcesInv, NEW r \in Runners, RunReadsSpecs(r) PROVE SourcesInv'
<1> USE DEF RunReadsSpecs, histories
<1> DEFINE f == [runner[r].file EXCEPT !.specs = specs]
<1>1. f \in SourceFiles /\ f.specs = specs
  BY Request, Before DEF SourceFiles
<1>2. runner' = [runner EXCEPT ![r] = [runner[r] EXCEPT !.pc = "half", !.file = f]]
  OBVIOUS
<1> HIDE DEF f
<1>3. /\ runner' \in [Runners -> Requests] /\ runner'[r].pc = "half" /\ runner'[r].id = runner[r].id
      /\ runner'[r].file = f /\ \A q \in Runners \ {r} : runner'[q] = runner[q]
  <2> DEFINE v == [runner[r] EXCEPT !.pc = "half", !.file = f]
  <2>1. v \in Requests /\ v.pc = "half" /\ v.id = runner[r].id /\ v.file = f
    BY <1>1, Request DEF Requests, RequestPcs
  <2>2. runner' = [runner EXCEPT ![r] = v]
    BY <1>2
  <2> HIDE DEF v
  <2> QED
    BY <2>1, <2>2, Request
<1>4. r \notin savers'
  BY <1>3 DEF savers
<1> QED
  BY <1>1, <1>3, <1>4, RequestStep

LEMMA MarshalsStep == ASSUME SourcesInv, NEW r \in Runners, RunMarshals(r) PROVE SourcesInv'
<1> USE DEF RunMarshals
<1> DEFINE read == runner[r].file.specs
           f == [specs |-> read, statuses |-> statuses]
           mis == misfiled \cup (read \ specs) \cup (specs \ read)
<1>0. runner[r].pc = "half" /\ r \notin savers
  BY DEF savers
<1>1. f \in SourceFiles /\ f.specs = read /\ f.statuses = statuses /\ read \in SUBSET Ids
  <2>1. read \in SUBSET Ids
    BY Request DEF SourceFiles
  <2> QED
    BY <2>1, Before, MakesFile
<1>2. \A x \in known \ specs : statuses[x].enabled => x \notin read
  BY <1>0 DEF SourcesInv, RunsInv
<1>3. misfiled' = mis
  OBVIOUS
<1> HIDE DEF read
<1>4. Settled(f, overtaken, mis)
  BY <1>1, <1>2, Before DEF Settled
<1> HIDE DEF f, mis
<1>5. \A q \in Runners : runner[q] \in Requests
  BY Request
<1>6. ASSUME NEW q \in Runners
      PROVE  /\ runner'[q] \in Requests /\ runner'[q].id = runner[q].id
             /\ q # r => /\ runner'[q].file = runner[q].file
                         /\ runner'[q].pc = IF q \in savers THEN "crossed" ELSE runner[q].pc
             /\ q = r => runner'[q].file = f /\ runner'[q].pc \in {"write", "crossed"}
  <2> DEFINE w == IF savers = {} THEN "write" ELSE "crossed"
  <2>0. w \in {"write", "crossed"}
    OBVIOUS
  <2>1. runner' = [crossed EXCEPT ![r].pc = w, ![r].file = f]
    BY DEF f, read
  <2> HIDE DEF w
  <2>2. crossed[r] = runner[r]
    BY <1>0 DEF crossed
  <2>3. runner' = [crossed EXCEPT ![r] = [crossed[r] EXCEPT !.pc = w, !.file = f]]
    BY <2>1
  <2>4. q # r => runner'[q] = IF q \in savers THEN [runner[q] EXCEPT !.pc = "crossed"] ELSE runner[q]
    BY <2>3 DEF crossed
  <2>5. q = r => runner'[q] = [runner[r] EXCEPT !.pc = w, !.file = f]
    BY <2>2, <2>3 DEF crossed
  <2>6. CASE q # r
    <3>1. runner[q] \in Requests /\ "crossed" \in RequestPcs
      BY <1>5 DEF RequestPcs
    <3>2. CASE q \in savers
      <4>1. runner'[q] = [runner[q] EXCEPT !.pc = "crossed"]
        BY <2>4, <2>6, <3>2
      <4>2. runner'[q] \in Requests /\ runner'[q].id = runner[q].id /\ runner'[q].file = runner[q].file
            /\ runner'[q].pc = "crossed"
        BY ONLY <3>1, <4>1 DEF Requests
      <4> QED
        BY <2>6, <3>2, <4>2
    <3>3. CASE q \notin savers
      <4>1. runner'[q] = runner[q]
        BY <2>4, <2>6, <3>3
      <4> QED
        BY <2>6, <3>1, <3>3, <4>1
    <3> QED
      BY <3>2, <3>3
  <2>7. CASE q = r
    <3>1. runner[r] \in Requests /\ w \in RequestPcs
      BY <1>5, <2>0 DEF RequestPcs
    <3>2. runner'[r] = [runner[r] EXCEPT !.pc = w, !.file = f]
      BY <2>5, <2>7
    <3>3. runner'[r] \in Requests /\ runner'[r].id = runner[r].id /\ runner'[r].file = f /\ runner'[r].pc = w
      BY ONLY <1>1, <3>1, <3>2 DEF Requests
    <3> QED
      BY <2>0, <2>7, <3>3
  <2> QED
    BY <2>6, <2>7
<1>7. runner' \in [Runners -> Requests]
  <2>1. runner' = [q \in Runners |-> runner'[q]]
    BY DEF crossed
  <2> QED
    BY <1>6, <2>1
<1>8. misfiled \subseteq misfiled'
  BY <1>3 DEF mis
<1>9. UNCHANGED <<specs, statuses, kernelOn, oldOn, reloaded, savedState, overtaken, driven, overwrote>>
  OBVIOUS
<1>10. \A q \in Runners \ {r} : /\ runner'[q].file = runner[q].file /\ runner'[q].id = runner[q].id
                                 /\ \/ runner'[q].pc = runner[q].pc
                                    \/ q \in savers /\ runner'[q].pc = "crossed"
  BY <1>6
<1>11. /\ runner'[r].pc \in {"write", "crossed"} /\ runner'[r].id = runner[r].id /\ runner'[r].file = f
       /\ Settled(runner'[r].file, overtaken, misfiled')
  BY <1>3, <1>4, <1>6
<1> QED
  BY ONLY <1>0, <1>7, <1>8, <1>9, <1>10, <1>11, RequestStep, SourcesInv

LEMMA SavesStep == ASSUME SourcesInv, NEW r \in Runners, RunSaves(r) PROVE SourcesInv'
<1> USE DEF RunSaves, histories
<1>1. file' = file /\ file \in SourceFiles /\ known' = known
  BY DEF file, known, SourcesInv, SourceTypes
<1>2. /\ runner' \in [Runners -> Requests] /\ runner'[r].pc = "idle"
      /\ \A q \in Runners \ {r} : runner'[q] = runner[q]
  <2>1. Idle \in Requests /\ Idle.pc = "idle"
    BY NothingFiled DEF Requests, RequestPcs, Idle
  <2> QED
    BY <2>1, Request
<1>3. savedState' \in SourceFiles /\ Settled(savedState, overtaken, misfiled)'
  <2>1. \/ savedState' = runner[r].file
        \/ savedState' = savedState
        \/ savedState' = NoSources
    BY DEF saveFails
  <2> QED
    BY <2>1, Request, NothingFiled DEF SourcesInv, SourceTypes
<1>4. FileNamesSources'
  BY <1>1, Before DEF FileNamesSources
<1>5. RunsInv'
  <2>1. /\ \A q \in Runners \ {r} : runner'[q].pc \in {"run", "ran"} /\ runner'[q].id \notin overtaken' =>
                 runner'[q].id \in known' /\ statuses'[runner'[q].id].enabled
        /\ \A q \in Runners \ {r} : runner'[q].pc = "half" =>
                 \A x \in known' \ specs' : statuses'[x].enabled => x \notin runner'[q].file.specs
        /\ \A q \in savers' \ {r} : Settled(runner'[q].file, overtaken', misfiled')
        /\ \A x : (\E q \in Runners \ {r} : runner[q].pc \in {"run", "ran"} /\ runner[q].id = x) => Owed(x)'
    BY <1>1, <1>2, RunsStay
  <2>2. ASSUME NEW x \in known' \ overtaken', statuses'[x].state = "running" PROVE Owed(x)'
    <3>1. PICK q \in Runners : runner[q].pc \in {"run", "ran"} /\ runner[q].id = x
      BY <2>2, <1>1 DEF SourcesInv, RunsInv, Owed
    <3>2. q # r
      BY <3>1 DEF savers
    <3> QED
      BY <2>1, <3>1, <3>2
  <2>3. r \notin savers'
    BY <1>2 DEF savers
  <2> QED
    BY <1>2, <2>1, <2>2, <2>3 DEF RunsInv
<1> QED
  BY <1>1, <1>2, <1>3, <1>4, <1>5, Request DEF SourcesInv, SwitchInv, SourceTypes

\* What the end of a run makes of its source, be it there or not.
LEMMA EndsStatus ==
    ASSUME SourcesInv, NEW r \in Runners, RunEnds(r)
    PROVE  LET id == runner[r].id
           IN  /\ id \in Ids /\ known \cup {id} \in SUBSET Ids
               /\ statuses' \in [known \cup {id} -> Statuses]
               /\ \A x \in known : x # id => statuses'[x] = statuses[x]
               /\ id \in known => statuses'[id].enabled = statuses[id].enabled
               /\ id \notin known => statuses'[id].enabled = FALSE
               /\ overtaken \subseteq overtaken' /\ overtaken' \subseteq overtaken \cup {id}
               /\ id \notin overtaken' => id \in known /\ statuses'[id].state \in {"enabled", "error"}
<1> DEFINE id == runner[r].id
<1> DEFINE c == current(id)
<1>0. id \in Ids /\ runner[r].pc = "ran"
  BY Request DEF RunEnds
<1>1. /\ c \in Statuses /\ (id \in known => c = statuses[id]) /\ (id \notin known => c.enabled = FALSE)
      /\ c.enabled \in BOOLEAN
  BY <1>0, Before DEF current, statusOf, Statuses, States
<1> HIDE DEF c
<1>2. PICK v \in Statuses :
        /\ statuses' = with(statuses, id, v) /\ v.enabled = c.enabled
        /\ \/ overtaken' = overtaken \cup {id}
           \/ overtaken' = overtaken /\ id \in known /\ v.state \in {"enabled", "error"}
  <2>1. CASE id \in runner[r].on
    <3>1. PICK state \in {"enabled", "error"} : statuses' = with(statuses, id, statusOf(state, c.enabled))
      BY <2>1 DEF RunEnds, c
    <3> DEFINE v == statusOf(state, c.enabled)
    <3>2. v \in Statuses /\ v.state = state /\ v.enabled = c.enabled
      BY <1>1 DEF statusOf, Statuses, States
    <3>3. overtaken' = IF id \in known THEN overtaken ELSE overtaken \cup {id}
      BY <2>1 DEF RunEnds
    <3> QED
      BY <3>1, <3>2, <3>3
  <2>2. CASE id \notin runner[r].on
    BY <2>2, <1>1 DEF RunEnds, c
  <2> QED
    BY <2>1, <2>2
<1>3. /\ statuses' \in [known \cup {id} -> Statuses] /\ statuses'[id] = v
      /\ \A x \in known : x # id => statuses'[x] = statuses[x]
  BY <1>0, <1>2, Before DEF with, known
<1> QED
  BY <1>0, <1>1, <1>2, <1>3, Before

LEMMA EndsStep == ASSUME SourcesInv, NEW r \in Runners, RunEnds(r) PROVE SourcesInv'
<1> DEFINE id == runner[r].id
<1>0. /\ id \in Ids /\ known \cup {id} \in SUBSET Ids
      /\ statuses' \in [known \cup {id} -> Statuses]
      /\ \A x \in known : x # id => statuses'[x] = statuses[x]
      /\ id \in known => statuses'[id].enabled = statuses[id].enabled
      /\ id \notin known => statuses'[id].enabled = FALSE
      /\ overtaken \subseteq overtaken' /\ overtaken' \subseteq overtaken \cup {id}
      /\ id \notin overtaken' => id \in known /\ statuses'[id].state \in {"enabled", "error"}
  BY EndsStatus
<1>1. /\ runner[r].pc = "ran" /\ runner' = [runner EXCEPT ![r].pc = "save", ![r].on = {}]
      /\ UNCHANGED <<specs, kernelOn, oldOn, reloaded, savedState, misfiled, driven, srcCounters, overwrote>>
  BY DEF RunEnds
<1>2. /\ runner' \in [Runners -> Requests] /\ runner'[r].pc = "save" /\ runner'[r].id = id
      /\ \A q \in Runners \ {r} : runner'[q] = runner[q]
  BY <1>1, Request DEF Requests, RequestPcs
<1> HIDE DEF id
<1>3. /\ file' \in SourceFiles /\ file'.specs = specs /\ file'.statuses = statuses' /\ DOMAIN statuses' = known \cup {id}
      /\ known' = known \cup {id}
  BY <1>0, <1>1, Before, AfterFile
<1>4. SourceTypes' /\ Settled(savedState, overtaken, misfiled)' /\ FileNamesSources'
  <2>1. overtaken' \subseteq Ids /\ \A q \in Runners : runner'[q].pc # "idle" => runner'[q].id \in Ids
    BY <1>0, <1>2, Before, Request
  <2> QED
    BY <1>0, <1>1, <1>2, <1>3, <2>1, FileStays
<1>5. /\ \A x \in known \ overtaken' : statuses'[x].enabled = statuses[x].enabled
      /\ \A x \in known' \ specs : statuses'[x].enabled => x \in known /\ statuses[x].enabled
  BY <1>0, <1>3
<1>6. id \notin overtaken' => id \in known /\ statuses'[id].enabled
  BY <1>0, <1>1, Request DEF id
<1>7. Settled(file', overtaken', misfiled')
  <2>1. (known \cup {id}) \ specs \subseteq overtaken' \cup misfiled'
    BY <1>0, <1>1, Before
  <2>2. \A x \in (known \cup {id}) \ specs : statuses'[x].enabled => x \in misfiled'
    BY <1>1, <1>3, <1>5, Before
  <2>3. \A x \in specs \cap (known \cup {id}) : statuses'[x].enabled => DependsOn[x] \subseteq specs \cup misfiled'
    BY <1>0, <1>1, Before
  <2>4. ASSUME NEW x \in (known \cup {id}) \ overtaken'
        PROVE  IF statuses'[x].state = "running" THEN statuses'[x].enabled
               ELSE statuses'[x].enabled <=> statuses'[x].state \in {"enabled", "error"}
    <3>1. CASE x = id
      BY <2>4, <3>1, <1>0, <1>6
    <3>2. CASE x # id
      BY <2>4, <3>2, <1>0, Before
    <3> QED
      BY <3>1, <3>2
  <2>5. specs \subseteq (known \cup {id}) \cup misfiled'
    BY <1>1, Before
  <2> QED
    BY <1>3, <2>1, <2>2, <2>3, <2>4, <2>5 DEF Settled
<1>8. RunsInv'
  <2>1. /\ \A q \in Runners \ {r} : runner'[q].pc \in {"run", "ran"} /\ runner'[q].id \notin overtaken' =>
                 runner'[q].id \in known' /\ statuses'[runner'[q].id].enabled
        /\ \A q \in Runners \ {r} : runner'[q].pc = "half" =>
                 \A x \in known' \ specs' : statuses'[x].enabled => x \notin runner'[q].file.specs
        /\ \A q \in savers' \ {r} : Settled(runner'[q].file, overtaken', misfiled')
        /\ \A x : (\E q \in Runners \ {r} : runner[q].pc \in {"run", "ran"} /\ runner[q].id = x) => Owed(x)'
    <3>1. known \subseteq known' /\ misfiled \subseteq misfiled' /\ specs' = specs
      BY <1>1, <1>3
    <3> QED
      BY <3>1, <1>0, <1>2, <1>5, RunsStay
  <2>2. ASSUME NEW x \in known' \ overtaken', statuses'[x].state = "running" PROVE Owed(x)'
    <3>1. x # id
      BY <2>2, <1>0
    <3>2. x \in known \ overtaken /\ statuses[x].state = "running"
      BY <2>2, <3>1, <1>0, <1>3
    <3>3. PICK q \in Runners : runner[q].pc \in {"run", "ran"} /\ runner[q].id = x
      BY <3>2 DEF SourcesInv, RunsInv, Owed
    <3>4. q # r
      BY <3>1, <3>3 DEF id
    <3> QED
      BY <2>1, <3>3, <3>4
  <2>3. r \notin savers' /\ runner'[r].pc = "save"
    BY <1>2 DEF savers
  <2> QED
    BY <2>1, <2>2, <2>3 DEF RunsInv
<1>9. SwitchInv'
  <2>1. ASSUME NEW x \in driven' PROVE x \in specs' \cap known' /\ (x \in kernelOn' <=> statuses'[x].enabled)
    <3>1. x \in driven /\ x \in specs \cap known
      BY <1>1, Before
    <3>2. statuses'[x].enabled = statuses[x].enabled
      BY <3>1, <1>0
    <3> QED
      BY <3>1, <3>2, <1>1, <1>3 DEF SourcesInv, SwitchInv
  <2> QED
    BY <2>1 DEF SwitchInv
<1> QED
  BY <1>4, <1>7, <1>8, <1>9 DEF SourcesInv

-----------------------------------------------------------------------------
LEMMA ReloadStep == ASSUME SourcesInv, Reload PROVE SourcesInv'
<1> USE DEF Reload
<1>1. file' = file /\ known' = known /\ savers' = savers
  BY DEF file, known, savers
<1>2. SourceTypes'
  BY <1>1, Before DEF SourcesInv, SourceTypes, adapterOn
<1>3. RunsInv' /\ SwitchInv' /\ FileNamesSources'
  BY <1>1 DEF SourcesInv, RunsInv, Owed, SwitchInv, FileNamesSources
<1> QED
  BY <1>1, <1>2, <1>3 DEF SourcesInv

LEMMA RestartStep ==
    ASSUME SourcesInv, NEW was \in {file, savedState} \cup {f \in {NoSources} : savers # {}}, RestartSources(was)
    PROVE  SourcesInv'
<1> DEFINE new == Builtin \ was.specs
<1>0. was \in SourceFiles /\ Settled(was, overtaken, misfiled)
  BY NothingFiled DEF SourcesInv, SourceTypes
<1>1. /\ syncFromAdapterRegistry(was) /\ savedState' = was
      /\ overtaken' = {id \in DOMAIN was.statuses : id \in overtaken \/ was.statuses[id].state = "running"}
      /\ kernelOn' = OnInFile /\ oldOn' = {} /\ reloaded' = FALSE /\ driven' = {}
      /\ runner' = [r \in Runners |-> Idle] /\ overwrote' = FALSE /\ misfiled' = misfiled
  BY DEF RestartSources
<1>2. /\ was.specs \in SUBSET Ids /\ DOMAIN was.statuses \in SUBSET Ids
      /\ was.statuses \in [DOMAIN was.statuses -> Statuses]
  BY <1>0 DEF SourceFiles
<1> DEFINE D == DOMAIN was.statuses \cup new
<1>3. /\ specs' = was.specs \cup new /\ specs' \in SUBSET Ids /\ D \in SUBSET Ids
      /\ statuses' \in [D -> Statuses]
      /\ \A id \in DOMAIN was.statuses : id \notin new => statuses'[id] = was.statuses[id]
      /\ \A id \in new : /\ statuses'[id].state \in {"enabled", "installed"}
                         /\ statuses'[id].enabled <=> statuses'[id].state = "enabled"
  <2>1. /\ specs' = was.specs \cup new
        /\ statuses' = [id \in D |-> IF id \notin new THEN was.statuses[id]
                                    ELSE statusOf(IF id \in OnInFile THEN "enabled" ELSE "installed", id \in OnInFile)]
    BY <1>1 DEF syncFromAdapterRegistry
  <2>2. new \in SUBSET Ids /\ D \in SUBSET Ids
    BY <1>2 DEF Ids
  <2>3. \A id \in DOMAIN was.statuses : id \notin new => statuses'[id] = was.statuses[id]
    BY <2>1
  <2>4. ASSUME NEW id \in new
        PROVE  /\ statuses'[id].state \in {"enabled", "installed"} /\ statuses'[id] \in Statuses
               /\ statuses'[id].enabled <=> statuses'[id].state = "enabled"
    <3>1. statuses'[id] = statusOf(IF id \in OnInFile THEN "enabled" ELSE "installed", id \in OnInFile)
      BY <2>1, <2>4
    <3>2. \/ statuses'[id] = statusOf("enabled", TRUE)
          \/ statuses'[id] = statusOf("installed", FALSE)
      <4>1. CASE id \in OnInFile
        <5>1. (id \in OnInFile) = TRUE
          BY <4>1
        <5> QED
          BY <3>1, <5>1, Zenon
      <4>2. CASE id \notin OnInFile
        <5>1. (id \in OnInFile) = FALSE
          BY <4>2
        <5> QED
          BY <3>1, <5>1, Zenon
      <4> QED
        BY <4>1, <4>2
    <3>3. /\ statusOf("enabled", TRUE) \in Statuses /\ statusOf("installed", FALSE) \in Statuses
          /\ statusOf("enabled", TRUE).state = "enabled" /\ statusOf("enabled", TRUE).enabled = TRUE
          /\ statusOf("installed", FALSE).state = "installed" /\ statusOf("installed", FALSE).enabled = FALSE
      BY DEF statusOf, Statuses, States
    <3> HIDE DEF new
    <3>4. CASE statuses'[id] = statusOf("enabled", TRUE)
      BY <3>3, <3>4
    <3>5. CASE statuses'[id] = statusOf("installed", FALSE)
      BY <3>3, <3>5
    <3> QED
      BY <3>2, <3>4, <3>5
  <2>5. \A id \in D : statuses'[id] \in Statuses
    BY <2>3, <2>4, <1>2
  <2> HIDE DEF new
  <2> QED
    BY <2>1, <2>2, <2>3, <2>4, <2>5, <1>2
<1>4. /\ file' \in SourceFiles /\ file'.specs = specs' /\ file'.statuses = statuses' /\ DOMAIN statuses' = D
      /\ known' = D
  BY <1>3, AfterFile
<1>5. \A x \in new : x \notin was.specs /\ DependsOn[x] = {}
  BY BuiltinAssumption
<1> HIDE DEF new
<1>6. Settled(file', overtaken', misfiled')
  <2>1. specs' \subseteq D \cup misfiled' /\ D \ specs' \subseteq overtaken' \cup misfiled'
    BY <1>0, <1>1, <1>2, <1>3 DEF Settled
  <2>2. \A x \in D \ specs' : statuses'[x].enabled => x \in misfiled'
    BY <1>0, <1>1, <1>3 DEF Settled
  <2>3. ASSUME NEW x \in specs' \cap D, statuses'[x].enabled PROVE DependsOn[x] \subseteq specs' \cup misfiled'
    <3>1. CASE x \in new
      BY <3>1, <1>5
    <3>2. CASE x \notin new
      BY <2>3, <3>2, <1>0, <1>1, <1>3 DEF Settled
    <3> QED
      BY <3>1, <3>2
  <2>4. ASSUME NEW x \in D \ overtaken'
        PROVE  IF statuses'[x].state = "running" THEN statuses'[x].enabled
               ELSE statuses'[x].enabled <=> statuses'[x].state \in {"enabled", "error"}
    <3>1. CASE x \in new
      BY <3>1, <1>3
    <3>2. CASE x \notin new
      BY <2>4, <3>2, <1>0, <1>1, <1>2, <1>3 DEF Settled
    <3> QED
      BY <3>1, <3>2
  <2> QED
    BY <1>4, <2>1, <2>2, <2>3, <2>4 DEF Settled
<1>7. Settled(savedState', overtaken', misfiled')
  BY <1>0, <1>1, <1>2 DEF Settled
<1>8. SourceTypes'
  <2>1. Idle \in Requests /\ Idle.pc = "idle"
    BY NothingFiled DEF Requests, RequestPcs, Idle
  <2> QED
    BY <1>0, <1>1, <1>2, <1>4, <2>1 DEF SourceTypes
<1>9. RunsInv'
  <2>1. ASSUME NEW x \in known' \ overtaken' PROVE statuses'[x].state # "running"
    BY <1>1, <1>2, <1>3, <1>4
  <2>2. \A r \in Runners : runner'[r].pc = "idle"
    BY <1>1 DEF Idle
  <2> QED
    BY <2>1, <2>2 DEF RunsInv, savers
<1>10. SwitchInv' /\ FileNamesSources'
  BY <1>1, <1>3 DEF SwitchInv, FileNamesSources, new
<1> QED
  BY <1>6, <1>7, <1>8, <1>9, <1>10 DEF SourcesInv

LEMMA SourcesStep == SourcesInv /\ [SourcesNext]_srcVars => SourcesInv'
<1> SUFFICES ASSUME SourcesInv, [SourcesNext]_srcVars PROVE SourcesInv'
  OBVIOUS
<1>1. ASSUME NEW id \in Sources, DeploySource(id) \/ EnableSource(id) \/ DisableSource(id) \/ UpdateSource(id) \/ ConfigureSource(id)
      PROVE  SourcesInv'
  BY <1>1, DeployStep, EnableStep, DisableStep, UpdateStep, ConfigureStep
<1>2. ASSUME NEW id \in Sources, NEW force \in BOOLEAN, UninstallSource(id, force) PROVE SourcesInv'
  BY <1>2, UninstallStep
<1>3. ASSUME NEW id \in Sources, NEW r \in Runners, RunSourceNow(r, id) PROVE SourcesInv'
  BY <1>3, RunStep
<1>4. ASSUME NEW r \in Runners, RunAdapters(r) \/ RunEnds(r) \/ RunReadsSpecs(r) \/ RunMarshals(r) \/ RunSaves(r)
      PROVE  SourcesInv'
  BY <1>4, AdaptersStep, EndsStep, ReadsStep, MarshalsStep, SavesStep
<1>5. ASSUME NEW was \in {file, savedState} \cup {f \in {NoSources} : savers # {}}, RestartSources(was) PROVE SourcesInv'
  BY <1>5, RestartStep
<1>6. CASE UNCHANGED srcVars
  <2>1. file' = file /\ known' = known /\ savers' = savers
    BY <1>6 DEF srcVars, file, known, savers
  <2> QED
    BY <1>6, <2>1 DEF srcVars, histories, SourcesInv, SourceTypes, RunsInv, Owed, SwitchInv, FileNamesSources
<1>7. CASE Reload
  BY <1>7, ReloadStep
<1> QED
  BY <1>1, <1>2, <1>3, <1>4, <1>5, <1>6, <1>7 DEF SourcesNext

\* SourcesSettled: every source has a status that agrees with its flag and its request, what an
\* enabled source depends on stays deployed, switches follow, and the file names the sources, but
\* for what a run took from an operation or a failed or torn save left (RunSourceNow and saveState
\* against every operation, reload and restart).
THEOREM SourcesSettle == SourcesSpec => []SourcesSettled
<1>1. SourcesSpec => []SourcesInv
  BY SourcesInitGood, SourcesStep, PTL DEF SourcesSpec
<1> QED
  BY <1>1, InvSettles, PTL

-----------------------------------------------------------------------------
(* The assessments.  A finding takes its check from a rule of its tool, so  *)
(* the check it fails is not run by the host itself.                        *)

SomeRule(tool) == \E k \in DOMAIN delegationRules(tool) : TRUE

LEMMA FirstOfThree ==
    ASSUME NEW S \in SUBSET {1, 2, 3}, S # {}
    PROVE  (CHOOSE k \in S : \A l \in S : k <= l) \in S
<1>1. \E k \in S : \A l \in S : k <= l
  <2>1. CASE 1 \in S
    BY <2>1
  <2>2. CASE 1 \notin S /\ 2 \in S
    BY <2>2
  <2>3. CASE 1 \notin S /\ 2 \notin S
    <3>1. S = {3}
      BY <2>3
    <3> QED
      BY <3>1
  <2> QED
    BY <2>1, <2>2, <2>3
<1> QED
  BY <1>1

\* The last rule of a tool asks for nothing.
LEMMA RulesOfTool ==
    ASSUME NEW tool
    PROVE  /\ DOMAIN delegationRules(tool) \in SUBSET {1, 2, 3}
           /\ DOMAIN delegationRules(tool) # {} => \E k \in DOMAIN delegationRules(tool) : delegationRules(tool)[k].needs = {}
           /\ ruledBy(tool) = {delegationRules(tool)[k].check : k \in DOMAIN delegationRules(tool)}
<1>1. ruledBy(tool) = {delegationRules(tool)[k].check : k \in DOMAIN delegationRules(tool)}
  BY DEF ruledBy, Range
<1>2. CASE delegationRules(tool) = <<>>
  BY <1>1, <1>2
<1>3. CASE tool = "trivy"
  BY <1>1, <1>3 DEF delegationRules, Rule
<1>4. CASE tool = "nuclei"
  BY <1>1, <1>4 DEF delegationRules, Rule
<1>5. CASE tool = "lynis"
  BY <1>1, <1>5 DEF delegationRules, Rule
<1>6. CASE tool = "openscap"
  BY <1>1, <1>6 DEF delegationRules, Rule
<1>7. CASE tool = "wazuh_agent"
  BY <1>1, <1>7 DEF delegationRules, Rule
<1>8. CASE tool = "suricata"
  BY <1>1, <1>8 DEF delegationRules, Rule
<1>9. CASE tool = "falco"
  BY <1>1, <1>9 DEF delegationRules, Rule
<1>10. CASE tool = "clamav"
  BY <1>1, <1>10 DEF delegationRules, Rule
<1>11. CASE tool = "osv_scanner"
  BY <1>1, <1>11 DEF delegationRules, Rule
<1>12. CASE tool = "aide"
  BY <1>1, <1>12 DEF delegationRules, Rule
<1>13. CASE tool = "nikto"
  BY <1>1, <1>13 DEF delegationRules, Rule
<1>14. CASE tool = "ansible"
  BY <1>1, <1>14 DEF delegationRules, Rule
<1>15. CASE tool = "netbox"
  BY <1>1, <1>15 DEF delegationRules, Rule
<1>16. CASE tool = "snipe_it"
  BY <1>1, <1>16 DEF delegationRules, Rule
<1>17. CASE tool = "freeipa"
  BY <1>1, <1>17 DEF delegationRules, Rule
<1>18. CASE tool = "keycloak"
  BY <1>1, <1>18 DEF delegationRules, Rule
<1>19. CASE tool = "wazuh_siem"
  BY <1>1, <1>19 DEF delegationRules, Rule
<1>20. CASE tool = "rundeck"
  BY <1>1, <1>20 DEF delegationRules, Rule
<1>21. CASE tool = "jira"
  BY <1>1, <1>21 DEF delegationRules, Rule
<1>22. CASE tool = "terraform"
  BY <1>1, <1>22 DEF delegationRules, Rule
<1>23. CASE tool = "opentofu"
  BY <1>1, <1>23 DEF delegationRules, Rule
<1> QED
  BY <1>2, <1>3, <1>4, <1>5, <1>6, <1>7, <1>8, <1>9, <1>10, <1>11, <1>12, <1>13, <1>14, <1>15, <1>16, <1>17, <1>18, <1>19, <1>20, <1>21, <1>22, <1>23 DEF delegationRules

NoCheck(f) == "check" \in DOMAIN f /\ f.check = ""

LEMMA FindingNoCheck ==
    ASSUME NEW a, NEW b, NEW c, NEW d, NEW e
    PROVE  NoCheck(F(a, b, c, d, e))
BY DEF NoCheck, F

LEMMA StatusNoCheck ==
    ASSUME NEW b, NEW c, NEW d, NEW e, NEW f \in Status(b, c, d, e)
    PROVE  NoCheck(f)
BY FindingNoCheck DEF Status

LEMMA EditedNoCheck ==
    ASSUME NEW f, NoCheck(f), NEW v
    PROVE  NoCheck([f EXCEPT !.sev = v]) /\ NoCheck([f EXCEPT !.titled = v])
BY DEF NoCheck

LEMMA MappedNoCheck ==
    ASSUME NEW f, NoCheck(f), NEW s
    PROVE  NoCheck(trivyMap(f, s)) /\ NoCheck(lynisMap(f))
BY DEF NoCheck, trivyMap, lynisMap

\* Only Trivy and the scripts name a check themselves.
LEMMA ParsedCheck ==
    ASSUME NEW tool, NEW d, NEW f \in Parse(tool, d), delegationRules(tool) # <<>>
    PROVE  NoCheck(f) \/ (tool = "trivy" /\ "check" \in DOMAIN f /\ f.check = "OT-099-T")
<1>1. ASSUME tool = "trivy" PROVE NoCheck(f) \/ ("check" \in DOMAIN f /\ f.check = "OT-099-T")
  <2>1. f \in trivy(d)
    BY <1>1 DEF Parse
  <2> QED
    BY <2>1, FindingNoCheck, StatusNoCheck, MappedNoCheck DEF trivy, trivyVuln, F
<1>2. ASSUME tool = "nuclei" PROVE NoCheck(f)
  <2>1. f \in nuclei(d)
    BY <1>2 DEF Parse
  <2> QED
    BY <2>1, FindingNoCheck, StatusNoCheck DEF nuclei
<1>3. ASSUME tool = "lynis" PROVE NoCheck(f)
  <2>1. f \in lynis(d)
    BY <1>3 DEF Parse
  <2> QED
    BY <2>1, FindingNoCheck, StatusNoCheck, MappedNoCheck DEF lynis
<1>4. ASSUME tool = "openscap" PROVE NoCheck(f)
  <2>1. f \in openscap(d)
    BY <1>4 DEF Parse
  <2> QED
    BY <2>1, FindingNoCheck, StatusNoCheck DEF openscap
<1>5. ASSUME tool = "wazuh_agent" PROVE NoCheck(f)
  <2>1. f \in wazuh_agent(d)
    BY <1>5 DEF Parse
  <2> QED
    BY <2>1, FindingNoCheck, StatusNoCheck DEF wazuh_agent
<1>6. ASSUME tool = "suricata" PROVE NoCheck(f)
  <2>1. f \in suricata(d)
    BY <1>6 DEF Parse
  <2> QED
    BY <2>1, FindingNoCheck, StatusNoCheck DEF suricata
<1>7. ASSUME tool = "falco" PROVE NoCheck(f)
  <2>1. f \in falco(d)
    BY <1>7 DEF Parse
  <2> QED
    BY <2>1, FindingNoCheck, StatusNoCheck DEF falco
<1>8. ASSUME tool = "clamav" PROVE NoCheck(f)
  <2>1. f \in clamav(d)
    BY <1>8 DEF Parse
  <2>2. \/ f \in Status("alert", "none", installed(d, "ClamAV"), "RS")
        \/ f = F({}, "alert", "critical", FALSE, "RS") \/ f = F({}, "alert", "medium", FALSE, "RS")
    BY <2>1 DEF clamav
  <2> QED
    BY <2>2, FindingNoCheck, StatusNoCheck
<1>9. ASSUME tool = "osv_scanner" PROVE NoCheck(f)
  <2>1. f \in osv_scanner(d)
    BY <1>9 DEF Parse
  <2> QED
    BY <2>1, FindingNoCheck, StatusNoCheck, EditedNoCheck DEF osv_scanner
<1>10. ASSUME tool = "aide" PROVE NoCheck(f)
  <2>1. f \in aide(d)
    BY <1>10 DEF Parse
  <2> QED
    BY <2>1, FindingNoCheck, StatusNoCheck DEF aide
<1>11. ASSUME tool = "nikto" PROVE NoCheck(f)
  <2>1. f \in nikto(d)
    BY <1>11 DEF Parse
  <2> QED
    BY <2>1, FindingNoCheck, StatusNoCheck DEF nikto
<1>12. ASSUME tool = "ansible" PROVE NoCheck(f)
  <2>1. f \in ansible(d)
    BY <1>12 DEF Parse
  <2> QED
    BY <2>1, FindingNoCheck, StatusNoCheck DEF ansible
<1>13. ASSUME tool = "netbox" PROVE NoCheck(f)
  <2>1. f \in netbox(d)
    BY <1>13 DEF Parse
  <2> QED
    BY <2>1, FindingNoCheck, StatusNoCheck DEF netbox
<1>14. ASSUME tool = "snipe_it" PROVE NoCheck(f)
  <2>1. f \in snipe_it(d)
    BY <1>14 DEF Parse
  <2>2. \/ f \in Status("asset", "medium", FALSE, "BC")
        \/ \E sev \in {"info", "low", "critical", "medium"}, passed \in BOOLEAN : f = F({}, "asset", sev, passed, "BC")
    BY <2>1 DEF snipe_it
  <2> QED
    BY <2>2, FindingNoCheck, StatusNoCheck
<1>15. ASSUME tool = "freeipa" PROVE NoCheck(f)
  <2>1. f \in freeipa(d)
    BY <1>15 DEF Parse
  <2>2. \/ f \in Status("identity", "medium", FALSE, "OT") \/ f \in Status("identity", "info", TRUE, "OT")
        \/ f = F({"disabled"}, "identity", "medium", FALSE, "OT")
    BY <2>1 DEF freeipa
  <2> QED
    BY <2>2, FindingNoCheck, StatusNoCheck
<1>16. ASSUME tool = "keycloak" PROVE NoCheck(f)
  <2>1. f \in keycloak(d)
    BY <1>16 DEF Parse
  <2>2. \/ f \in Status("identity", "none", FALSE, "") \/ f \in Status("identity", "none", TRUE, "OT")
        \/ \E i \in d.items : f = F({}, "identity", "none", i = "enabled", "")
    BY <2>1 DEF keycloak
  <2>3. ASSUME NEW i \in d.items, f = F({}, "identity", "none", i = "enabled", "") PROVE NoCheck(f)
    BY <2>3 DEF NoCheck, F
  <2> QED
    BY <2>2, <2>3, StatusNoCheck
<1>17. ASSUME tool = "wazuh_siem" PROVE NoCheck(f)
  <2>1. f \in wazuh_siem(d)
    BY <1>17 DEF Parse
  <2> QED
    BY <2>1, FindingNoCheck, StatusNoCheck DEF wazuh_siem
<1>18. ASSUME tool = "rundeck" PROVE NoCheck(f)
  <2>1. f \in rundeck(d)
    BY <1>18 DEF Parse
  <2> QED
    BY <2>1, FindingNoCheck, StatusNoCheck DEF rundeck
<1>19. ASSUME tool = "jira" PROVE NoCheck(f)
  <2>1. f \in jira(d)
    BY <1>19 DEF Parse
  <2> QED
    BY <2>1, FindingNoCheck, StatusNoCheck DEF jira
<1>20. ASSUME tool = "terraform" PROVE NoCheck(f)
  <2>1. f \in terraform(d)
    BY <1>20 DEF Parse
  <2> QED
    BY <2>1, FindingNoCheck, StatusNoCheck DEF terraform
<1>21. ASSUME tool = "opentofu" PROVE NoCheck(f)
  <2>1. f \in opentofu(d)
    BY <1>21 DEF Parse
  <2> QED
    BY <2>1, FindingNoCheck, StatusNoCheck DEF opentofu, terraform
<1> QED
  BY <1>1, <1>2, <1>3, <1>4, <1>5, <1>6, <1>7, <1>8, <1>9, <1>10, <1>11, <1>12, <1>13, <1>14, <1>15, <1>16, <1>17, <1>18, <1>19, <1>20, <1>21 DEF delegationRules

\* What a tool with rules finds is about a check one of them names, Trivy's misconfigurations aside.
LEMMA FoundCheck ==
    ASSUME NEW tool, NEW d, NEW g \in ExecuteAdapter(tool, d), ruledBy(tool) # {}
    PROVE  g.check \in ruledBy(tool) \/ (tool = "trivy" /\ g.check = "OT-099-T")
<1>1. PICK f \in Parse(tool, d) : g = ApplyDelegation(f, tool)
  BY DEF ExecuteAdapter, DefaultValidate
<1> DEFINE rules == delegationRules(tool)
           fit == {k \in DOMAIN rules : matchCriteria(f, rules[k])}
           best == CHOOSE k \in fit : \A l \in fit : k <= l
<1>2. DOMAIN rules \in SUBSET {1, 2, 3} /\ DOMAIN rules # {} /\ ruledBy(tool) = {rules[k].check : k \in DOMAIN rules}
  BY RulesOfTool
<1>3. rules # <<>>
  BY <1>2
<1>4. fit # {}
  <2>1. PICK k \in DOMAIN rules : rules[k].needs = {}
    BY <1>2, RulesOfTool
  <2>2. matchCriteria(f, rules[k])
    BY <2>1 DEF matchCriteria
  <2> QED
    BY <2>2
<1>5. best \in DOMAIN rules
  <2>1. fit \in SUBSET {1, 2, 3}
    BY <1>2
  <2> HIDE DEF fit
  <2>2. best \in fit
    BY <1>4, <2>1, FirstOfThree
  <2> QED
    BY <2>2 DEF fit
<1>6. NoCheck(f) \/ (tool = "trivy" /\ "check" \in DOMAIN f /\ f.check = "OT-099-T")
  BY <1>3, ParsedCheck
<1>7. g = [f EXCEPT !.check = OneOf(f.check = "", rules[best].check, f.check),
                    !.domain = OneOf(f.domain = "", rules[best].domain, f.domain)]
  BY <1>1, <1>4 DEF ApplyDelegation
<1> HIDE DEF best, rules
<1>8. g.check = OneOf(f.check = "", rules[best].check, f.check)
  BY <1>6, <1>7 DEF NoCheck
<1> QED
  BY <1>2, <1>5, <1>6, <1>8 DEF NoCheck, OneOf

LEMMA TrivyRules ==
    Cardinality(ruledBy("trivy")) > 1
<1>1. ruledBy("trivy") = {delegationRules("trivy")[k].check : k \in DOMAIN delegationRules("trivy")}
  BY RulesOfTool
<1>2. ruledBy("trivy") = {"KS-001", "AS-005"}
  BY <1>1 DEF delegationRules, Rule
<1>3. IsFiniteSet({"KS-001"}) /\ Cardinality({"KS-001"}) = 1
  BY FS_Singleton
<1>4. Cardinality({"KS-001"} \cup {"AS-005"}) = 2
  BY <1>3, FS_AddElement
<1>5. {"KS-001"} \cup {"AS-005"} = {"KS-001", "AS-005"}
  OBVIOUS
<1> QED
  BY <1>2, <1>4, <1>5

\* The results there can be: a tool's, of a tool that failed, of a check, an agent's.
ToolResults ==
    UNION {{toolResult(f, t) : f \in UNION {ExecuteAdapter(t, d) : d \in ToolAnswers[t]}} : t \in DOMAIN ToolAnswers}
MissingResults == {Result("ADAPTER", "AS", FALSE, -5, t, 0) : t \in DOMAIN ToolAnswers}
CheckResults == {Result(c, LocalChecks[c], b, n, "builtin", 0) : c \in DOMAIN LocalChecks, b \in BOOLEAN, n \in {0, -10}}
AgentResults == UNION {Range(report) : report \in AgentReports}
AnyResult == ToolResults \cup MissingResults \cup CheckResults \cup AgentResults

Active(said) == (DOMAIN LocalChecks \ buildDelegatedSet(said)) \ Dormant

\* r is s, followed by all of N and nothing else.
Grown(s, r, N) ==
    /\ DOMAIN s \subseteq DOMAIN r /\ DOMAIN r \subseteq Nat
    /\ \A k \in DOMAIN s : r[k] = s[k]
    /\ \A l \in DOMAIN r \ DOMAIN s : r[l] \in N /\ \A k \in DOMAIN s : k < l
    /\ \A x \in N : \E l \in DOMAIN r \ DOMAIN s : r[l] = x

\* An assessment under way.
InHandFields == {"pc", "mode", "report", "results", "at", "configs", "asked", "pending", "failed", "said"}
Modes(a) ==
    /\ InHandFields \subseteq DOMAIN a
    /\ a.pc \in {"tools", "checks"} /\ a.mode \in {"assess", "results"}
    /\ a.pc = "checks" => a.mode = "assess"
    /\ a.mode = "assess" => a.report = <<>>
    /\ a.results \in Seq(AnyResult) /\ (a.results = <<>> => a.report = <<>>)
\* Every tool has answered, failed, or is still to be heard.
Asked(a) ==
    /\ a.asked = DOMAIN a.said \cup a.failed \cup (IF a.pc = "tools" THEN a.pending ELSE {})
    /\ a.asked \subseteq DOMAIN ToolAnswers /\ (a.pc = "tools" => a.pending \cap DOMAIN a.said = {})
    /\ \A t \in DOMAIN a.said : \E d \in ToolAnswers[t] : a.said[t] = ExecuteAdapter(t, d)
    /\ a.mode = "assess" => \A t \in a.failed : Result("ADAPTER", "AS", FALSE, -5, t, 0) \in Range(a.results)
\* Where the results of Assess come from.
Sourced(a) ==
    \A r \in Range(a.results) :
        \/ r \in CheckResults /\ a.pc = "checks" /\ r.check \in Active(a.said)
        \/ r \in MissingResults
        \/ \E t \in DOMAIN a.said : \E f \in a.said[t] : r = toolResult(f, t)
\* Each finding is a result, and what follows it comes from another tool or is about another check.
Follows(a) ==
    \A t \in DOMAIN a.said : \A f \in a.said[t] : \E k \in DOMAIN a.results :
        /\ a.results[k] = toolResult(f, t)
        /\ \A l \in DOMAIN a.results : l > k /\ a.results[l].passed =>
              a.results[l].source \in a.asked \/ (a.pc = "checks" /\ a.results[l].check \in Active(a.said))
Running(a) ==
    a.pc = "checks" => /\ a.pending \subseteq Active(a.said)
                       /\ \A c \in Active(a.said) \ a.pending : \E r \in Range(a.results) : r.check = c
InHand(a) ==
    /\ Modes(a) /\ Asked(a) /\ Follows(a) /\ Running(a)
    /\ a.mode = "assess" => Sourced(a)

\* A result or several at the end.
LEMMA GrownByOne ==
    ASSUME NEW S, NEW s \in Seq(S), NEW x \in S
    PROVE  Grown(s, Append(s, x), {x}) /\ Append(s, x) \in Seq(S)
<1>1. /\ Append(s, x) \in Seq(S) /\ Len(s) \in Nat /\ DOMAIN s = 1..Len(s) /\ DOMAIN Append(s, x) = 1..(Len(s) + 1)
      /\ Append(s, x)[Len(s) + 1] = x /\ \A k \in DOMAIN s : Append(s, x)[k] = s[k]
  OBVIOUS
<1> DEFINE r == Append(s, x)
<1> HIDE DEF r
<1>2. /\ Len(s) \in Nat /\ DOMAIN s = 1..Len(s) /\ DOMAIN r = 1..(Len(s) + 1)
      /\ r[Len(s) + 1] = x /\ \A k \in DOMAIN s : r[k] = s[k]
  BY <1>1 DEF r
<1>3. Len(s) + 1 \in DOMAIN r \ DOMAIN s /\ DOMAIN r \ DOMAIN s = {Len(s) + 1}
  BY <1>2
<1>4. Grown(s, r, {x})
  BY <1>2, <1>3 DEF Grown
<1> QED
  BY <1>1, <1>4 DEF r

LEMMA GrownByMany ==
    ASSUME NEW S, NEW s \in Seq(S), NEW q \in Seq(S)
    PROVE  Grown(s, s \o q, Range(q)) /\ (s \o q) \in Seq(S)
<1>1. /\ (s \o q) \in Seq(S) /\ Len(s) \in Nat /\ Len(q) \in Nat /\ DOMAIN s = 1..Len(s) /\ DOMAIN q = 1..Len(q)
      /\ DOMAIN (s \o q) = 1..(Len(s) + Len(q))
  OBVIOUS
<1>2. \A k \in DOMAIN s : (s \o q)[k] = s[k]
  OBVIOUS
<1>3. \A k \in DOMAIN q : (s \o q)[Len(s) + k] = q[k]
  OBVIOUS
<1> DEFINE r == s \o q
           n == Len(s)
           m == Len(q)
<1>4. /\ n \in Nat /\ m \in Nat /\ DOMAIN s = 1..n /\ DOMAIN q = 1..m /\ DOMAIN r = 1..(n + m)
      /\ (\A k \in DOMAIN s : r[k] = s[k]) /\ (\A k \in DOMAIN q : r[n + k] = q[k])
  BY <1>1, <1>2, <1>3
<1> HIDE DEF r, n, m
<1>5. \A l \in DOMAIN r \ DOMAIN s : l - n \in DOMAIN q /\ r[l] = q[l - n] /\ \A k \in DOMAIN s : k < l
  <2> SUFFICES ASSUME NEW l \in DOMAIN r \ DOMAIN s PROVE l - n \in DOMAIN q /\ r[l] = q[l - n] /\ \A k \in DOMAIN s : k < l
    OBVIOUS
  <2>1. l \in Nat /\ l > n /\ l <= n + m
    BY <1>4
  <2>2. PICK j \in DOMAIN q : l = n + j
    <3>1. l - n \in DOMAIN q /\ l = n + (l - n)
      BY <1>4, <2>1
    <3> QED
      BY <3>1
  <2>3. r[l] = q[j] /\ l - n = j
    BY <1>4, <2>2
  <2>4. \A k \in DOMAIN s : k < l
    BY <1>4, <2>1
  <2> QED
    BY <2>2, <2>3, <2>4
<1>6. \A k \in DOMAIN q : n + k \in DOMAIN r \ DOMAIN s
  BY <1>4
<1>7. Grown(s, r, Range(q))
  BY <1>4, <1>5, <1>6 DEF Grown, Range
<1> QED
  BY <1>1, <1>7 DEF r

LEMMA GrownRange ==
    ASSUME NEW s, NEW r, NEW N, Grown(s, r, N)
    PROVE  Range(r) = Range(s) \cup N
BY DEF Grown, Range

\* What a result looks like.
LEMMA AnyResultFacts ==
    ASSUME NEW r \in AnyResult
    PROVE  /\ DOMAIN r = {"check", "domain", "passed", "delta", "source", "conf"}
           /\ r.delta \in Int /\ r.conf \in Int /\ r.conf <= 100
<1>1. CASE r \in ToolResults
  <2>1. PICK f, t : r = toolResult(f, t)
    BY <1>1 DEF ToolResults
  <2>2. severityToDelta(f) \in Int
    BY DEF severityToDelta
  <2> QED
    BY <2>1, <2>2 DEF toolResult, ToCheckResult, Result
<1>2. CASE r \in MissingResults
  BY <1>2 DEF MissingResults, Result
<1>3. CASE r \in CheckResults
  BY <1>3 DEF CheckResults, Result
<1>4. CASE r \in AgentResults
  <2>1. /\ DOMAIN r = {"check", "domain", "passed", "delta", "source", "conf"}
        /\ r.delta \in Int /\ r.conf \in 0..100
    BY <1>4, LocalAssumption DEF AgentResults
  <2>2. r.conf \in Int /\ r.conf <= 100
    BY <2>1
  <2> QED
    BY <2>1, <2>2
<1> QED
  BY <1>1, <1>2, <1>3, <1>4 DEF AnyResult

-----------------------------------------------------------------------------
(* The steps of an assessment.                                              *)

\* Results of tools that were asked, or of checks that are active, hide no finding.
LEMMA FollowsGrown ==
    ASSUME NEW a, NEW b, NEW N, Follows(a), Grown(a.results, b.results, N), b.pc = a.pc, b.asked = a.asked,
           b.pc = "checks" => b.said = a.said,
           \A r \in N : r.passed => r.source \in b.asked \/ (b.pc = "checks" /\ r.check \in Active(b.said)),
           \A t \in DOMAIN b.said : \/ t \in DOMAIN a.said /\ b.said[t] = a.said[t]
                                    \/ \A f \in b.said[t] : toolResult(f, t) \in N
    PROVE  Follows(b)
<1> DEFINE Fine(l) == b.results[l].passed =>
                          b.results[l].source \in b.asked \/ (b.pc = "checks" /\ b.results[l].check \in Active(b.said))
<1>1. \A l \in DOMAIN b.results \ DOMAIN a.results : Fine(l) /\ \A k \in DOMAIN a.results : k < l
  BY DEF Grown
<1>2. SUFFICES ASSUME NEW t \in DOMAIN b.said, NEW f \in b.said[t]
      PROVE  \E k \in DOMAIN b.results : b.results[k] = toolResult(f, t) /\ \A l \in DOMAIN b.results : l > k => Fine(l)
  BY DEF Follows
<1>3. CASE t \in DOMAIN a.said /\ b.said[t] = a.said[t]
  <2>1. PICK k \in DOMAIN a.results : /\ a.results[k] = toolResult(f, t)
                                      /\ \A l \in DOMAIN a.results : l > k /\ a.results[l].passed =>
                                            a.results[l].source \in a.asked \/ (a.pc = "checks" /\ a.results[l].check \in Active(a.said))
    BY <1>3 DEF Follows
  <2>2. k \in DOMAIN b.results /\ b.results[k] = toolResult(f, t)
    BY <2>1 DEF Grown
  <2>3. \A l \in DOMAIN a.results : l > k => Fine(l)
    BY <2>1 DEF Grown
  <2> QED
    BY <1>1, <2>2, <2>3
<1>4. CASE toolResult(f, t) \in N
  <2>1. PICK k \in DOMAIN b.results \ DOMAIN a.results : b.results[k] = toolResult(f, t)
    BY <1>4 DEF Grown
  <2>2. \A l \in DOMAIN b.results : l > k => l \notin DOMAIN a.results
    <3>1. DOMAIN b.results \subseteq Nat /\ DOMAIN a.results \subseteq DOMAIN b.results
      BY DEF Grown
    <3> QED
      BY <1>1, <3>1
  <2> QED
    BY <1>1, <2>1, <2>2
<1> QED
  BY <1>3, <1>4

LEMMA StartGood ==
    ASSUME NEW mode \in {"assess", "results"}, NEW report, mode = "assess" => report = <<>>,
           report = <<>> \/ report \in AgentReports
    PROVE  InHand(Starting(mode, report))
<1> DEFINE a == Starting(mode, report)
<1>1. /\ a.pc = "tools" /\ a.mode = mode /\ a.report = report /\ a.results = report /\ a.failed = {} /\ a.said = <<>>
      /\ a.asked = runAdapterPipeline(localConfig) /\ a.pending = runAdapterPipeline(localConfig)
      /\ DOMAIN a = InHandFields
  BY DEF Starting, InHandFields
<1> HIDE DEF a
<1>2. report \in Seq(AnyResult)
  <2>1. CASE report = <<>>
    BY <2>1
  <2>2. CASE report \in AgentReports
    <3>1. report \in Seq(Range(report)) /\ Range(report) \subseteq AnyResult
      BY <2>2, LocalAssumption DEF AnyResult, AgentResults
    <3> QED
      BY <3>1
  <2> QED
    BY <2>1, <2>2
<1>3. DOMAIN a.said = {}
  BY <1>1
<1>4. runAdapterPipeline(localConfig) \subseteq DOMAIN ToolAnswers
  BY DEF runAdapterPipeline
<1>5. Modes(a)
  BY <1>1, <1>2 DEF Modes
<1>6. Asked(a)
  BY <1>1, <1>3, <1>4 DEF Asked
<1>7. Follows(a) /\ Running(a)
  BY <1>1, <1>3 DEF Follows, Running
<1>8. a.mode = "assess" => Sourced(a)
  BY <1>1 DEF Sourced, Range
<1> QED
  BY <1>5, <1>6, <1>7, <1>8 DEF InHand, a

LEMMA ConfigsAside ==
    ASSUME NEW a, InHand(a), NEW v
    PROVE  InHand([a EXCEPT !.configs = v])
<1> DEFINE b == [a EXCEPT !.configs = v]
<1>1. InHandFields \subseteq DOMAIN a
  BY DEF InHand, Modes
<1>2. /\ DOMAIN b = DOMAIN a
      /\ b.pc = a.pc /\ b.mode = a.mode /\ b.report = a.report /\ b.results = a.results /\ b.failed = a.failed /\ b.said = a.said
      /\ b.asked = a.asked /\ b.pending = a.pending
  BY <1>1 DEF InHandFields
<1> HIDE DEF b
<1>3. Modes(b)
  BY <1>2 DEF InHand, Modes
<1>4. Asked(b)
  BY <1>2 DEF InHand, Asked
<1>5. Follows(b)
  BY <1>2 DEF InHand, Follows
<1>6. Running(b)
  BY <1>2 DEF InHand, Running
<1>7. b.mode = "assess" => Sourced(b)
  BY <1>2 DEF InHand, Sourced
<1>8. InHand(b)
  BY <1>3, <1>4, <1>5, <1>6, <1>7 DEF InHand
<1> QED
  BY <1>8 DEF b

LEMMA FailsGood ==
    ASSUME NEW a, InHand(a), a.pc = "tools", NEW t \in a.pending
    PROVE  InHand([a EXCEPT !.pending = @ \ {t}, !.failed = @ \cup {t},
                  !.results = IF a.mode = "assess" THEN Append(@, Result("ADAPTER", "AS", FALSE, -5, t, 0)) ELSE @])
<1> DEFINE x == Result("ADAPTER", "AS", FALSE, -5, t, 0)
           b == [a EXCEPT !.pending = @ \ {t}, !.failed = @ \cup {t},
                  !.results = IF a.mode = "assess" THEN Append(@, x) ELSE @]
<1>1. InHandFields \subseteq DOMAIN a /\ t \in DOMAIN ToolAnswers /\ t \in a.asked
  BY DEF InHand, Modes, Asked
<1>2. /\ DOMAIN b = DOMAIN a
      /\ b.pc = a.pc /\ b.mode = a.mode /\ b.report = a.report /\ b.said = a.said /\ b.asked = a.asked
      /\ b.failed = a.failed \cup {t} /\ b.pending = a.pending \ {t}
      /\ b.results = IF a.mode = "assess" THEN Append(a.results, x) ELSE a.results
  BY <1>1 DEF InHandFields
<1>3. x \in MissingResults /\ x \in AnyResult /\ ~x.passed
  BY <1>1 DEF MissingResults, AnyResult, Result
<1>4. a.results \in Seq(AnyResult)
  BY DEF InHand, Modes
<1> HIDE DEF b
<1> HIDE DEF x
<1>5. ASSUME a.mode = "results" PROVE InHand(b)
  BY <1>2, <1>5 DEF InHand, Modes, Asked, Follows, Running
<1>6. ASSUME a.mode = "assess" PROVE InHand(b)
  <2>0. b.results = Append(a.results, x)
    BY <1>2, <1>6
  <2>1. Grown(a.results, b.results, {x}) /\ b.results \in Seq(AnyResult)
    BY <1>3, <1>4, <2>0, GrownByOne
  <2>2. Range(b.results) = Range(a.results) \cup {x}
    BY <2>1, GrownRange
  <2>3. Follows(b)
    <3> DEFINE N == {x}
    <3>1. \A r \in N : r.passed => r.source \in b.asked \/ (b.pc = "checks" /\ r.check \in Active(b.said))
      BY <1>3
    <3>2. Follows(a) /\ b.pc = a.pc /\ b.asked = a.asked /\ b.said = a.said /\ Grown(a.results, b.results, N)
      BY <1>2, <2>1 DEF InHand
    <3> HIDE DEF N
    <3> QED
      BY <3>1, <3>2, FollowsGrown
  <2>4. Modes(b)
    BY <1>2, <1>6, <2>1 DEF InHand, Modes
  <2>5. Asked(b)
    BY <1>1, <1>2, <2>2 DEF InHand, Asked, x
  <2>6. Sourced(b)
    BY <1>2, <1>3, <1>6, <2>2 DEF InHand, Sourced
  <2>7. Running(b)
    BY <1>2 DEF Running
  <2> QED
    BY <2>3, <2>4, <2>5, <2>6, <2>7 DEF InHand
<1> QED
  BY <1>5, <1>6 DEF InHand, Modes, b, x

LEMMA OrderedResults ==
    ASSUME NEW t \in DOMAIN ToolAnswers, NEW d \in ToolAnswers[t], NEW order \in inSomeOrder(ExecuteAdapter(t, d))
    PROVE  /\ [k \in DOMAIN order |-> toolResult(order[k], t)] \in Seq(ToolResults)
           /\ Range([k \in DOMAIN order |-> toolResult(order[k], t)]) = {toolResult(f, t) : f \in ExecuteAdapter(t, d)}
<1> DEFINE found == ExecuteAdapter(t, d)
           q == [k \in DOMAIN order |-> toolResult(order[k], t)]
           n == Cardinality(found)
<1>1. n \in Nat
  BY LocalAssumption, FS_CardinalityType
<1> HIDE DEF n
<1>2. order \in [1..n -> found] /\ Range(order) = found
  BY DEF inSomeOrder, n
<1>3. \A f \in found : toolResult(f, t) \in ToolResults
  BY DEF ToolResults
<1> HIDE DEF found
<1>4. q \in [1..n -> ToolResults]
  BY <1>2, <1>3
<1>5. q \in Seq(ToolResults)
  BY <1>1, <1>4
<1>6. Range(q) = {toolResult(f, t) : f \in found}
  BY <1>2 DEF Range
<1> QED
  BY <1>5, <1>6 DEF found

LEMMA AnswersGood ==
    ASSUME NEW a, InHand(a), a.pc = "tools", NEW t \in a.pending, NEW d \in ToolAnswers[t],
           NEW order \in inSomeOrder(ExecuteAdapter(t, d))
    PROVE  InHand([a EXCEPT !.pending = @ \ {t}, !.said = told(@, t, ExecuteAdapter(t, d)),
                  !.results = @ \o [k \in DOMAIN order |-> toolResult(order[k], t)]])
<1> DEFINE found == ExecuteAdapter(t, d)
           q == [k \in DOMAIN order |-> toolResult(order[k], t)]
           N == {toolResult(f, t) : f \in found}
           b == [a EXCEPT !.pending = @ \ {t}, !.said = told(@, t, found), !.results = @ \o q]
<1>1. InHandFields \subseteq DOMAIN a /\ t \in DOMAIN ToolAnswers /\ t \in a.asked
  BY DEF InHand, Modes, Asked
<1>2. /\ DOMAIN b = DOMAIN a
      /\ b.pc = a.pc /\ b.mode = a.mode /\ b.report = a.report /\ b.asked = a.asked /\ b.failed = a.failed
      /\ b.said = told(a.said, t, found) /\ b.pending = a.pending \ {t} /\ b.results = a.results \o q
  BY <1>1 DEF InHandFields
<1>3. q \in Seq(ToolResults) /\ Range(q) = N
  BY <1>1, OrderedResults
<1>4. a.results \in Seq(AnyResult)
  BY DEF InHand, Modes
<1>5. q \in Seq(AnyResult)
  BY <1>3 DEF AnyResult
<1>6. /\ DOMAIN b.said = DOMAIN a.said \cup {t} /\ b.said[t] = found
      /\ \A u \in DOMAIN a.said \ {t} : b.said[u] = a.said[u]
  BY <1>2 DEF told
<1>7. \A f \in b.said[t] : toolResult(f, t) \in N
  BY <1>6
<1>8. \A r \in N : r.source = t
  BY DEF toolResult, Result
<1>9. \A r \in N : \E f \in b.said[t] : r = toolResult(f, t)
  BY <1>6
<1> HIDE DEF b, q, N
<1>10. Grown(a.results, b.results, N) /\ b.results \in Seq(AnyResult)
  BY <1>2, <1>3, <1>4, <1>5, GrownByMany
<1>11. Range(b.results) = Range(a.results) \cup N
  BY <1>10, GrownRange
<1>12. Modes(b)
  <2>1. b.results = <<>> => a.results = <<>>
    BY <1>4, <1>10 DEF Grown
  <2> QED
    BY <1>2, <1>10, <2>1 DEF InHand, Modes
<1>13. Asked(b)
  <2>1. b.asked = DOMAIN b.said \cup b.failed \cup b.pending /\ b.pending \cap DOMAIN b.said = {}
    BY <1>1, <1>2, <1>6 DEF InHand, Asked
  <2>2. \A u \in DOMAIN b.said : \E e \in ToolAnswers[u] : b.said[u] = ExecuteAdapter(u, e)
    BY <1>6 DEF InHand, Asked
  <2> QED
    BY <1>2, <1>11, <2>1, <2>2 DEF InHand, Asked
<1>14. Follows(b)
  <2>1. \A r \in N : r.passed => r.source \in b.asked \/ (b.pc = "checks" /\ r.check \in Active(b.said))
    BY <1>1, <1>2, <1>8
  <2>2. Follows(a) /\ b.pc = a.pc /\ b.asked = a.asked /\ b.pc # "checks"
    BY <1>2 DEF InHand
  <2>3. \A u \in DOMAIN b.said : \/ u \in DOMAIN a.said /\ b.said[u] = a.said[u]
                                 \/ \A f \in b.said[u] : toolResult(f, u) \in N
    BY <1>6, <1>7
  <2> QED
    BY <1>10, <2>1, <2>2, <2>3, FollowsGrown
<1>15. b.mode = "assess" => Sourced(b)
  <2> SUFFICES ASSUME b.mode = "assess", NEW r \in Range(b.results)
               PROVE  r \in MissingResults \/ \E u \in DOMAIN b.said : \E f \in b.said[u] : r = toolResult(f, u)
    BY DEF Sourced
  <2>1. CASE r \in N
    BY <1>6, <1>9, <2>1
  <2>2. CASE r \in Range(a.results)
    <3>1. r \in MissingResults \/ \E u \in DOMAIN a.said : \E f \in a.said[u] : r = toolResult(f, u)
      BY <1>2, <2>2 DEF InHand, Sourced
    <3>2. t \notin DOMAIN a.said
      BY DEF InHand, Asked
    <3> QED
      BY <1>6, <3>1, <3>2
  <2> QED
    BY <1>11, <2>1, <2>2
<1>16. Running(b)
  BY <1>2 DEF Running
<1>17. InHand(b)
  BY <1>12, <1>13, <1>14, <1>15, <1>16 DEF InHand
<1> QED
  BY <1>17 DEF b, q

LEMMA ChecksBeginGood ==
    ASSUME NEW a, InHand(a), a.pc = "tools", a.pending = {}, a.mode = "assess"
    PROVE  InHand([a EXCEPT !.pc = "checks", !.pending = Active(a.said)])
<1> DEFINE b == [a EXCEPT !.pc = "checks", !.pending = Active(a.said)]
<1>1. InHandFields \subseteq DOMAIN a
  BY DEF InHand, Modes
<1>2. /\ DOMAIN b = DOMAIN a
      /\ b.pc = "checks" /\ b.mode = a.mode /\ b.report = a.report /\ b.results = a.results /\ b.failed = a.failed
      /\ b.said = a.said /\ b.asked = a.asked /\ b.pending = Active(a.said)
  BY <1>1 DEF InHandFields
<1> HIDE DEF b
<1>3. Modes(b)
  BY <1>2 DEF InHand, Modes
<1>4. Asked(b)
  BY <1>2 DEF InHand, Asked
<1>5. Follows(b)
  BY <1>2 DEF InHand, Follows
<1>6. Running(b)
  BY <1>2 DEF Running
<1>7. Sourced(b)
  BY <1>2 DEF InHand, Sourced
<1>8. InHand(b)
  BY <1>3, <1>4, <1>5, <1>6, <1>7 DEF InHand
<1> QED
  BY <1>8 DEF b

LEMMA CheckEndsGood ==
    ASSUME NEW a, InHand(a), a.pc = "checks", NEW c \in a.pending, NEW passed \in BOOLEAN, NEW n \in {0, -10}
    PROVE  InHand([a EXCEPT !.pending = @ \ {c}, !.results = Append(@, Result(c, LocalChecks[c], passed, n, "builtin", 0))])
<1> DEFINE x == Result(c, LocalChecks[c], passed, n, "builtin", 0)
           b == [a EXCEPT !.pending = @ \ {c}, !.results = Append(@, x)]
<1>1. InHandFields \subseteq DOMAIN a /\ c \in Active(a.said) /\ c \in DOMAIN LocalChecks
  BY DEF InHand, Modes, Running, Active
<1>2. /\ DOMAIN b = DOMAIN a
      /\ b.pc = a.pc /\ b.mode = a.mode /\ b.report = a.report /\ b.said = a.said /\ b.asked = a.asked
      /\ b.failed = a.failed /\ b.pending = a.pending \ {c} /\ b.results = Append(a.results, x)
  BY <1>1 DEF InHandFields
<1>3. x \in CheckResults /\ x \in AnyResult /\ x.check = c
  BY <1>1 DEF CheckResults, AnyResult, Result
<1>4. a.results \in Seq(AnyResult) /\ a.mode = "assess"
  BY DEF InHand, Modes
<1> HIDE DEF b
<1> HIDE DEF x
<1>5. Grown(a.results, b.results, {x}) /\ b.results \in Seq(AnyResult)
  BY <1>2, <1>3, <1>4, GrownByOne
<1>6. Range(b.results) = Range(a.results) \cup {x}
  BY <1>5, GrownRange
<1>7. Follows(b)
  <2> DEFINE N == {x}
  <2>1. \A r \in N : r.passed => r.source \in b.asked \/ (b.pc = "checks" /\ r.check \in Active(b.said))
    BY <1>1, <1>2, <1>3
  <2>2. Follows(a) /\ b.pc = a.pc /\ b.asked = a.asked /\ b.said = a.said /\ Grown(a.results, b.results, N)
    BY <1>2, <1>5 DEF InHand
  <2> HIDE DEF N
  <2> QED
    BY <2>1, <2>2, FollowsGrown
<1>8. Modes(b)
  BY <1>2, <1>4, <1>5 DEF InHand, Modes
<1>9. Asked(b)
  BY <1>2, <1>4, <1>6 DEF InHand, Asked
<1>10. Sourced(b)
  BY <1>1, <1>2, <1>3, <1>4, <1>6 DEF InHand, Sourced
<1>11. Running(b)
  <2>1. b.pending \subseteq Active(b.said)
    BY <1>2 DEF InHand, Running
  <2>2. ASSUME NEW e \in Active(b.said) \ b.pending PROVE \E r \in Range(b.results) : r.check = e
    BY <1>2, <1>3, <1>6 DEF InHand, Running
  <2> QED
    BY <2>1, <2>2 DEF Running
<1>12. InHand(b)
  BY <1>7, <1>8, <1>9, <1>10, <1>11 DEF InHand
<1> QED
  BY <1>12 DEF b, x

-----------------------------------------------------------------------------
(* What an answer says of the assessment it was made of.                    *)

OfCheck(x, c) == {r \in Range(x.results) : r.check = c}

Everyone(x) ==
    x.mode = "assess" =>
        \A c \in DOMAIN LocalChecks \ Dormant :
            /\ OfCheck(x, c) = {} => \E t \in DOMAIN x.said :
                    x.said[t] # {} /\ c \in ruledBy(t) /\ Cardinality(ruledBy(t)) > 1
            /\ "builtin" \in {r.source : r \in OfCheck(x, c)} => \A r \in OfCheck(x, c) : ruledBy(r.source) = {}
Weighed(x) ==
    \A k \in DOMAIN x.results :
        /\ x.inputs[k].passed = x.results[k].passed
        /\ x.results[k].delta < 0 => x.inputs[k].delta < 0 /\ x.inputs[k].conf <= 100
        /\ x.results[k].conf > 0 => x.inputs[k].conf = x.results[k].conf
Kept(x) ==
    /\ \A t \in DOMAIN x.said : \A f \in x.said[t] : toolResult(f, t) \in Range(x.results)
    /\ \A t \in x.failed : x.mode = "assess" => \E i \in Range(x.inputs) : i.source = t /\ ~i.passed /\ i.delta < 0
    /\ x.asked = DOMAIN x.said \cup x.failed
Nothing(x) == x.report = <<>> /\ \A t \in DOMAIN x.said : x.said[t] = {}
Reached(x) ==
    \A t \in DOMAIN TechniqueOf \ x.covered : \A c \in TechniqueOf[t] :
        \A u \in DOMAIN x.said : \A f \in x.said[u] :
            f.check = c /\ ~f.passed /\ ruledBy(u) # {} /\ (\A r \in OfCheck(x, c) : r.passed => r.source \notin x.asked)
                => t \in x.techs
GoodAnswer(x) ==
    x # NoAnswer => /\ x.empty => Nothing(x)
                    /\ ~x.empty => Everyone(x) /\ Weighed(x) /\ Kept(x) /\ Reached(x)

\* These parts are what LocalSound says of the last answer.
LEMMA GoodAnswerSound ==
    ASSUME GoodAnswer(assessed)
    PROVE  EveryCheckJudged /\ NoProblemLost /\ EmptyMeansNothing /\ FailuresReachTechniques
<1>1. EveryCheckJudged
  BY DEF GoodAnswer, EveryCheckJudged, Judged, About, OfCheck, Everyone
<1>2. NoProblemLost
  BY DEF GoodAnswer, NoProblemLost, Judged, Weighed, Kept
<1>3. EmptyMeansNothing
  BY DEF GoodAnswer, EmptyMeansNothing, Nothing
<1>4. FailuresReachTechniques
  BY DEF GoodAnswer, FailuresReachTechniques, Judged, About, OfCheck, Reached
<1> QED
  BY <1>1, <1>2, <1>3, <1>4

-----------------------------------------------------------------------------
(* The parts, one by one.                                                   *)

\* A tool that names two checks has more than one rule.
LEMMA RuledByMany ==
    ASSUME NEW tool, NEW c \in ruledBy(tool), NEW e \in ruledBy(tool), c # e
    PROVE  Cardinality(ruledBy(tool)) > 1
<1>1. DOMAIN delegationRules(tool) \in SUBSET {1, 2, 3} /\ ruledBy(tool) = {delegationRules(tool)[k].check : k \in DOMAIN delegationRules(tool)}
  BY RulesOfTool
<1>2. IsFiniteSet({1, 2, 3})
  <2>1. IsFiniteSet(1..3)
    BY 1 \in Int, 3 \in Int, FS_Interval, Zenon
  <2>2. {1, 2, 3} = 1..3
    OBVIOUS
  <2> QED
    BY <2>1, <2>2
<1>3. IsFiniteSet(DOMAIN delegationRules(tool))
  BY <1>1, <1>2, FS_Subset
<1>4. IsFiniteSet(ruledBy(tool))
  <2> DEFINE D == DOMAIN delegationRules(tool)
             g == [k \in D |-> delegationRules(tool)[k].check]
  <2>1. g \in Surjection(D, ruledBy(tool))
    BY <1>1 DEF Surjection
  <2> QED
    BY <1>3, <2>1, FS_Surjection
<1>5. IsFiniteSet({c}) /\ Cardinality({c}) = 1
  BY FS_Singleton
<1>6. Cardinality({c} \cup {e}) = 2
  BY <1>5, FS_AddElement
<1>7. ({c} \cup {e}) \subseteq ruledBy(tool)
  OBVIOUS
<1>8. Cardinality(ruledBy(tool)) \in Nat /\ Cardinality({c} \cup {e}) <= Cardinality(ruledBy(tool))
  BY <1>4, <1>7, FS_Subset, FS_CardinalityType
<1> QED
  BY <1>6, <1>8

\* A tool takes over the check of each thing it says, if it has rules at all.
LEMMA SaidTakesOver ==
    ASSUME NEW a, InHand(a), NEW t \in DOMAIN a.said, NEW f \in a.said[t], ruledBy(t) # {}, f.check \in DOMAIN LocalChecks
    PROVE  f.check \in buildDelegatedSet(a.said)
<1>1. PICK d \in ToolAnswers[t] : a.said[t] = ExecuteAdapter(t, d)
  BY DEF InHand, Asked
<1>2. f \in ExecuteAdapter(t, d)
  BY <1>1
<1>3. f.check \in ruledBy(t)
  BY <1>2, FoundCheck, LocalAssumption
<1> QED
  BY <1>3 DEF buildDelegatedSet

\* Once the checks have ended, every active one was judged.
LEMMA EveryoneGood ==
    ASSUME NEW a, InHand(a), a.pc = "checks", a.pending = {}
    PROVE  Everyone(a)
<1>0. a.mode = "assess" /\ Sourced(a)
  BY DEF InHand, Modes
<1>1. ASSUME NEW c \in DOMAIN LocalChecks \ Dormant, OfCheck(a, c) = {}
      PROVE  \E t \in DOMAIN a.said : a.said[t] # {} /\ c \in ruledBy(t) /\ Cardinality(ruledBy(t)) > 1
  <2>1. c \notin Active(a.said)
    BY <1>1 DEF InHand, Running, OfCheck
  <2>2. c \in buildDelegatedSet(a.said)
    BY <2>1 DEF Active
  <2>3. PICK t \in DOMAIN a.said : c \in ruledBy(t) /\ \E f \in a.said[t] : f.check \in ruledBy(t) \cup {"OT-099-T"}
    BY <2>2 DEF buildDelegatedSet
  <2>4. PICK f \in a.said[t] : f.check \in ruledBy(t) \cup {"OT-099-T"}
    BY <2>3
  <2>5. f.check # c
    <3>1. toolResult(f, t) \in Range(a.results)
      BY DEF InHand, Follows, Range
    <3>2. toolResult(f, t).check = f.check
      BY DEF toolResult, Result, ToCheckResult
    <3> QED
      BY <1>1, <3>1, <3>2 DEF OfCheck
  <2>6. Cardinality(ruledBy(t)) > 1
    <3>1. CASE f.check \in ruledBy(t)
      BY <2>3, <2>5, <3>1, RuledByMany
    <3>2. CASE f.check \notin ruledBy(t)
      <4>1. PICK d \in ToolAnswers[t] : a.said[t] = ExecuteAdapter(t, d)
        BY DEF InHand, Asked
      <4>2. f \in ExecuteAdapter(t, d)
        BY <4>1
      <4>3. t = "trivy"
        BY <2>3, <3>2, <4>2, FoundCheck
      <4> QED
        BY <4>3, TrivyRules
    <3> QED
      BY <3>1, <3>2
  <2> QED
    BY <2>3, <2>4, <2>6
<1>2. ASSUME NEW c \in DOMAIN LocalChecks \ Dormant, NEW b \in OfCheck(a, c), b.source = "builtin", NEW r \in OfCheck(a, c)
      PROVE  ruledBy(r.source) = {}
  <2>1. c \in Active(a.said)
    <3>1. b \in Range(a.results) /\ b.check = c
      BY DEF OfCheck
    <3>2. b \notin MissingResults
      BY <1>2, LocalAssumption DEF MissingResults, Result
    <3>3. ASSUME NEW t \in DOMAIN a.said, NEW f \in a.said[t] PROVE b # toolResult(f, t)
      <4>1. t \in DOMAIN ToolAnswers
        BY DEF InHand, Asked
      <4>2. toolResult(f, t).source = t
        BY DEF toolResult, Result
      <4> QED
        BY <1>2, <4>1, <4>2, LocalAssumption
    <3> QED
      BY <1>0, <3>1, <3>2, <3>3 DEF Sourced
  <2>2. r \in Range(a.results) /\ r.check = c
    BY DEF OfCheck
  <2>3. CASE r \in CheckResults
    <3>1. r.source = "builtin"
      BY <2>3 DEF CheckResults, Result
    <3>2. DOMAIN delegationRules("builtin") = {}
      BY DEF delegationRules
    <3>3. ruledBy("builtin") = {}
      BY <3>2, RulesOfTool
    <3> QED
      BY <3>1, <3>3
  <2>4. CASE r \in MissingResults
    <3>1. r.check = "ADAPTER"
      BY <2>4 DEF MissingResults, Result
    <3> QED
      BY <2>2, <3>1, LocalAssumption
  <2>5. ASSUME NEW t \in DOMAIN a.said, NEW f \in a.said[t], r = toolResult(f, t) PROVE ruledBy(r.source) = {}
    <3>1. r.source = t /\ r.check = f.check
      BY <2>5 DEF toolResult, Result, ToCheckResult
    <3>2. SUFFICES ASSUME ruledBy(t) # {} PROVE FALSE
      BY <3>1
    <3>3. c \in buildDelegatedSet(a.said)
      BY <2>2, <3>1, <3>2, SaidTakesOver
    <3> QED
      BY <2>1, <3>3 DEF Active
  <2> QED
    BY <1>0, <2>2, <2>3, <2>4, <2>5 DEF Sourced
<1> QED
  BY <1>1, <1>2 DEF Everyone

LEMMA NumbersWellFounded == IsWellFoundedOn({p \in Nat \X Nat : p[1] < p[2]}, Nat)
  BY NatLessThanWellFounded DEF OpToRel

\* Of some numbers up to n there is a greatest.
LEMMA GreatestOfSome ==
    ASSUME NEW n \in Nat, NEW K \in SUBSET (1 .. n), K # {}
    PROVE  \E l \in K : \A j \in K : j <= l
<1> DEFINE T == {m \in Nat : \E j \in K : m + j = n}
<1>1. T # {}
  <2>1. PICK j \in K : TRUE
    OBVIOUS
  <2>2. n - j \in Nat /\ (n - j) + j = n
    BY <2>1
  <2> QED
    BY <2>2
<1>2. PICK m \in T : \A i \in T : ~ (<<i, m>> \in {p \in Nat \X Nat : p[1] < p[2]})
  BY <1>1, NumbersWellFounded, WFMin
<1>3. PICK l \in K : m + l = n
  BY <1>2
<1>4. ASSUME NEW j \in K PROVE j <= l
  <2>1. PICK i \in Nat : i + j = n
    <3>1. n - j \in Nat /\ (n - j) + j = n
      OBVIOUS
    <3> QED
      BY <3>1
  <2>2. i \in T
    BY <2>1
  <2>3. <<i, m>> \in Nat \X Nat
    BY <1>2
  <2>4. ~ (i < m)
    BY <1>2, <2>2, <2>3
  <2> QED
    BY <1>2, <1>3, <2>1, <2>4
<1> QED
  BY <1>4

\* What the score is given of a result.
LEMMA ResultEdited ==
    ASSUME NEW r, DOMAIN r = {"check", "domain", "passed", "delta", "source", "conf"}, NEW w, NEW n
    PROVE  /\ [r EXCEPT !.conf = w].passed = r.passed /\ [r EXCEPT !.conf = w].source = r.source
           /\ [r EXCEPT !.conf = w].delta = r.delta /\ [r EXCEPT !.conf = w].conf = w
           /\ [r EXCEPT !.delta = n].passed = r.passed /\ [r EXCEPT !.delta = n].source = r.source
           /\ [r EXCEPT !.delta = n].conf = r.conf /\ [r EXCEPT !.delta = n].delta = n
           /\ DOMAIN [r EXCEPT !.conf = w] = DOMAIN r
  OBVIOUS

LEMMA InputGood ==
    ASSUME NEW cfg \in LocalConfigs, NEW results \in Seq(AnyResult), NEW k \in DOMAIN results
    PROVE  LET i == legacyCheckInputs(cfg, results)[k] IN
           /\ i.passed = results[k].passed /\ i.source = results[k].source
           /\ results[k].delta < 0 => i.delta < 0 /\ i.conf <= 100
           /\ results[k].conf > 0 => i.conf = results[k].conf
<1> DEFINE r == results[k]
           table == cfg.conf
           floor == OneOf(table.floor > 0 /\ table.floor < 100, table.floor, 5)
           v == resolveRaw(table, r)
           w == clampConfidence(table, v)
           m == ResolveChecks(table, results)[k]
           i == legacyCheckInputs(cfg, results)[k]
<1>1. r \in AnyResult
  OBVIOUS
<1>2. /\ DOMAIN r = {"check", "domain", "passed", "delta", "source", "conf"}
      /\ r.delta \in Int /\ r.conf \in Int /\ r.conf <= 100
  <2> HIDE DEF r
  <2> QED
    BY <1>1, AnyResultFacts
<1>3. ConfidenceRules(table) /\ \A c \in DOMAIN cfg.deltas : cfg.deltas[c] \in Int /\ cfg.deltas[c] < 0
  BY LocalAssumption
<1>4. m = IF table.enabled /\ r.conf <= 0 THEN [r EXCEPT !.conf = w] ELSE r
  BY DEF ResolveChecks
<1>5. i = [m EXCEPT !.delta = IF r.check \in DOMAIN cfg.deltas THEN cfg.deltas[r.check] ELSE @]
  BY DEF legacyCheckInputs
<1>6. v \in Int
  <2> HIDE DEF r, table
  <2> QED
    BY <1>3 DEF ConfidenceRules, resolveRaw
<1>7. w \in Int /\ w <= 100
  <2>1. floor \in Int /\ floor <= 100
    BY <1>3 DEF ConfidenceRules, OneOf
  <2>2. w = OneOf(v < floor, floor, OneOf(v > 100, 100, v))
    BY DEF clampConfidence
  <2> HIDE DEF floor, v, w
  <2> QED
    BY <1>6, <2>1, <2>2 DEF OneOf
<1> HIDE DEF r, table, w, m, i
<1>8. /\ DOMAIN m = DOMAIN r /\ m.passed = r.passed /\ m.source = r.source /\ m.delta = r.delta
      /\ m.conf <= 100 /\ (r.conf > 0 => m.conf = r.conf)
  <2>1. CASE table.enabled /\ r.conf <= 0
    <3>1. m = [r EXCEPT !.conf = w]
      BY <1>4, <2>1
    <3>2. /\ DOMAIN m = DOMAIN r /\ m.passed = r.passed /\ m.source = r.source /\ m.delta = r.delta /\ m.conf = w
      BY <1>2, <3>1, ResultEdited
    <3> QED
      BY <1>2, <1>7, <2>1, <3>2
  <2>2. CASE ~(table.enabled /\ r.conf <= 0)
    <3>1. m = r
      BY <1>4, <2>2
    <3>2. r.conf <= 100
      BY <1>2
    <3> QED
      BY <3>1, <3>2
  <2> QED
    BY <2>1, <2>2
<1>9. /\ i.passed = r.passed /\ i.source = r.source /\ i.conf = m.conf
      /\ i.delta = IF r.check \in DOMAIN cfg.deltas THEN cfg.deltas[r.check] ELSE r.delta
  BY <1>2, <1>5, <1>8
<1> QED
  BY <1>3, <1>8, <1>9 DEF r, i

LEMMA WeighedGood ==
    ASSUME NEW x, NEW cfg \in LocalConfigs, x.results \in Seq(AnyResult), x.inputs = legacyCheckInputs(cfg, x.results)
    PROVE  Weighed(x)
BY InputGood DEF Weighed

\* What was found, and in Assess what is missing, is among the results.
LEMMA KeptGood ==
    ASSUME NEW a, InHand(a), NEW x, NEW cfg \in LocalConfigs,
           a.pc = "tools" \/ a.pc = "checks", a.pending = {},
           x.mode = a.mode, x.asked = a.asked, x.failed = a.failed, x.said = a.said, x.results = a.results,
           x.inputs = legacyCheckInputs(cfg, a.results)
    PROVE  Kept(x)
<1>1. ASSUME NEW t \in DOMAIN x.said, NEW f \in x.said[t] PROVE toolResult(f, t) \in Range(x.results)
  BY DEF InHand, Follows, Range
<1>2. x.asked = DOMAIN x.said \cup x.failed
  BY DEF InHand, Asked
<1>3. ASSUME NEW t \in x.failed, x.mode = "assess" PROVE \E i \in Range(x.inputs) : i.source = t /\ ~i.passed /\ i.delta < 0
  <2>1. Result("ADAPTER", "AS", FALSE, -5, t, 0) \in Range(a.results)
    BY <1>3 DEF InHand, Asked
  <2>2. PICK k \in DOMAIN a.results : a.results[k] = Result("ADAPTER", "AS", FALSE, -5, t, 0)
    BY <2>1 DEF Range
  <2>3. a.results[k].source = t /\ ~a.results[k].passed /\ a.results[k].delta < 0
    BY <2>2 DEF Result
  <2>4. a.results \in Seq(AnyResult)
    BY DEF InHand, Modes
  <2>5. x.inputs[k].source = t /\ ~x.inputs[k].passed /\ x.inputs[k].delta < 0
    BY <2>3, <2>4, InputGood
  <2>6. DOMAIN x.inputs = DOMAIN a.results
    BY DEF legacyCheckInputs
  <2> QED
    BY <2>5, <2>6 DEF Range
<1> QED
  BY <1>1, <1>2, <1>3 DEF Kept

\* Of the results of a check there is a last one, and it is the one that counts.
LEMMA LastCounts ==
    ASSUME NEW results \in Seq(AnyResult), NEW c, NEW k \in DOMAIN results, results[k].check = c
    PROVE  \E l \in DOMAIN results : results[l].check = c /\ l >= k /\ verdictOf(results, c) = results[l].passed
<1> DEFINE Newest(l) == results[l].check = c /\ \A j \in DOMAIN results : results[j].check = c => j <= l
           n == Len(results)
           K == {j \in 1..n : results[j].check = c}
<1>1. n \in Nat /\ DOMAIN results = 1..n
  OBVIOUS
<1>3. K \in SUBSET (1 .. n) /\ K # {}
  BY <1>1
<1>4. \E l \in DOMAIN results : Newest(l)
  <2>1. PICK l \in K : \A j \in K : j <= l
    BY <1>1, <1>3, GreatestOfSome
  <2> QED
    BY <1>1, <2>1
<1>5. PICK l \in DOMAIN results : l = CHOOSE j \in DOMAIN results : Newest(j)
  BY <1>4
<1>6. Newest(l)
  BY <1>4, <1>5
<1>7. l >= k
  BY <1>1, <1>6
<1>8. verdictOf(results, c) = results[l].passed
  BY <1>5 DEF verdictOf
<1> QED
  BY <1>6, <1>7, <1>8

\* The last result of a check that a tool with rules found failing is not a pass of the host's own.
LEMMA ReachedGood ==
    ASSUME NEW a, InHand(a), NEW x, a.pc = "tools" \/ a.pc = "checks",
           x.asked = a.asked, x.said = a.said, x.results = a.results,
           x.techs = applyATTACK(a.results, x.covered)
    PROVE  Reached(x)
<1> SUFFICES ASSUME NEW t \in DOMAIN TechniqueOf \ x.covered, NEW c \in TechniqueOf[t],
                    NEW u \in DOMAIN x.said, NEW f \in x.said[u],
                    f.check = c, ~f.passed, ruledBy(u) # {},
                    \A r \in OfCheck(x, c) : r.passed => r.source \notin x.asked
             PROVE  t \in x.techs
  BY DEF Reached
<1>1. PICK k \in DOMAIN a.results :
          /\ a.results[k] = toolResult(f, u)
          /\ \A l \in DOMAIN a.results : l > k /\ a.results[l].passed =>
                a.results[l].source \in a.asked \/ (a.pc = "checks" /\ a.results[l].check \in Active(a.said))
  BY DEF InHand, Follows
<1>2. a.results[k].check = c /\ ~a.results[k].passed
  BY <1>1 DEF toolResult, Result, ToCheckResult
<1>3. a.results \in Seq(AnyResult)
  BY DEF InHand, Modes
<1>4. PICK l \in DOMAIN a.results : a.results[l].check = c /\ l >= k /\ verdictOf(a.results, c) = a.results[l].passed
  BY <1>2, <1>3, LastCounts
<1>5. ~a.results[l].passed
  <2> SUFFICES ASSUME a.results[l].passed PROVE FALSE
    OBVIOUS
  <2>1. l > k
    <3>1. l \in Nat /\ k \in Nat
      BY <1>3
    <3>2. l # k
      BY <1>2
    <3> QED
      BY <1>4, <3>1, <3>2
  <2>2. a.results[l] \in OfCheck(x, c)
    BY <1>4 DEF OfCheck, Range
  <2>3. a.results[l].source \notin a.asked
    BY <2>2
  <2>4. c \in Active(a.said)
    BY <1>1, <1>4, <2>1, <2>3
  <2>5. c \in buildDelegatedSet(a.said)
    BY <2>4, SaidTakesOver DEF Active
  <2> QED
    BY <2>4, <2>5 DEF Active
<1>6. a.results[k] \in Range(a.results)
  BY DEF Range
<1> QED
  BY <1>2, <1>4, <1>5, <1>6 DEF applyATTACK

(* The invariant: what is under way is in hand, what was answered is good.  *)

GoodKept(kept, cfg) ==
    \A r \in DOMAIN kept : GoodAnswer(kept[r]) /\ kept[r].report = r /\ cfg \in kept[r].configs
LocalInv ==
    /\ localConfig \in LocalConfigs
    /\ assessing = AtRest \/ (InHand(assessing) /\ localConfig \in assessing.configs)
    /\ GoodAnswer(assessed)
    /\ GoodKept(answersKept, localConfig)

LEMMA BeginsGood ==
    ASSUME NEW mode \in {"assess", "results"}, NEW report, mode = "assess" => report = <<>>,
           report = <<>> \/ report \in AgentReports, localConfig' = localConfig, assessing' = Starting(mode, report)
    PROVE  InHand(assessing') /\ localConfig' \in (assessing').configs
<1>1. InHand(Starting(mode, report))
  BY StartGood
<1>2. Starting(mode, report).configs = {localConfig}
  BY DEF Starting
<1> QED
  BY <1>1, <1>2

LEMMA BusyInHand ==
    ASSUME LocalInv, assessing.pc \in {"tools", "checks"}
    PROVE  InHand(assessing) /\ localConfig \in assessing.configs
BY DEF LocalInv, AtRest

LEMMA AssessStep ==
    ASSUME LocalInv, Assess
    PROVE  LocalInv'
<1>1. InHand(assessing') /\ localConfig' \in (assessing').configs
  BY BeginsGood DEF Assess
<1>2. GoodAnswer(assessed')
  BY DEF Assess, GoodAnswer
<1> QED
  BY <1>1, <1>2 DEF LocalInv, Assess

LEMMA AssessFromResultsStep ==
    ASSUME LocalInv, NEW report \in AgentReports, AssessFromResults(report)
    PROVE  LocalInv'
<1>1. CASE report \in DOMAIN answersKept /\ minute - answersKept[report].at < CacheMinutes
  <2>1. assessed' = answersKept[report] /\ UNCHANGED <<assessing, answersKept, localConfig>>
    BY <1>1 DEF AssessFromResults
  <2> QED
    BY <1>1, <2>1 DEF LocalInv, GoodKept
<1>2. CASE ~(report \in DOMAIN answersKept /\ minute - answersKept[report].at < CacheMinutes)
  <2>1. /\ assessing' = Starting("results", report) /\ assessed' = NoAnswer /\ localConfig' = localConfig
        /\ answersKept' = [r \in DOMAIN answersKept \ {report} |-> answersKept[r]]
    BY <1>2 DEF AssessFromResults
  <2>2. InHand(assessing') /\ localConfig' \in (assessing').configs
    BY <2>1, BeginsGood
  <2>3. GoodAnswer(assessed')
    BY <2>1 DEF GoodAnswer
  <2>4. GoodKept(answersKept', localConfig')
    BY <2>1 DEF LocalInv, GoodKept
  <2> QED
    BY <2>1, <2>2, <2>3, <2>4 DEF LocalInv
<1> QED
  BY <1>1, <1>2

LEMMA SameElse ==
    ASSUME LocalInv, callSame, InHand(assessing'), assessing.pc \in {"tools", "checks"}, (assessing').configs = assessing.configs
    PROVE  LocalInv'
BY BusyInHand DEF LocalInv, callSame

LEMMA ToolAnsweredStep ==
    ASSUME LocalInv, NEW t \in DOMAIN ToolAnswers, NEW d \in ToolAnswers[t], ToolAnswered(t, d)
    PROVE  LocalInv'
<1>1. assessing.pc = "tools" /\ t \in assessing.pending /\ callSame
  BY DEF ToolAnswered, At
<1>2. PICK order \in inSomeOrder(ExecuteAdapter(t, d)) :
          assessing' = [assessing EXCEPT !.pending = @ \ {t}, !.said = told(@, t, ExecuteAdapter(t, d)),
                !.results = @ \o [k \in DOMAIN order |-> toolResult(order[k], t)]]
  BY DEF ToolAnswered
<1>3. InHand(assessing)
  BY <1>1, BusyInHand
<1>4. InHand(assessing')
  BY <1>1, <1>2, <1>3, AnswersGood
<1>5. (assessing').configs = assessing.configs
  BY <1>2, <1>3 DEF InHand, Modes, InHandFields
<1> QED
  BY <1>1, <1>4, <1>5, SameElse

LEMMA ToolFailedStep ==
    ASSUME LocalInv, NEW t \in DOMAIN ToolAnswers, ToolFailed(t)
    PROVE  LocalInv'
<1>1. /\ assessing.pc = "tools" /\ t \in assessing.pending /\ callSame
      /\ assessing' = [assessing EXCEPT !.pending = @ \ {t}, !.failed = @ \cup {t},
            !.results = IF assessing.mode = "assess" THEN Append(@, Result("ADAPTER", "AS", FALSE, -5, t, 0)) ELSE @]
  BY DEF ToolFailed, At
<1>2. InHand(assessing)
  BY <1>1, BusyInHand
<1>3. InHand(assessing')
  BY <1>1, <1>2, FailsGood
<1>4. (assessing').configs = assessing.configs
  BY <1>1, <1>2 DEF InHand, Modes, InHandFields
<1> QED
  BY <1>1, <1>3, <1>4, SameElse

LEMMA ChecksBeginStep ==
    ASSUME LocalInv, ChecksBegin
    PROVE  LocalInv'
<1>1. /\ assessing.pc = "tools" /\ assessing.pending = {} /\ assessing.mode = "assess" /\ callSame
      /\ assessing' = [assessing EXCEPT !.pc = "checks", !.pending = Active(assessing.said)]
  BY DEF ChecksBegin, At, Active
<1>2. InHand(assessing)
  BY <1>1, BusyInHand
<1>3. InHand(assessing')
  BY <1>1, <1>2, ChecksBeginGood
<1>4. (assessing').configs = assessing.configs
  BY <1>1, <1>2 DEF InHand, Modes, InHandFields
<1> QED
  BY <1>1, <1>3, <1>4, SameElse

LEMMA CheckEndsStep ==
    ASSUME LocalInv, NEW c \in DOMAIN LocalChecks, NEW outcome, CheckEnds(c, outcome)
    PROVE  LocalInv'
<1>1. PICK passed \in BOOLEAN, n \in {0, -10} :
          /\ assessing.pc = "checks" /\ c \in assessing.pending /\ callSame
          /\ assessing' = [assessing EXCEPT !.pending = @ \ {c},
                                            !.results = Append(@, Result(c, LocalChecks[c], passed, n, "builtin", 0))]
  <2>1. (outcome # "fail") \in BOOLEAN /\ OneOf(outcome = "fail", -10, 0) \in {0, -10}
    BY DEF OneOf
  <2> QED
    BY <2>1 DEF CheckEnds, At
<1>2. InHand(assessing)
  BY <1>1, BusyInHand
<1>3. InHand(assessing')
  BY <1>1, <1>2, CheckEndsGood
<1>4. (assessing').configs = assessing.configs
  BY <1>1, <1>2 DEF InHand, Modes, InHandFields
<1> QED
  BY <1>1, <1>3, <1>4, SameElse

LEMMA buildEmptyResultStep ==
    ASSUME LocalInv, buildEmptyResult
    PROVE  LocalInv'
<1> DEFINE x == Answer(TRUE, <<>>, {}, {})
<1>1. /\ assessing.pc = "tools" /\ assessing.pending = {} /\ assessing.results = <<>>
      /\ assessed' = x /\ assessing' = AtRest /\ UNCHANGED <<localConfig, answersKept>>
  BY DEF buildEmptyResult, Answered, At
<1>2. InHand(assessing)
  BY <1>1, BusyInHand
<1>3. x.empty = TRUE /\ x.report = assessing.report /\ x.said = assessing.said
  BY DEF Answer
<1>4. assessing.report = <<>>
  BY <1>1, <1>2 DEF InHand, Modes
<1>5. \A t \in DOMAIN assessing.said : assessing.said[t] = {}
  <2>1. DOMAIN assessing.results = {}
    BY <1>1
  <2> QED
    BY <1>2, <2>1 DEF InHand, Follows
<1> HIDE DEF x
<1>6. GoodAnswer(x)
  BY <1>3, <1>4, <1>5 DEF GoodAnswer, Nothing
<1> QED
  BY <1>1, <1>6 DEF LocalInv

LEMMA JudgeStep ==
    ASSUME LocalInv, NEW covered, Judge(covered)
    PROVE  LocalInv'
<1> DEFINE a == assessing
           x == Answer(FALSE, legacyCheckInputs(localConfig, assessing.results), applyATTACK(assessing.results, covered), covered)
<1>1. /\ a.pc = "checks" \/ (a.pc = "tools" /\ a.mode = "results")
      /\ a.pending = {}
      /\ assessed' = x /\ assessing' = AtRest /\ localConfig' = localConfig
      /\ answersKept' = IF x.mode = "assess" THEN answersKept
                        ELSE [r \in DOMAIN answersKept \cup {x.report} |-> IF r = x.report THEN x ELSE answersKept[r]]
  BY DEF Judge, Answered, At
<1>2. InHand(a) /\ localConfig \in a.configs
  BY <1>1, BusyInHand
<1>3. /\ x.empty = FALSE /\ x.mode = a.mode /\ x.report = a.report /\ x.said = a.said /\ x.configs = a.configs
      /\ x.asked = a.asked /\ x.failed = a.failed /\ x.results = a.results /\ x.covered = covered
      /\ x.inputs = legacyCheckInputs(localConfig, a.results) /\ x.techs = applyATTACK(a.results, covered)
  BY DEF Answer
<1>4. localConfig \in LocalConfigs
  BY DEF LocalInv
<1> HIDE DEF x
<1>5. Everyone(x)
  <2>1. CASE a.pc = "checks"
    <3>1. Everyone(a)
      BY <1>1, <1>2, <2>1, EveryoneGood
    <3> QED
      BY <1>3, <3>1 DEF Everyone, OfCheck
  <2>2. CASE a.pc # "checks"
    BY <1>1, <1>3, <2>2 DEF Everyone
  <2> QED
    BY <2>1, <2>2
<1>6. Weighed(x)
  <2>1. a.results \in Seq(AnyResult)
    BY <1>2 DEF InHand, Modes
  <2> QED
    BY <1>3, <1>4, <2>1, WeighedGood
<1>7. Kept(x)
  BY <1>1, <1>2, <1>3, <1>4, KeptGood
<1>8. Reached(x)
  BY <1>1, <1>2, <1>3, ReachedGood
<1>9. GoodAnswer(x)
  BY <1>3, <1>5, <1>6, <1>7, <1>8 DEF GoodAnswer
<1>10. GoodKept(answersKept', localConfig')
  <2>1. CASE x.mode = "assess"
    BY <1>1, <2>1 DEF LocalInv
  <2>2. CASE x.mode # "assess"
    <3>1. answersKept' = [r \in DOMAIN answersKept \cup {x.report} |-> IF r = x.report THEN x ELSE answersKept[r]]
      BY <1>1, <2>2
    <3>2. GoodKept(answersKept, localConfig) /\ localConfig' = localConfig /\ localConfig \in x.configs
      BY <1>1, <1>2, <1>3 DEF LocalInv
    <3> QED
      BY <1>9, <3>1, <3>2 DEF GoodKept
  <2> QED
    BY <2>1, <2>2
<1> QED
  BY <1>1, <1>4, <1>9, <1>10 DEF LocalInv

LEMMA ReloadLocalStep ==
    ASSUME LocalInv, NEW cfg \in LocalConfigs, ReloadLocal(cfg)
    PROVE  LocalInv'
<1>1. /\ localConfig' = cfg /\ answersKept' = <<>> /\ assessed' = assessed
      /\ assessing' = IF assessing.pc = "idle" THEN assessing ELSE [assessing EXCEPT !.configs = @ \cup {cfg}]
  BY DEF ReloadLocal
<1>2. DOMAIN answersKept' = {}
  BY <1>1
<1>3. GoodKept(answersKept', localConfig')
  BY <1>2 DEF GoodKept
<1>4. CASE assessing = AtRest
  <2>1. assessing' = AtRest
    BY <1>1, <1>4 DEF AtRest
  <2> QED
    BY <1>1, <1>3, <2>1 DEF LocalInv
<1>5. CASE assessing # AtRest
  <2>1. InHand(assessing)
    BY <1>5 DEF LocalInv
  <2>2. assessing.pc # "idle" /\ "configs" \in DOMAIN assessing
    BY <2>1 DEF InHand, Modes, InHandFields
  <2>3. assessing' = [assessing EXCEPT !.configs = @ \cup {cfg}]
    BY <1>1, <2>2
  <2>4. InHand([assessing EXCEPT !.configs = assessing.configs \cup {cfg}])
    BY <2>1, ConfigsAside
  <2>5. InHand(assessing')
    BY <2>3, <2>4
  <2>6. localConfig' \in (assessing').configs
    BY <1>1, <2>2, <2>3
  <2> QED
    BY <1>1, <1>3, <2>5, <2>6 DEF LocalInv
<1> QED
  BY <1>4, <1>5

\* Whatever the tools and checks say, in whatever order they end or fail, and however often the
\* configuration is reloaded meanwhile: Assess and AssessFromResults judge every active check,
\* give every problem a weight, call a host acceptable for want of evidence only when there was
\* none, keep an answer only for its report and the present configuration, and fail the
\* techniques of what a tool with rules found failing.
THEOREM AssessmentsLoseNothing ==
    LocalSpec => []LocalSound
<1>1. LocalInit => LocalInv
  <2> SUFFICES ASSUME LocalInit PROVE LocalInv
    OBVIOUS
  <2>1. DOMAIN answersKept = {}
    BY DEF LocalInit
  <2> QED
    BY <2>1 DEF LocalInit, LocalInv, GoodAnswer, GoodKept
<1>2. LocalInv /\ [LocalNext]_localVars => LocalInv'
  <2> SUFFICES ASSUME LocalInv, [LocalNext]_localVars PROVE LocalInv'
    OBVIOUS
  <2>1. CASE Assess
    BY <2>1, AssessStep
  <2>2. CASE \E r \in AgentReports : AssessFromResults(r)
    BY <2>2, AssessFromResultsStep
  <2>3. CASE \E t \in DOMAIN ToolAnswers : ToolFailed(t) \/ \E d \in ToolAnswers[t] : ToolAnswered(t, d)
    BY <2>3, ToolFailedStep, ToolAnsweredStep
  <2>4. CASE ChecksBegin
    BY <2>4, ChecksBeginStep
  <2>5. CASE \E c \in DOMAIN LocalChecks, o \in {"pass", "fail", "denied"} : CheckEnds(c, o)
    BY <2>5, CheckEndsStep
  <2>6. CASE buildEmptyResult
    BY <2>6, buildEmptyResultStep
  <2>7. CASE \E covered \in SUBSET DOMAIN TechniqueOf : Judge(covered)
    BY <2>7, JudgeStep
  <2>8. CASE \E cfg \in LocalConfigs : ReloadLocal(cfg)
    BY <2>8, ReloadLocalStep
  <2>9. CASE MinutePasses
    BY <2>9 DEF MinutePasses, LocalInv
  <2>10. CASE UNCHANGED localVars
    BY <2>10 DEF localVars, LocalInv
  <2> QED
    BY <2>1, <2>2, <2>3, <2>4, <2>5, <2>6, <2>7, <2>8, <2>9, <2>10 DEF LocalNext
<1>3. LocalInv => LocalSound
  <2> SUFFICES ASSUME LocalInv PROVE LocalSound
    OBVIOUS
  <2>1. EveryCheckJudged /\ NoProblemLost /\ EmptyMeansNothing /\ FailuresReachTechniques
    BY GoodAnswerSound DEF LocalInv
  <2>2. CachedAnswersFresh
    BY DEF LocalInv, GoodKept, CachedAnswersFresh
  <2> QED
    BY <2>1, <2>2 DEF LocalSound
<1> QED
  BY <1>1, <1>2, <1>3, PTL DEF LocalSpec

-----------------------------------------------------------------------------
(* What the tools report counts in the domain of its check.                 *)

\* A finding has no domain of its own, or this one.
Placed(f, dom) == "domain" \in DOMAIN f /\ f.domain \in {"", dom}

LEMMA FindingPlaced ==
    ASSUME NEW a, NEW b, NEW c, NEW d, NEW dom, NEW e \in {"", dom}
    PROVE  Placed(F(a, b, c, d, e), dom)
BY DEF Placed, F

LEMMA StatusPlaced ==
    ASSUME NEW b, NEW c, NEW d, NEW dom, NEW e \in {"", dom}, NEW f \in Status(b, c, d, e)
    PROVE  Placed(f, dom)
BY FindingPlaced DEF Status

\* A rule names the domain of its check.
LEMMA RulesPlaced ==
    ASSUME NEW tool, NEW k \in DOMAIN delegationRules(tool)
    PROVE  delegationRules(tool)[k].domain = CheckPrefix(delegationRules(tool)[k].check)
<1>1. delegationRules(tool) # <<>>
  OBVIOUS
<1>2. CASE tool = "trivy"
  BY <1>2 DEF delegationRules, Rule, CheckPrefix
<1>3. CASE tool = "nuclei"
  BY <1>3 DEF delegationRules, Rule, CheckPrefix
<1>4. CASE tool = "lynis"
  BY <1>4 DEF delegationRules, Rule, CheckPrefix
<1>5. CASE tool = "openscap"
  BY <1>5 DEF delegationRules, Rule, CheckPrefix
<1>6. CASE tool = "wazuh_agent"
  BY <1>6 DEF delegationRules, Rule, CheckPrefix
<1>7. CASE tool = "suricata"
  BY <1>7 DEF delegationRules, Rule, CheckPrefix
<1>8. CASE tool = "falco"
  BY <1>8 DEF delegationRules, Rule, CheckPrefix
<1>9. CASE tool = "clamav"
  BY <1>9 DEF delegationRules, Rule, CheckPrefix
<1>10. CASE tool = "osv_scanner"
  BY <1>10 DEF delegationRules, Rule, CheckPrefix
<1>11. CASE tool = "aide"
  BY <1>11 DEF delegationRules, Rule, CheckPrefix
<1>12. CASE tool = "nikto"
  BY <1>12 DEF delegationRules, Rule, CheckPrefix
<1>13. CASE tool = "ansible"
  BY <1>13 DEF delegationRules, Rule, CheckPrefix
<1>14. CASE tool = "netbox"
  BY <1>14 DEF delegationRules, Rule, CheckPrefix
<1>15. CASE tool = "snipe_it"
  BY <1>15 DEF delegationRules, Rule, CheckPrefix
<1>16. CASE tool = "freeipa"
  BY <1>16 DEF delegationRules, Rule, CheckPrefix
<1>17. CASE tool = "keycloak"
  BY <1>17 DEF delegationRules, Rule, CheckPrefix
<1>18. CASE tool = "wazuh_siem"
  BY <1>18 DEF delegationRules, Rule, CheckPrefix
<1>19. CASE tool = "rundeck"
  BY <1>19 DEF delegationRules, Rule, CheckPrefix
<1>20. CASE tool = "jira"
  BY <1>20 DEF delegationRules, Rule, CheckPrefix
<1>21. CASE tool = "terraform"
  BY <1>21 DEF delegationRules, Rule, CheckPrefix
<1>22. CASE tool = "opentofu"
  BY <1>22 DEF delegationRules, Rule, CheckPrefix
<1> QED
  BY <1>1, <1>2, <1>3, <1>4, <1>5, <1>6, <1>7, <1>8, <1>9, <1>10, <1>11, <1>12, <1>13, <1>14, <1>15, <1>16, <1>17, <1>18, <1>19, <1>20, <1>21, <1>22 DEF delegationRules

\* A tool with rules has a first one.
LEMMA HasRules ==
    ASSUME NEW tool, delegationRules(tool) # <<>>
    PROVE  1 \in DOMAIN delegationRules(tool)
<1>1. delegationRules(tool) # <<>>
  OBVIOUS
<1>2. CASE tool = "trivy"
  BY <1>2 DEF delegationRules
<1>3. CASE tool = "nuclei"
  BY <1>3 DEF delegationRules
<1>4. CASE tool = "lynis"
  BY <1>4 DEF delegationRules
<1>5. CASE tool = "openscap"
  BY <1>5 DEF delegationRules
<1>6. CASE tool = "wazuh_agent"
  BY <1>6 DEF delegationRules
<1>7. CASE tool = "suricata"
  BY <1>7 DEF delegationRules
<1>8. CASE tool = "falco"
  BY <1>8 DEF delegationRules
<1>9. CASE tool = "clamav"
  BY <1>9 DEF delegationRules
<1>10. CASE tool = "osv_scanner"
  BY <1>10 DEF delegationRules
<1>11. CASE tool = "aide"
  BY <1>11 DEF delegationRules
<1>12. CASE tool = "nikto"
  BY <1>12 DEF delegationRules
<1>13. CASE tool = "ansible"
  BY <1>13 DEF delegationRules
<1>14. CASE tool = "netbox"
  BY <1>14 DEF delegationRules
<1>15. CASE tool = "snipe_it"
  BY <1>15 DEF delegationRules
<1>16. CASE tool = "freeipa"
  BY <1>16 DEF delegationRules
<1>17. CASE tool = "keycloak"
  BY <1>17 DEF delegationRules
<1>18. CASE tool = "wazuh_siem"
  BY <1>18 DEF delegationRules
<1>19. CASE tool = "rundeck"
  BY <1>19 DEF delegationRules
<1>20. CASE tool = "jira"
  BY <1>20 DEF delegationRules
<1>21. CASE tool = "terraform"
  BY <1>21 DEF delegationRules
<1>22. CASE tool = "opentofu"
  BY <1>22 DEF delegationRules
<1> QED
  BY <1>1, <1>2, <1>3, <1>4, <1>5, <1>6, <1>7, <1>8, <1>9, <1>10, <1>11, <1>12, <1>13, <1>14, <1>15, <1>16, <1>17, <1>18, <1>19, <1>20, <1>21, <1>22 DEF delegationRules

\* What a tool finds has the domain of all of its rules, if it has one of its own.
LEMMA ParsedPlaced ==
    ASSUME NEW tool, NEW d, NEW f \in Parse(tool, d), delegationRules(tool) # <<>>,
           tool \notin {"trivy", "lynis", "suricata", "osv_scanner"}
    PROVE  \E dom : Placed(f, dom) /\ \A k \in DOMAIN delegationRules(tool) : delegationRules(tool)[k].domain = dom
<1>1. ASSUME tool = "nuclei"
      PROVE  Placed(f, "AS") /\ \A k \in DOMAIN delegationRules(tool) : delegationRules(tool)[k].domain = "AS"
  <2>1. f \in nuclei(d)
    BY <1>1 DEF Parse
  <2>2. PICK i \in d.items : f = F({}, "vulnerability", i.sev, FALSE, "AS")
    BY <2>1 DEF nuclei
  <2>4. Placed(f, "AS")
    BY <2>2 DEF Placed, F
  <2> QED
    BY <1>1, <2>4 DEF delegationRules, Rule
<1>2. ASSUME tool = "openscap"
      PROVE  Placed(f, "OT") /\ \A k \in DOMAIN delegationRules(tool) : delegationRules(tool)[k].domain = "OT"
  <2>1. f \in openscap(d)
    BY <1>2 DEF Parse
  <2>2. PICK i \in d.items : f = F({}, "compliance", OneOf(i.word = "fail", "medium", "info"), i.word = "pass", "OT")
    BY <2>1 DEF openscap
  <2>4. Placed(f, "OT")
    BY <2>2 DEF Placed, F
  <2> QED
    BY <1>2, <2>4 DEF delegationRules, Rule
<1>3. ASSUME tool = "wazuh_agent"
      PROVE  Placed(f, "RS") /\ \A k \in DOMAIN delegationRules(tool) : delegationRules(tool)[k].domain = "RS"
  <2>1. f \in wazuh_agent(d)
    BY <1>3 DEF Parse
  <2>4. Placed(f, "RS")
    BY <2>1, FindingPlaced, StatusPlaced DEF wazuh_agent
  <2> QED
    BY <1>3, <2>4 DEF delegationRules, Rule
<1>4. ASSUME tool = "falco"
      PROVE  Placed(f, "RS") /\ \A k \in DOMAIN delegationRules(tool) : delegationRules(tool)[k].domain = "RS"
  <2>1. f \in falco(d)
    BY <1>4 DEF Parse
  <2>2. \/ f \in Status("alert", "none", installed(d, "Falco"), "RS")
        \/ \E i \in d.items : f = F({}, "alert", IF i.log THEN falcoLevel(i.priority) ELSE falcoPriority(i.priority), FALSE, "RS")
    BY <2>1 DEF falco
  <2>3. ASSUME NEW i \in d.items, f = F({}, "alert", IF i.log THEN falcoLevel(i.priority) ELSE falcoPriority(i.priority), FALSE, "RS")
        PROVE  Placed(f, "RS")
    BY <2>3 DEF Placed, F
  <2>4. Placed(f, "RS")
    BY <2>2, <2>3, StatusPlaced
  <2> QED
    BY <1>4, <2>4 DEF delegationRules, Rule
<1>5. ASSUME tool = "clamav"
      PROVE  Placed(f, "RS") /\ \A k \in DOMAIN delegationRules(tool) : delegationRules(tool)[k].domain = "RS"
  <2>1. f \in clamav(d)
    BY <1>5 DEF Parse
  <2>2. \/ f \in Status("alert", "none", installed(d, "ClamAV"), "RS")
        \/ f = F({}, "alert", "critical", FALSE, "RS") \/ f = F({}, "alert", "medium", FALSE, "RS")
    BY <2>1 DEF clamav
  <2>4. Placed(f, "RS")
    BY <2>2, FindingPlaced, StatusPlaced
  <2> QED
    BY <1>5, <2>4 DEF delegationRules, Rule
<1>6. ASSUME tool = "aide"
      PROVE  Placed(f, "OT") /\ \A k \in DOMAIN delegationRules(tool) : delegationRules(tool)[k].domain = "OT"
  <2>1. f \in aide(d)
    BY <1>6 DEF Parse
  <2>4. Placed(f, "OT")
    BY <2>1, FindingPlaced, StatusPlaced DEF aide
  <2> QED
    BY <1>6, <2>4 DEF delegationRules, Rule
<1>7. ASSUME tool = "nikto"
      PROVE  Placed(f, "AS") /\ \A k \in DOMAIN delegationRules(tool) : delegationRules(tool)[k].domain = "AS"
  <2>1. f \in nikto(d)
    BY <1>7 DEF Parse
  <2>4. Placed(f, "AS")
    BY <2>1, FindingPlaced, StatusPlaced DEF nikto
  <2> QED
    BY <1>7, <2>4 DEF delegationRules, Rule
<1>8. ASSUME tool = "ansible"
      PROVE  Placed(f, "OT") /\ \A k \in DOMAIN delegationRules(tool) : delegationRules(tool)[k].domain = "OT"
  <2>1. f \in ansible(d)
    BY <1>8 DEF Parse
  <2>4. Placed(f, "OT")
    BY <2>1, FindingPlaced, StatusPlaced DEF ansible
  <2> QED
    BY <1>8, <2>4 DEF delegationRules, Rule
<1>9. ASSUME tool = "netbox"
      PROVE  Placed(f, "BC") /\ \A k \in DOMAIN delegationRules(tool) : delegationRules(tool)[k].domain = "BC"
  <2>1. f \in netbox(d)
    BY <1>9 DEF Parse
  <2>2. \/ f \in Status("asset", "medium", FALSE, "BC")
        \/ \E i \in d.items : f = F({}, "asset", netboxSeverity(i.criticality), i.active /\ i.criticality # "critical", "BC")
    BY <2>1 DEF netbox
  <2>3. ASSUME NEW i \in d.items, f = F({}, "asset", netboxSeverity(i.criticality), i.active /\ i.criticality # "critical", "BC")
        PROVE  Placed(f, "BC")
    BY <2>3 DEF Placed, F
  <2>4. Placed(f, "BC")
    BY <2>2, <2>3, StatusPlaced
  <2> QED
    BY <1>9, <2>4 DEF delegationRules, Rule
<1>10. ASSUME tool = "snipe_it"
      PROVE  Placed(f, "BC") /\ \A k \in DOMAIN delegationRules(tool) : delegationRules(tool)[k].domain = "BC"
  <2>1. f \in snipe_it(d)
    BY <1>10 DEF Parse
  <2>2. \/ f \in Status("asset", "medium", FALSE, "BC")
        \/ \E sev \in {"info", "low", "critical", "medium"}, passed \in BOOLEAN : f = F({}, "asset", sev, passed, "BC")
    BY <2>1 DEF snipe_it
  <2>4. Placed(f, "BC")
    BY <2>2, FindingPlaced, StatusPlaced
  <2> QED
    BY <1>10, <2>4 DEF delegationRules, Rule
<1>11. ASSUME tool = "freeipa"
      PROVE  Placed(f, "OT") /\ \A k \in DOMAIN delegationRules(tool) : delegationRules(tool)[k].domain = "OT"
  <2>1. f \in freeipa(d)
    BY <1>11 DEF Parse
  <2>2. \/ f \in Status("identity", "medium", FALSE, "OT") \/ f \in Status("identity", "info", TRUE, "OT")
        \/ f = F({"disabled"}, "identity", "medium", FALSE, "OT")
    BY <2>1 DEF freeipa
  <2>4. Placed(f, "OT")
    BY <2>2, FindingPlaced, StatusPlaced
  <2> QED
    BY <1>11, <2>4 DEF delegationRules, Rule
<1>12. ASSUME tool = "keycloak"
      PROVE  Placed(f, "OT") /\ \A k \in DOMAIN delegationRules(tool) : delegationRules(tool)[k].domain = "OT"
  <2>1. f \in keycloak(d)
    BY <1>12 DEF Parse
  <2>2. \/ f \in Status("identity", "none", FALSE, "") \/ f \in Status("identity", "none", TRUE, "OT")
        \/ \E i \in d.items : f = F({}, "identity", "none", i = "enabled", "")
    BY <2>1 DEF keycloak
  <2>3. ASSUME NEW i \in d.items, f = F({}, "identity", "none", i = "enabled", "") PROVE Placed(f, "OT")
    BY <2>3 DEF Placed, F
  <2>4. Placed(f, "OT")
    BY <2>2, <2>3, StatusPlaced
  <2> QED
    BY <1>12, <2>4 DEF delegationRules, Rule
<1>13. ASSUME tool = "wazuh_siem"
      PROVE  Placed(f, "RS") /\ \A k \in DOMAIN delegationRules(tool) : delegationRules(tool)[k].domain = "RS"
  <2>1. f \in wazuh_siem(d)
    BY <1>13 DEF Parse
  <2>4. Placed(f, "RS")
    BY <2>1, FindingPlaced, StatusPlaced DEF wazuh_siem
  <2> QED
    BY <1>13, <2>4 DEF delegationRules, Rule
<1>14. ASSUME tool = "rundeck"
      PROVE  Placed(f, "OT") /\ \A k \in DOMAIN delegationRules(tool) : delegationRules(tool)[k].domain = "OT"
  <2>1. f \in rundeck(d)
    BY <1>14 DEF Parse
  <2>4. Placed(f, "OT")
    BY <2>1, FindingPlaced, StatusPlaced DEF rundeck
  <2> QED
    BY <1>14, <2>4 DEF delegationRules, Rule
<1>15. ASSUME tool = "jira"
      PROVE  Placed(f, "OT") /\ \A k \in DOMAIN delegationRules(tool) : delegationRules(tool)[k].domain = "OT"
  <2>1. f \in jira(d)
    BY <1>15 DEF Parse
  <2>4. Placed(f, "OT")
    BY <2>1, FindingPlaced, StatusPlaced DEF jira
  <2> QED
    BY <1>15, <2>4 DEF delegationRules, Rule
<1>16. ASSUME tool = "terraform"
      PROVE  Placed(f, "OT") /\ \A k \in DOMAIN delegationRules(tool) : delegationRules(tool)[k].domain = "OT"
  <2>1. f \in terraform(d)
    BY <1>16 DEF Parse
  <2>4. Placed(f, "OT")
    BY <2>1, FindingPlaced, StatusPlaced DEF terraform
  <2> QED
    BY <1>16, <2>4 DEF delegationRules, Rule
<1>17. ASSUME tool = "opentofu"
      PROVE  Placed(f, "OT") /\ \A k \in DOMAIN delegationRules(tool) : delegationRules(tool)[k].domain = "OT"
  <2>1. f \in opentofu(d)
    BY <1>17 DEF Parse
  <2>4. Placed(f, "OT")
    BY <2>1, FindingPlaced, StatusPlaced DEF opentofu, terraform
  <2> QED
    BY <1>17, <2>4 DEF delegationRules, Rule
<1> QED
  BY <1>1, <1>2, <1>3, <1>4, <1>5, <1>6, <1>7, <1>8, <1>9, <1>10, <1>11, <1>12, <1>13, <1>14, <1>15, <1>16, <1>17 DEF delegationRules

\* Trivy's misconfigurations name their check and its domain, its vulnerabilities neither.
LEMMA TrivyPlaced ==
    ASSUME NEW d, NEW f \in trivy(d)
    PROVE  /\ {"check", "domain"} \subseteq DOMAIN f
           /\ (f.check = "" /\ f.domain = "") \/ (f.check = "OT-099-T" /\ f.domain = "OT")
<1>1. PICK i \in d.items : f = IF i.kind = "misconfig"
                                THEN [F({}, "misconfiguration", i.sev, FALSE, "OT") EXCEPT !.check = "OT-099-T"]
                                ELSE trivyMap(trivyVuln(i), i.score)
  BY DEF trivy
<1>2. CASE i.kind = "misconfig"
  BY <1>1, <1>2 DEF F
<1>3. CASE i.kind # "misconfig"
  BY <1>1, <1>3 DEF F, trivyVuln, trivyMap
<1> QED
  BY <1>2, <1>3

\* What delegation gives a finding.
LEMMA Delegated ==
    ASSUME NEW tool, NEW f, {"check", "domain"} \subseteq DOMAIN f, delegationRules(tool) # <<>>
    PROVE  \E k \in DOMAIN delegationRules(tool) :
              /\ ApplyDelegation(f, tool).check = OneOf(f.check = "", delegationRules(tool)[k].check, f.check)
              /\ ApplyDelegation(f, tool).domain = OneOf(f.domain = "", delegationRules(tool)[k].domain, f.domain)
<1> DEFINE rules == delegationRules(tool)
           fit == {k \in DOMAIN rules : matchCriteria(f, rules[k])}
           best == CHOOSE k \in fit : \A l \in fit : k <= l
<1>1. DOMAIN rules \in SUBSET {1, 2, 3} /\ DOMAIN rules # {}
  BY RulesOfTool, HasRules
<1>2. fit # {}
  <2>1. PICK k \in DOMAIN rules : rules[k].needs = {}
    BY <1>1, RulesOfTool
  <2>2. matchCriteria(f, rules[k])
    BY <2>1 DEF matchCriteria
  <2> QED
    BY <2>2
<1>3. best \in DOMAIN rules
  <2>1. fit \in SUBSET {1, 2, 3}
    BY <1>1
  <2> HIDE DEF fit
  <2>2. best \in fit
    BY <1>2, <2>1, FirstOfThree
  <2> QED
    BY <2>2 DEF fit
<1>4. ApplyDelegation(f, tool) = [f EXCEPT !.check = OneOf(f.check = "", rules[best].check, f.check),
                                           !.domain = OneOf(f.domain = "", rules[best].domain, f.domain)]
  BY <1>2 DEF ApplyDelegation
<1> HIDE DEF best, rules
<1>5. /\ ApplyDelegation(f, tool).check = OneOf(f.check = "", rules[best].check, f.check)
      /\ ApplyDelegation(f, tool).domain = OneOf(f.domain = "", rules[best].domain, f.domain)
  BY <1>4
<1> QED
  BY <1>3, <1>5 DEF rules

\* A result of a tool with rules counts in the domain of its check.
LEMMA ExecutedPlaced ==
    ASSUME NEW tool, NEW d, NEW g \in ExecuteAdapter(tool, d), delegationRules(tool) # <<>>
    PROVE  /\ g.domain # ""
           /\ g.domain = CheckPrefix(g.check) \/ tool \in {"lynis", "suricata", "osv_scanner"}
<1>1. PICK f \in Parse(tool, d) : g = ApplyDelegation(f, tool)
  BY DEF ExecuteAdapter, DefaultValidate
<1>2. g.domain # ""
  BY DEF ExecuteAdapter, DefaultValidate
<1>3. CASE tool = "trivy"
  <2>1. f \in trivy(d)
    BY <1>1, <1>3 DEF Parse
  <2>2. /\ {"check", "domain"} \subseteq DOMAIN f
        /\ (f.check = "" /\ f.domain = "") \/ (f.check = "OT-099-T" /\ f.domain = "OT")
    BY <2>1, TrivyPlaced
  <2>3. PICK k \in DOMAIN delegationRules(tool) :
            /\ g.check = OneOf(f.check = "", delegationRules(tool)[k].check, f.check)
            /\ g.domain = OneOf(f.domain = "", delegationRules(tool)[k].domain, f.domain)
    BY <1>1, <2>2, Delegated
  <2>4. delegationRules(tool)[k].domain = CheckPrefix(delegationRules(tool)[k].check)
    BY RulesPlaced
  <2>5. CheckPrefix("OT-099-T") = "OT"
    BY DEF CheckPrefix
  <2> QED
    BY <1>2, <2>2, <2>3, <2>4, <2>5 DEF OneOf
<1>4. CASE tool \notin {"trivy", "lynis", "suricata", "osv_scanner"}
  <2>1. PICK dom : Placed(f, dom) /\ \A k \in DOMAIN delegationRules(tool) : delegationRules(tool)[k].domain = dom
    BY <1>4, ParsedPlaced
  <2>2. NoCheck(f)
    BY <1>4, ParsedCheck
  <2>3. {"check", "domain"} \subseteq DOMAIN f /\ f.check = "" /\ f.domain \in {"", dom}
    BY <2>1, <2>2 DEF NoCheck, Placed
  <2>4. PICK k \in DOMAIN delegationRules(tool) :
            /\ g.check = OneOf(f.check = "", delegationRules(tool)[k].check, f.check)
            /\ g.domain = OneOf(f.domain = "", delegationRules(tool)[k].domain, f.domain)
    BY <1>1, <2>3, Delegated
  <2>5. delegationRules(tool)[k].domain = CheckPrefix(delegationRules(tool)[k].check)
    BY RulesPlaced
  <2> QED
    BY <1>2, <2>1, <2>3, <2>4, <2>5 DEF OneOf
<1> QED
  BY <1>2, <1>3, <1>4

\* Whatever a tool says, what is published of it has a domain, that of its check but for the
\* tools whose parser names the domain and whose delegation names the check.
THEOREM FindingsCountWhereTheyBelong ==
    AdaptersInit /\ [][AdaptersNext]_ran => []ChecksInTheirDomain
<1>1. AdaptersInit => ChecksInTheirDomain
  <2> SUFFICES ASSUME AdaptersInit PROVE ChecksInTheirDomain
    OBVIOUS
  <2>1. ran.results = {}
    BY DEF AdaptersInit
  <2> QED
    BY <2>1 DEF ChecksInTheirDomain
<1>2. ChecksInTheirDomain /\ [AdaptersNext]_ran => ChecksInTheirDomain'
  <2> SUFFICES ASSUME ChecksInTheirDomain, [AdaptersNext]_ran PROVE ChecksInTheirDomain'
    OBVIOUS
  <2>1. CASE AdaptersNext
    <3>0. PICK t \in Tools : \E d \in ToolDocs[t] : publishAdapterFindings(t, d)
      BY <2>1 DEF AdaptersNext
    <3>1. PICK d \in ToolDocs[t] : publishAdapterFindings(t, d)
      BY <3>0
    <3>2. (ran').tool = t /\ (ran').results = {ToCheckResult(f) : f \in ExecuteAdapter(t, d)}
      BY <3>1 DEF publishAdapterFindings
    <3>3. ASSUME NEW r \in (ran').results
          PROVE  r.domain # "" /\ (r.domain = CheckPrefix(r.check) \/ t \in {"lynis", "suricata", "osv_scanner", "script"})
      <4>1. PICK f \in ExecuteAdapter(t, d) : r = ToCheckResult(f)
        BY <3>2
      <4>2. r.domain = f.domain /\ r.check = f.check
        BY <4>1 DEF ToCheckResult
      <4>3. f.domain # ""
        BY DEF ExecuteAdapter, DefaultValidate
      <4>4. t = "script" \/ delegationRules(t) # <<>>
        BY AdaptersAssumption DEF Tools, delegationRules, Rule
      <4> QED
        BY <4>2, <4>3, <4>4, ExecutedPlaced
    <3> QED
      BY <3>2, <3>3 DEF ChecksInTheirDomain
  <2>2. CASE UNCHANGED ran
    BY <2>2 DEF ChecksInTheirDomain
  <2> QED
    BY <2>1, <2>2
<1> QED
  BY <1>1, <1>2, PTL
=============================================================================
