------------------------- MODULE DriftHistoryProofs -------------------------
(***************************************************************************)
(* The drift command and the scan loop agree, for any cycles: what is read *)
(* back from a log is what the loop reported when it wrote it.             *)
(***************************************************************************)
EXTENDS DriftHistory, DriftLemmas, SequenceTheorems

HistorySpec == HistoryInit /\ [][HistoryNext]_historyVars

LoggedCycle == [preds : Cycles, time : Nat \ {0}, long : BOOLEAN]

\* What a cycle was compared with.
Before(i) == IF i = 1 THEN NoFingerprint ELSE Mix(i - 1)

\* No two cycles with predictions fall into one second.
Apart == \A i, j \in DOMAIN log :
             i # j /\ log[i].preds # <<>> /\ log[j].preds # <<>> =>
                 Second(log[i].time) # Second(log[j].time)

\* told[i]: the reports of the first i cycles.
Told(told) ==
    /\ DOMAIN told = 0..Len(log) /\ told[0] = <<>>
    /\ \A i \in 1..Len(log) :
           told[i] = Extended(told[i - 1], DetectDrift(Before(i), Mix(i)), log[i].time)
    /\ told[Len(log)] = emitted

\* The cycles are logged in the order of time.
LogInv == /\ log \in Seq(LoggedCycle)
          /\ \A i, j \in DOMAIN log : i < j => log[i].time < log[j].time

Records(e, i) == e.time = log[i].time /\ e.fingerprint = Mix(i)

\* What is left after cycle i was taken: all that is later, nothing earlier.
Left(i) == /\ \A e \in entries : e.time >= log[i].time
           /\ \A j \in DOMAIN log : j > i => \E e \in entries : Records(e, j)

\* Before the first entry is taken, and when the last one taken is of cycle i.
Unread == /\ last = Nobody /\ reports = <<>>
          /\ \A j \in DOMAIN log : \E e \in entries : Records(e, j)

UpTo(told, i) == /\ last.time = log[i].time /\ last.fingerprint = Mix(i)
                 /\ last # Nobody
                 /\ reports = told[i]
                 /\ Left(i)

\* The command has gone through the reports of the cycles whose entries it took.
ReadInv(told) ==
    source = "log" /\ outcome # "no_data" /\ Apart =>
        /\ \A e \in entries : \E j \in DOMAIN log : Records(e, j)
        /\ Unread \/ \E i \in DOMAIN log : UpTo(told, i)
        /\ outcome = "reports" => entries = {}

HistoryInv == /\ LogInv
              /\ source = "none" => last = Nobody /\ reports = <<>> /\ outcome = "open"
              /\ \E told : Told(told) /\ ReadInv(told)
-----------------------------------------------------------------------------
(* Fingerprints.                                                           *)

\* The predictions of a cycle are finitely many.
LEMMA CyclesAreFinite ==
    ASSUME NEW preds \in Cycles
    PROVE  /\ preds \in Seq(Cats \cup {Unknown})
           /\ IsFiniteSet(DOMAIN preds)
<1>1. preds \in Seq(Cats \cup {Unknown}) /\ Len(preds) \in Nat /\ DOMAIN preds = 1..Len(preds)
    BY CyclesAssumption
<1> QED
    BY <1>1, FS_Interval

\* Predictions under other keys make the same fingerprint.
LEMMA RenamedPredictionsCountAlike ==
    ASSUME NEW preds, IsFiniteSet(DOMAIN preds), NEW pairs,
           NEW name \in Bijection(DOMAIN preds, DOMAIN pairs),
           \A p \in DOMAIN preds : pairs[name[p]] = preds[p]
    PROVE  ComputeNodeFingerprint(pairs) = ComputeNodeFingerprint(preds)
<1>1. ASSUME NEW T \in SUBSET DOMAIN preds, NEW U \in SUBSET DOMAIN pairs,
             \A p \in DOMAIN preds : p \in T <=> name[p] \in U
      PROVE  Cardinality(U) = Cardinality(T)
    <2> DEFINE f == [p \in T |-> name[p]]
    <2>1. f \in Bijection(T, U)
        BY <1>1 DEF Bijection, Injection, Surjection, IsInjective
    <2>2. IsFiniteSet(T)
        BY FS_Subset
    <2> QED
        BY <2>1, <2>2, FS_Bijection DEF ExistsBijection
<1>2. \A p \in DOMAIN preds : name[p] \in DOMAIN pairs
    BY DEF Bijection, Injection
<1>3. ASSUME NEW c \in Cats
      PROVE  Count(pairs, c) = Count(preds, c)
    <2> PICK T \in SUBSET DOMAIN preds : T = {p \in DOMAIN preds : preds[p] = c}
        OBVIOUS
    <2> PICK U \in SUBSET DOMAIN pairs : U = {q \in DOMAIN pairs : pairs[q] = c}
        OBVIOUS
    <2>1. \A p \in DOMAIN preds : p \in T <=> name[p] \in U
        BY <1>2
    <2> QED
        BY <1>1, <2>1 DEF Count
<1>4. Classified(pairs) = Classified(preds)
    <2> PICK T \in SUBSET DOMAIN preds : T = {p \in DOMAIN preds : preds[p] # Unknown}
        OBVIOUS
    <2> PICK U \in SUBSET DOMAIN pairs : U = {q \in DOMAIN pairs : pairs[q] # Unknown}
        OBVIOUS
    <2>1. \A p \in DOMAIN preds : p \in T <=> name[p] \in U
        BY <1>2
    <2> QED
        BY <1>1, <2>1 DEF Classified
<1>5. Cardinality(DOMAIN pairs) = Cardinality(DOMAIN preds)
    BY <1>1, <1>2
<1> QED
    BY <1>3, <1>4, <1>5 DEF ComputeNodeFingerprint
-----------------------------------------------------------------------------
(* What is found in a log.                                                 *)

\* The lines of a log.
LEMMA LogLines ==
    ASSUME LogInv
    PROVE  /\ Len(log) \in Nat /\ DOMAIN log = 1..Len(log)
           /\ \A i \in DOMAIN log : /\ i \in Nat /\ log[i].preds \in Cycles
                                    /\ log[i].time \in Nat \ {0}
<1>1. log \in Seq(LoggedCycle)
    BY DEF LogInv
<1>2. Len(log) \in Nat /\ DOMAIN log = 1..Len(log) /\ \A i \in 1..Len(log) : log[i] \in LoggedCycle
    BY <1>1
<1> QED
    BY <1>2 DEF LoggedCycle

\* A log without lines.
LEMMA NothingLogged == LogInv /\ Len(log) = 0 => log = <<>>
<1>1. LogInv => log \in Seq(LoggedCycle)
    BY DEF LogInv
<1> QED
    BY <1>1, EmptySeq

\* The predictions of a second are those of one cycle.
LEMMA GroupRecordsItsCycle ==
    ASSUME LogInv, Apart, NEW j \in DOMAIN log, log[j].preds # <<>>
    PROVE  Records(Group(Second(log[j].time)), j)
<1> PICK n : n = Second(log[j].time)
    OBVIOUS
<1> PICK preds : preds = log[j].preds
    OBVIOUS
<1>1. InSecond(n) = {j}
    BY DEF InSecond, Apart
<1>2. (CHOOSE i \in InSecond(n) : \A k \in InSecond(n) : k <= i) = j
    <2>1. j <= j
        BY LogLines
    <2> QED
        BY <1>1, <2>1
<1>3. Group(n).time = log[j].time
    BY <1>2 DEF Group
<1>4. Lines(n) = {<<j, p>> : p \in DOMAIN preds}
    BY <1>1 DEF Lines
<1>5. PICK pairs : pairs = [line \in Lines(n) |-> log[line[1]].preds[line[2]]]
    OBVIOUS
<1>6. IsFiniteSet(DOMAIN preds)
    BY CyclesAreFinite, LogLines
<1>7. ComputeNodeFingerprint(pairs) = ComputeNodeFingerprint(preds)
    <2> DEFINE name == [p \in DOMAIN preds |-> <<j, p>>]
    <2>1. name \in Bijection(DOMAIN preds, DOMAIN pairs)
        BY <1>4, <1>5 DEF Bijection, Injection, Surjection, IsInjective
    <2>2. \A p \in DOMAIN preds : pairs[name[p]] = preds[p]
        BY <1>4, <1>5
    <2> HIDE DEF name
    <2> QED
        BY <1>6, <2>1, <2>2, RenamedPredictionsCountAlike
<1>8. Group(n).fingerprint = Mix(j)
    BY <1>5, <1>7 DEF Group, Mix
<1> QED
    BY <1>3, <1>8 DEF Records

\* Every entry records a cycle, and every cycle is recorded.
LEMMA EntriesRecordCycles ==
    ASSUME LogInv, Apart
    PROVE  /\ \A e \in Envelopes \cup Groups : \E j \in DOMAIN log : Records(e, j)
           /\ \A j \in DOMAIN log : \E e \in Envelopes \cup Groups : Records(e, j)
<1>1. ASSUME NEW e \in Envelopes
      PROVE  \E j \in DOMAIN log : Records(e, j)
    BY DEF Envelopes, Records, Mix
<1>2. ASSUME NEW e \in Groups
      PROVE  \E j \in DOMAIN log : Records(e, j)
    <2>1. PICK m \in {Second(log[i].time) : i \in DOMAIN log} :
              InSecond(m) # {} /\ e = Group(m)
        BY DEF Groups
    <2>2. PICK j \in DOMAIN log : Second(log[j].time) = m /\ log[j].preds # <<>>
        BY <2>1 DEF InSecond
    <2> QED
        BY <2>1, <2>2, GroupRecordsItsCycle
<1>3. ASSUME NEW j \in DOMAIN log
      PROVE  \E e \in Envelopes : Records(e, j)
    <2> DEFINE e == [kind |-> "envelope", fingerprint |-> Mix(j), time |-> log[j].time]
    <2>1. e \in Envelopes
        BY DEF Envelopes, Mix
    <2> QED
        BY <2>1 DEF Records
<1> QED
    BY <1>1, <1>2, <1>3

-----------------------------------------------------------------------------
(* The steps.                                                              *)

\* Nothing is logged at first.
LEMMA HistoryInvInit == HistoryInit => HistoryInv
<1> SUFFICES ASSUME HistoryInit PROVE HistoryInv
    OBVIOUS
<1> USE DEF HistoryInit, HistoryAt
<1>1. LogInv
    BY DEF LogInv
<1> DEFINE told == [i \in 0..0 |-> <<>>]
<1>2. Told(told) /\ ReadInv(told)
    BY DEF Told, ReadInv
<1> QED
    BY <1>1, <1>2 DEF HistoryInv

\* The log grows in the order of time.
LEMMA LogGrows ==
    ASSUME LogInv,
           NEW preds \in Cycles, NEW pause \in 1..2, NEW long \in BOOLEAN,
           LogCycle(preds, pause, long)
    PROVE  /\ LogInv'
           /\ Len(log) \in Nat /\ DOMAIN log = 1..Len(log)
           /\ Len(log') = Len(log) + 1 /\ DOMAIN log' = 1..(Len(log) + 1)
           /\ \A i \in 1..Len(log) : log'[i] = log[i]
           /\ log'[Len(log) + 1] = [preds |-> preds, time |-> LastTime + pause, long |-> long]
<1> DEFINE line == [preds |-> preds, time |-> LastTime + pause, long |-> long]
<1>1. log' = Append(log, line) /\ log \in Seq(LoggedCycle)
    BY DEF LogCycle, LogInv
<1>2. Len(log) \in Nat /\ DOMAIN log = 1..Len(log)
    BY <1>1
<1>3. LastTime \in Nat /\ \A i \in DOMAIN log : log[i].time <= LastTime
    <2>1. CASE log = <<>>
        BY <2>1 DEF LastTime
    <2>2. CASE log # <<>>
        <3>1. Len(log) \in DOMAIN log /\ log[Len(log)] \in LoggedCycle
            BY <1>1, <1>2, <2>2
        <3>2. LastTime = log[Len(log)].time /\ LastTime \in Nat
            BY <2>2, <3>1 DEF LastTime, LoggedCycle
        <3>3. ASSUME NEW i \in DOMAIN log
              PROVE  log[i].time <= log[Len(log)].time
            <4>1. log[i].time \in Nat
                BY LogLines
            <4>2. i = Len(log) \/ i < Len(log)
                BY <1>2
            <4> QED
                BY <4>1, <4>2, <3>1, <3>2 DEF LogInv
        <3> QED
            BY <3>2, <3>3
    <2> QED
        BY <2>1, <2>2
<1>4. line \in LoggedCycle /\ line.time > LastTime
    BY <1>3 DEF LoggedCycle
<1> HIDE DEF line
<1>5. /\ Len(log') = Len(log) + 1 /\ DOMAIN log' = 1..(Len(log) + 1)
      /\ \A i \in 1..Len(log) : log'[i] = log[i]
      /\ log'[Len(log) + 1] = line /\ log' \in Seq(LoggedCycle)
    BY <1>1, <1>2, <1>4
<1>6. ASSUME NEW i \in DOMAIN log', NEW j \in DOMAIN log', i < j
      PROVE  log'[i].time < log'[j].time
    <2>1. i \in DOMAIN log /\ log'[i] = log[i] /\ log[i].time \in Nat
        BY <1>2, <1>5, <1>6, LogLines
    <2>2. CASE j \in DOMAIN log
        BY <1>2, <1>5, <1>6, <2>1, <2>2 DEF LogInv
    <2>3. CASE j = Len(log) + 1
        <3>1. log'[j] = line /\ line.time \in Nat
            BY <1>4, <1>5, <2>3 DEF LoggedCycle
        <3> QED
            BY <1>3, <1>4, <2>1, <3>1
    <2> QED
        BY <1>2, <1>5, <2>2, <2>3
<1>7. LogInv'
    BY <1>5, <1>6 DEF LogInv
<1> QED
    BY <1>2, <1>5, <1>7 DEF line

\* A cycle adds its report to those of the cycles before it.
LEMMA LogCycleStep ==
    ASSUME HistoryInv,
           NEW preds \in Cycles, NEW pause \in 1..2, NEW long \in BOOLEAN,
           LogCycle(preds, pause, long)
    PROVE  HistoryInv'
<1>1. PICK told : Told(told)
    BY DEF HistoryInv
<1> PICK n : n = Len(log)
    OBVIOUS
<1> PICK more : more = [i \in 0..(n + 1) |-> IF i = n + 1 THEN emitted' ELSE told[i]]
    OBVIOUS
<1>2. LogInv /\ source = "none" /\ UNCHANGED <<source, entries, last, reports, outcome>>
    BY DEF HistoryInv, LogCycle
<1>3. /\ LogInv' /\ n \in Nat /\ Len(log') = n + 1
      /\ \A i \in 1..n : log'[i] = log[i]
      /\ log'[n + 1].preds = preds /\ log'[n + 1].time = LastTime + pause
    <2>1. log'[n + 1] = [preds |-> preds, time |-> LastTime + pause, long |-> long]
        BY <1>2, LogGrows
    <2> QED
        BY <1>2, <2>1, LogGrows
<1>4. \A i \in 1..n : Mix(i)' = Mix(i) /\ Before(i)' = Before(i)
    BY <1>3 DEF Mix, Before
<1>5. Mix(n + 1)' = ComputeNodeFingerprint(preds) /\ Before(n + 1)' = PreviousFingerprint
    <2>1. Mix(n + 1)' = ComputeNodeFingerprint(preds)
        BY <1>3 DEF Mix
    <2>2. CASE n = 0
        <3>1. log = <<>>
            BY <1>2, <2>2, NothingLogged
        <3> QED
            BY <2>1, <2>2, <3>1 DEF Before, PreviousFingerprint
    <2>3. CASE n # 0
        <3>1. log # <<>> /\ n + 1 # 1 /\ (n + 1) - 1 = n /\ n \in 1..n
            BY <1>3, <2>3
        <3>2. Before(n + 1)' = ComputeNodeFingerprint(log'[n].preds)
            BY <3>1 DEF Before, Mix
        <3> QED
            BY <1>3, <2>1, <3>1, <3>2 DEF PreviousFingerprint, Mix
    <2> QED
        BY <2>1, <2>2, <2>3
<1>6. emitted' = Extended(emitted, DetectDrift(PreviousFingerprint, ComputeNodeFingerprint(preds)),
                          LastTime + pause)
    BY DEF LogCycle
<1>7. Told(more)'
    <2>1. /\ DOMAIN more = 0..(n + 1) /\ more[0] = <<>> /\ more[n + 1] = emitted'
          /\ more[n] = emitted /\ \A i \in 0..n : more[i] = told[i]
        BY <1>1, <1>3 DEF Told
    <2>2. ASSUME NEW i \in 1..n
          PROVE  more[i] = Extended(more[i - 1], DetectDrift(Before(i)', Mix(i)'), log'[i].time)
        <3>1. i - 1 \in 0..n /\ i \in 0..n
            BY <1>3
        <3>2. told[i] = Extended(told[i - 1], DetectDrift(Before(i), Mix(i)), log[i].time)
            BY <1>1 DEF Told
        <3> QED
            BY <1>3, <1>4, <2>1, <3>1, <3>2
    <2>3. more[n + 1] = Extended(more[n], DetectDrift(Before(n + 1)', Mix(n + 1)'),
                                 log'[n + 1].time)
        BY <1>3, <1>5, <1>6, <2>1
    <2>4. \A i \in 1..(n + 1) : i \in 1..n \/ (i = n + 1 /\ i - 1 = n)
        BY <1>3
    <2>5. \A i \in 1..(n + 1) :
              more[i] = Extended(more[i - 1], DetectDrift(Before(i)', Mix(i)'), log'[i].time)
        BY <2>2, <2>3, <2>4
    <2> QED
        BY <1>3, <2>1, <2>5 DEF Told
<1>8. ReadInv(more)'
    BY <1>2 DEF ReadInv
<1> QED
    BY <1>2, <1>3, <1>7, <1>8 DEF HistoryInv

\* What is told of a log does not change when it is read.
LEMMA ToldStays ==
    ASSUME NEW told, Told(told), UNCHANGED <<log, emitted>>
    PROVE  Told(told)'
BY DEF Told, Mix, Before

\* The command finds every cycle in the log, or it has no data.
LEMMA CallStep ==
    ASSUME HistoryInv, ReadLog \/ ScannerStops \/ ReadState \/ CannotRead
    PROVE  HistoryInv'
<1>1. PICK told : Told(told)
    BY DEF HistoryInv
<1>2. /\ UNCHANGED <<log, emitted, last, reports>>
      /\ source = "none" /\ source' \in {"log", "state"}
    BY DEF ReadLog, ScannerStops, ReadState, CannotRead, Call
<1>3. LogInv' /\ Told(told)'
    BY <1>1, <1>2, ToldStays DEF HistoryInv, LogInv
<1>4. ReadInv(told)'
    <2> SUFFICES ASSUME source' = "log", outcome' # "no_data", Apart'
                 PROVE  /\ \A e \in entries' : \E j \in DOMAIN log' : Records(e, j)'
                        /\ Unread'
                        /\ outcome' = "reports" => entries' = {}
        BY DEF ReadInv
    <2>1. entries' = Envelopes \cup Groups /\ outcome' = "open"
        BY DEF ReadLog, ScannerStops, ReadState, CannotRead, Call, Enough
    <2>2. Apart /\ LogInv
        BY <1>2 DEF Apart, HistoryInv
    <2>3. /\ \A e \in entries' : \E j \in DOMAIN log : Records(e, j)
          /\ \A j \in DOMAIN log : \E e \in entries' : Records(e, j)
        BY <2>1, <2>2, EntriesRecordCycles
    <2>4. \A e : \A j : Records(e, j)' <=> Records(e, j)
        BY <1>2 DEF Records, Mix
    <2>5. last' = Nobody /\ reports' = <<>>
        BY <1>2 DEF HistoryInv
    <2> QED
        BY <1>2, <2>1, <2>3, <2>4, <2>5 DEF Unread
<1> QED
    BY <1>2, <1>3, <1>4 DEF HistoryInv

\* After an entry of cycle j is taken, what is left is no earlier, and has all of
\* the later cycles if it had them before.
LEMMA TakeEarliest ==
    ASSUME LogInv, UNCHANGED log, NEW e \in entries, Earliest(e), entries' = entries \ {e},
           \A f \in entries : \E k \in DOMAIN log : Records(f, k),
           NEW j \in DOMAIN log, Records(e, j),
           \A k \in DOMAIN log : k > j => \E f \in entries : Records(f, k)
    PROVE  Left(j)'
<1>1. \A f : \A k : Records(f, k)' <=> Records(f, k)
    BY DEF Records, Mix
<1>2. ASSUME NEW f \in entries'
      PROVE  f.time >= log[j].time
    <2>1. PICK k \in DOMAIN log : Records(f, k)
        OBVIOUS
    <2>2. log[j].time \in Nat /\ log[k].time \in Nat
        BY LogLines
    <2>3. e.time <= f.time
        BY DEF Earliest
    <2> QED
        BY <2>1, <2>2, <2>3 DEF Records
<1>3. ASSUME NEW k \in DOMAIN log, k > j
      PROVE  \E f \in entries' : Records(f, k)
    <2>1. PICK f \in entries : Records(f, k)
        BY <1>3
    <2>2. log[j].time < log[k].time /\ log[j].time \in Nat /\ log[k].time \in Nat
              /\ j \in Nat /\ k \in Nat
        BY <1>3, LogLines DEF LogInv
    <2>3. f # e
        BY <2>1, <2>2 DEF Records
    <2> QED
        BY <2>1, <2>3
<1> QED
    BY <1>1, <1>2, <1>3 DEF Left

\* An entry is compared with one of the same cycle or of the cycle before it.
LEMMA CompareStep ==
    ASSUME HistoryInv, NEW e \in entries, Compare(e)
    PROVE  HistoryInv'
<1>1. PICK told : Told(told) /\ ReadInv(told)
    BY DEF HistoryInv
<1>2. /\ UNCHANGED <<log, emitted, source, outcome>>
      /\ source # "none" /\ outcome = "open" /\ Earliest(e)
      /\ entries' = entries \ {e} /\ last' = e
      /\ reports' = IF last = Nobody THEN reports
                    ELSE Extended(reports, DetectDrift(last.fingerprint, e.fingerprint), e.time)
    BY DEF Compare
<1>3. LogInv /\ LogInv' /\ Told(told)'
    BY <1>1, <1>2, ToldStays DEF HistoryInv, LogInv
<1>4. ReadInv(told)'
    <2> SUFFICES ASSUME source = "log", Apart
                 PROVE  /\ \A f \in entries' : \E k \in DOMAIN log' : Records(f, k)'
                        /\ \E k \in DOMAIN log' : UpTo(told, k)'
        BY <1>2 DEF ReadInv, Apart
    <2>1. /\ \A f \in entries : \E k \in DOMAIN log : Records(f, k)
          /\ Unread \/ \E i \in DOMAIN log : UpTo(told, i)
        BY <1>1, <1>2 DEF ReadInv
    <2>2. PICK j \in DOMAIN log : Records(e, j)
        BY <2>1
    <2>3. \A f : \A k : Records(f, k)' <=> Records(f, k)
        BY <1>2 DEF Records, Mix
    <2>4. e # Nobody
        BY <2>2, LogLines, <1>3 DEF Records, Nobody
    <2>5. ASSUME Left(j)', reports' = told[j]
          PROVE  UpTo(told, j)'
        BY <1>2, <2>2, <2>4, <2>5 DEF UpTo, Records, Mix
    <2>6. \A k \in DOMAIN log : log[k].time \in Nat /\ k \in 1..Len(log) /\ Len(log) \in Nat
        BY LogLines, <1>3
    <2>7. \A k, m \in DOMAIN log : log[k].time <= log[m].time => k <= m
        BY <1>3, <2>6 DEF LogInv
    <2>8. \A k \in DOMAIN log : \A f \in entries : Records(f, k) => j <= k
        BY <1>2, <2>2, <2>6, <2>7 DEF Earliest, Records
    <2>9. CASE Unread
        <3>1. \A k \in DOMAIN log : \E f \in entries : Records(f, k)
            BY <2>9 DEF Unread
        <3>2. 1 \in DOMAIN log /\ j <= 1
            BY <1>3, <2>6, <2>8, <3>1, LogLines
        <3>3. j = 1
            BY <2>6, <3>2
        <3>4. reports' = <<>>
            BY <1>2, <2>9 DEF Unread
        <3>5. told[1] = Extended(told[0], DetectDrift(NoFingerprint, Mix(1)), log[1].time)
            BY <1>1, <2>6, <3>2 DEF Told, Before
        <3>6. told[1] = <<>>
            BY <1>1, <3>5, EmptyIsNoBaseline DEF Told, Extended
        <3>7. Left(j)'
            BY <1>2, <1>3, <2>1, <2>2, <3>1, TakeEarliest
        <3>8. UpTo(told, j)'
            BY <2>5, <3>3, <3>4, <3>6, <3>7
        <3> QED
            BY <1>2, <2>1, <2>3, <3>8
    <2>10. ASSUME NEW i \in DOMAIN log, UpTo(told, i)
           PROVE  UpTo(told, j)'
        <3>1. /\ last # Nobody /\ last.fingerprint = Mix(i) /\ reports = told[i]
              /\ log[i].time <= log[j].time
            BY <2>2, <2>6, <2>10 DEF UpTo, Left, Records
        <3>2. i <= j
            BY <2>7, <3>1
        <3>3. \A k \in DOMAIN log : k > i => \E f \in entries : Records(f, k)
            BY <2>10 DEF UpTo, Left
        <3>4. Left(j)'
            <4>1. \A k \in DOMAIN log : k > j => \E f \in entries : Records(f, k)
                BY <2>6, <3>2, <3>3
            <4> QED
                BY <1>2, <1>3, <2>1, <2>2, <4>1, TakeEarliest
        <3>5. reports' = Extended(told[i], DetectDrift(Mix(i), Mix(j)), log[j].time)
            BY <1>2, <2>2, <3>1 DEF Records
        <3>6. CASE i = j
            <4>1. IsFingerprint(Mix(i))
                BY LogLines, <1>3, CyclesAreFinite, ComputedIsFingerprint DEF Mix
            <4>2. DetectDrift(Mix(i), Mix(j)) = NoReport
                BY <3>6, <4>1, SameMixNoDrift
            <4>3. reports' = told[j]
                BY <3>5, <3>6, <4>2 DEF Extended
            <4> QED
                BY <2>5, <3>4, <4>3
        <3>7. CASE i # j
            <4>1. i + 1 \in DOMAIN log /\ i + 1 > i
                BY <1>3, <2>6, <3>2, <3>7, LogLines
            <4>2. j <= i + 1
                BY <2>8, <3>3, <4>1
            <4>3. j = i + 1 /\ j # 1 /\ j - 1 = i /\ j \in 1..Len(log)
                BY <2>6, <3>2, <3>7, <4>2
            <4>4. Before(j) = Mix(i)
                BY <4>3 DEF Before
            <4>5. told[j] = Extended(told[j - 1], DetectDrift(Before(j), Mix(j)), log[j].time)
                BY <1>1, <4>3 DEF Told
            <4>6. reports' = told[j]
                BY <3>5, <4>3, <4>4, <4>5
            <4> QED
                BY <2>5, <3>4, <4>6
        <3> QED
            BY <3>6, <3>7
    <2> QED
        BY <1>2, <2>1, <2>3, <2>9, <2>10
<1> QED
    BY <1>2, <1>3, <1>4 DEF HistoryInv

\* Nothing changes when the reports are printed.
LEMMA PrintStep ==
    ASSUME HistoryInv, PrintReports
    PROVE  HistoryInv'
<1>1. PICK told : Told(told) /\ ReadInv(told)
    BY DEF HistoryInv
<1>2. /\ UNCHANGED <<log, emitted, source, entries, last, reports>>
      /\ source # "none" /\ outcome = "open" /\ entries = {}
    BY DEF PrintReports
<1>3. Told(told)' /\ LogInv'
    BY <1>1, <1>2, ToldStays DEF HistoryInv, LogInv
<1>4. ReadInv(told)'
    BY <1>1, <1>2 DEF ReadInv, Apart, Records, Mix, Unread, UpTo, Left
<1> QED
    BY <1>2, <1>3, <1>4 DEF HistoryInv

\* Every step keeps the invariant.
LEMMA HistoryInductive == HistoryInv /\ [HistoryNext]_historyVars => HistoryInv'
<1> SUFFICES ASSUME HistoryInv, [HistoryNext]_historyVars PROVE HistoryInv'
    OBVIOUS
<1>1. CASE UNCHANGED historyVars
    <2>1. PICK told : Told(told) /\ ReadInv(told)
        BY DEF HistoryInv
    <2>2. UNCHANGED <<log, emitted, source, entries, last, reports, outcome>>
        BY <1>1 DEF historyVars
    <2>3. Told(told)' /\ LogInv'
        BY <2>1, <2>2, ToldStays DEF HistoryInv, LogInv
    <2>4. ReadInv(told)'
        BY <2>1, <2>2 DEF ReadInv, Apart, Records, Mix, Unread, UpTo, Left
    <2> QED
        BY <2>2, <2>3, <2>4 DEF HistoryInv
<1>2. ASSUME NEW preds \in Cycles, NEW pause \in 1..2, NEW long \in BOOLEAN,
             LogCycle(preds, pause, long)
      PROVE  HistoryInv'
    BY <1>2, LogCycleStep
<1>3. ASSUME NEW e \in entries, Compare(e)
      PROVE  HistoryInv'
    BY <1>3, CompareStep
<1> QED
    BY <1>1, <1>2, <1>3, CallStep, PrintStep DEF HistoryNext, HistoryDone

\* When every entry was taken, the last one was of the last cycle.
LEMMA AllIsTold == HistoryInv => HistoryAgreesWithStream
<1> SUFFICES ASSUME HistoryInv, source = "log", outcome = "reports", Apart
             PROVE  reports = emitted
    BY DEF HistoryAgreesWithStream, Apart
<1>1. PICK told : Told(told) /\ ReadInv(told)
    BY DEF HistoryInv
<1>2. entries = {} /\ (Unread \/ \E i \in DOMAIN log : UpTo(told, i))
    BY <1>1 DEF ReadInv
<1>3. Len(log) \in Nat /\ DOMAIN log = 1..Len(log)
    BY LogLines DEF HistoryInv
<1>4. CASE Unread
    <2>1. Len(log) = 0
        BY <1>2, <1>3, <1>4 DEF Unread
    <2> QED
        BY <1>1, <1>4, <2>1 DEF Told, Unread
<1>5. ASSUME NEW i \in DOMAIN log, UpTo(told, i)
      PROVE  reports = emitted
    <2>1. ~(Len(log) > i)
        BY <1>2, <1>3, <1>5 DEF UpTo, Left
    <2>2. i = Len(log)
        BY <1>3, <2>1
    <2> QED
        BY <1>1, <1>5, <2>2 DEF Told, UpTo
<1> QED
    BY <1>2, <1>4, <1>5

\* Reading a log back gives the reports that the loop printed when it wrote it.
THEOREM HistoryIsTheStream == HistorySpec => []HistoryAgreesWithStream
BY HistoryInvInit, HistoryInductive, AllIsTold, PTL DEF HistorySpec

-----------------------------------------------------------------------------
(* Types and sizes.                                                        *)

IsSequence(s) == \E S : s \in Seq(S)

\* No more is printed and left than was found, and no more is emitted than logged.
SizeInv ==
    /\ Len(log) <= MaxCycles
    /\ IsSequence(emitted) /\ Len(emitted) <= Len(log)
    /\ source \in {"none", "log", "state"} /\ outcome \in {"open", "no_data", "reports"}
    /\ source = "none" => entries = {} /\ reports = <<>>
    /\ outcome = "reports" => entries = {}
    /\ IsFiniteSet(entries) /\ IsSequence(reports)
    /\ source # "none" => Len(reports) + Cardinality(entries)
                              <= Cardinality(Envelopes) + Cardinality(Groups)

\* A report more, or none.
LEMMA ExtendedByOne ==
    ASSUME NEW found, IsSequence(found), NEW report, NEW time
    PROVE  LET longer == Extended(found, report, time)
           IN  /\ IsSequence(longer) /\ Len(found) \in Nat
               /\ Len(longer) \in {Len(found), Len(found) + 1}
<1>1. PICK S : found \in Seq(S)
    BY DEF IsSequence
<1>2. PICK x, T : x = [report |-> report, time |-> time] /\ T = S \cup {x}
    OBVIOUS
<1>3. x \in T /\ found \in Seq(T)
    BY <1>1, <1>2
<1>4. Append(found, x) \in Seq(T) /\ Len(Append(found, x)) = Len(found) + 1
    BY <1>3
<1>5. Extended(found, report, time) \in {found, Append(found, x)}
    BY <1>2 DEF Extended
<1> QED
    BY <1>1, <1>4, <1>5 DEF IsSequence

\* What is made of finitely many is finite.
LEMMA FiniteImage ==
    ASSUME NEW S, IsFiniteSet(S), NEW f, DOMAIN f = S
    PROVE  IsFiniteSet({f[x] : x \in S})
<1> DEFINE T == {f[x] : x \in S}
           g == [x \in S |-> f[x]]
<1>1. g \in Surjection(S, T)
    BY DEF Surjection
<1> QED
    BY <1>1, FS_Surjection

\* A log has finitely many entries.
LEMMA FewFound ==
    ASSUME LogInv
    PROVE  IsFiniteSet(Envelopes) /\ IsFiniteSet(Groups)
<1>1. IsFiniteSet(DOMAIN log)
    BY LogLines, FS_Interval
<1>2. IsFiniteSet(Envelopes)
    <2>1. PICK f : f = [i \in DOMAIN log |->
                           [kind |-> "envelope", fingerprint |-> Mix(i), time |-> log[i].time]]
        OBVIOUS
    <2>2. Envelopes = {f[i] : i \in DOMAIN log} /\ DOMAIN f = DOMAIN log
        BY <2>1 DEF Envelopes
    <2> HIDE <2>1
    <2> QED
        BY <1>1, <2>2, FiniteImage
<1>3. IsFiniteSet(Groups)
    <2>1. PICK times : times = {Second(log[i].time) : i \in DOMAIN log}
        OBVIOUS
    <2>2. IsFiniteSet(times)
        <3>1. PICK f : f = [i \in DOMAIN log |-> Second(log[i].time)]
            OBVIOUS
        <3>2. times = {f[i] : i \in DOMAIN log}
            BY <2>1, <3>1
        <3> QED
            BY <1>1, <3>1, <3>2, FiniteImage
    <2>3. PICK some \in SUBSET times : some = {m \in times : InSecond(m) # {}}
        OBVIOUS
    <2>4. PICK f : f = [n \in some |-> Group(n)]
        OBVIOUS
    <2>5. Groups = {f[n] : n \in some}
        BY <2>1, <2>3, <2>4 DEF Groups
    <2> QED
        BY <2>2, <2>4, <2>5, FS_Subset, FiniteImage
<1> QED
    BY <1>2, <1>3

\* What a file of cycles has is no more than their envelopes.
LEMMA StateEntries ==
    ASSUME LogInv, NEW some \in SUBSET DOMAIN log, NEW listed,
           listed = {[kind |-> "state", time |-> log[i].time,
                      fingerprint |-> Mix(i)] : i \in some}
    PROVE  IsFiniteSet(listed) /\ Cardinality(listed) <= Cardinality(Envelopes)
<1> DEFINE f == [e \in listed |-> [kind |-> "envelope", time |-> e.time,
                                   fingerprint |-> e.fingerprint]]
<1>1. \A e \in listed : f[e] \in Envelopes
    BY DEF Envelopes
<1>2. \A e, g \in listed : f[e] = f[g] => e = g
    <2> SUFFICES ASSUME NEW e \in listed, NEW g \in listed, f[e] = f[g] PROVE e = g
        OBVIOUS
    <2>1. f[e].time = e.time /\ f[e].fingerprint = e.fingerprint
        OBVIOUS
    <2>2. f[g].time = g.time /\ f[g].fingerprint = g.fingerprint
        OBVIOUS
    <2>3. /\ e = [kind |-> "state", time |-> e.time, fingerprint |-> e.fingerprint]
          /\ g = [kind |-> "state", time |-> g.time, fingerprint |-> g.fingerprint]
        OBVIOUS
    <2> HIDE DEF f
    <2> QED
        BY <2>1, <2>2, <2>3
<1>3. f \in Injection(listed, Envelopes)
    BY <1>1, <1>2 DEF Injection, IsInjective
<1> HIDE DEF f
<1> QED
    BY <1>3, FewFound, FS_Injection

\* The command finds its entries, or none.
LEMMA CallSize ==
    ASSUME HistoryInv, SizeInv, ReadLog \/ ScannerStops \/ ReadState \/ CannotRead
    PROVE  SizeInv'
<1>1. /\ UNCHANGED <<log, emitted, last, reports>>
      /\ source = "none" /\ source' \in {"log", "state"}
      /\ outcome' \in {"open", "no_data"}
    BY DEF ReadLog, ScannerStops, ReadState, CannotRead, Call, Enough
<1>2. Envelopes' = Envelopes /\ Groups' = Groups
    BY <1>1 DEF Envelopes, Mix, Groups, Group, InSecond, Lines
<1>3. /\ IsFiniteSet(Envelopes) /\ Cardinality(Envelopes) \in Nat
      /\ IsFiniteSet(Groups) /\ Cardinality(Groups) \in Nat
    BY FewFound, FS_CardinalityType DEF HistoryInv
<1>4. /\ IsFiniteSet(entries') /\ Cardinality(entries') \in Nat
      /\ Cardinality(entries') <= Cardinality(Envelopes) + Cardinality(Groups)
    <2>1. CASE entries' = {}
        BY <1>3, <2>1, FS_EmptySet
    <2>2. CASE entries' = Envelopes \cup Groups
        <3>1. /\ IsFiniteSet(Envelopes \cup Groups)
              /\ Cardinality(Envelopes \cup Groups) =
                     Cardinality(Envelopes) + Cardinality(Groups)
                     - Cardinality(Envelopes \cap Groups)
            BY <1>3, FS_Union
        <3>2. Cardinality(Envelopes \cap Groups) \in Nat
            BY <1>3, FS_Subset, FS_CardinalityType
        <3> QED
            BY <1>3, <2>2, <3>1, <3>2, FS_CardinalityType
    <2>3. CASE ReadState
        <3>1. PICK some \in SUBSET DOMAIN log :
                  entries' = {[kind |-> "state", time |-> log[i].time,
                               fingerprint |-> Mix(i)] : i \in some}
            BY <2>3 DEF ReadState, Call
        <3>2. IsFiniteSet(entries') /\ Cardinality(entries') <= Cardinality(Envelopes)
            BY <3>1, StateEntries DEF HistoryInv
        <3> QED
            BY <1>3, <3>2, FS_CardinalityType
    <2> QED
        BY <2>1, <2>2, <2>3 DEF ReadLog, ScannerStops, CannotRead, Call
<1>5. reports = <<>>
    BY <1>1 DEF SizeInv
<1> QED
    BY <1>1, <1>2, <1>3, <1>4, <1>5 DEF SizeInv, IsSequence

\* An entry less, and at most a report more.
LEMMA CompareSize ==
    ASSUME HistoryInv, SizeInv, NEW e \in entries, Compare(e)
    PROVE  SizeInv'
<1>1. /\ UNCHANGED <<log, emitted, source, outcome>>
      /\ source # "none" /\ outcome = "open" /\ entries' = entries \ {e}
      /\ \/ reports' = reports
         \/ reports' = Extended(reports, DetectDrift(last.fingerprint, e.fingerprint), e.time)
    BY DEF Compare
<1>2. Envelopes' = Envelopes /\ Groups' = Groups
    BY <1>1 DEF Envelopes, Mix, Groups, Group, InSecond, Lines
<1>3. /\ IsFiniteSet(entries') /\ Cardinality(entries) \in Nat
      /\ Cardinality(entries') = Cardinality(entries) - 1
    BY <1>1, FS_RemoveElement, FS_CardinalityType DEF SizeInv
<1>4. /\ IsSequence(reports') /\ Len(reports) \in Nat
      /\ Len(reports') \in {Len(reports), Len(reports) + 1}
    BY <1>1, ExtendedByOne DEF SizeInv
<1>5. PICK bound \in Nat : bound = Cardinality(Envelopes) + Cardinality(Groups)
    BY FewFound, FS_CardinalityType DEF HistoryInv
<1>6. Len(reports') + Cardinality(entries') <= bound
    <2>1. Len(reports) + Cardinality(entries) <= bound
        BY <1>1, <1>5 DEF SizeInv
    <2> QED
        BY <1>3, <1>4, <2>1
<1>7. Len(reports') + Cardinality(entries') <= Cardinality(Envelopes') + Cardinality(Groups')
    BY <1>2, <1>5, <1>6
<1> QED
    BY <1>1, <1>3, <1>4, <1>7 DEF SizeInv

\* Every step keeps the sizes.
LEMMA SizeStep == HistoryInv /\ SizeInv /\ [HistoryNext]_historyVars => SizeInv'
<1> SUFFICES ASSUME HistoryInv, SizeInv, [HistoryNext]_historyVars PROVE SizeInv'
    OBVIOUS
<1>1. ASSUME NEW preds \in Cycles, NEW pause \in 1..2, NEW long \in BOOLEAN,
             LogCycle(preds, pause, long)
      PROVE  SizeInv'
    <2>1. /\ source = "none" /\ Len(log) < MaxCycles
          /\ UNCHANGED <<source, entries, last, reports, outcome>>
        BY <1>1 DEF LogCycle
    <2>2. Len(log) \in Nat /\ Len(log') = Len(log) + 1
        BY <1>1, LogGrows DEF HistoryInv
    <2>3. /\ IsSequence(emitted') /\ Len(emitted) \in Nat
          /\ Len(emitted') \in {Len(emitted), Len(emitted) + 1}
        BY <1>1, ExtendedByOne DEF LogCycle, SizeInv
    <2>4. Len(emitted) <= Len(log) /\ MaxCycles \in Nat
        BY CyclesAssumption DEF SizeInv
    <2>5. Len(emitted') <= Len(log') /\ Len(log') <= MaxCycles
        BY <2>1, <2>2, <2>3, <2>4
    <2> QED
        BY <2>1, <2>3, <2>5 DEF SizeInv, IsSequence
<1>2. CASE PrintReports
    BY <1>2 DEF PrintReports, SizeInv, IsSequence, Envelopes, Mix, Groups, Group, InSecond,
       Lines
<1>3. CASE UNCHANGED historyVars
    BY <1>3 DEF historyVars, SizeInv, IsSequence, Envelopes, Mix, Groups, Group, InSecond,
       Lines
<1> QED
    BY <1>1, <1>2, <1>3, CallSize, CompareSize DEF HistoryNext, HistoryDone

\* Nothing is found and nothing is printed at first.
LEMMA SizeAtFirst == HistoryInit => SizeInv
<1>1. IsSequence(<<>>) /\ Len(<<>>) = 0
    BY DEF IsSequence
<1> QED
    BY <1>1, FS_EmptySet, CyclesAssumption DEF HistoryInit, HistoryAt, SizeInv

\* Every variable of the drift command keeps its type.
LEMMA HistoryTypeCorrect == HistorySpec => []HistoryTypeOK
<1>1. HistoryInv /\ SizeInv => HistoryTypeOK
    <2> SUFFICES ASSUME HistoryInv, SizeInv PROVE HistoryTypeOK
        OBVIOUS
    <2>1. Cardinality(Envelopes) \in Nat /\ Cardinality(Groups) \in Nat
        BY FewFound, FS_CardinalityType DEF HistoryInv
    <2>2. Len(reports) \in Nat /\ Cardinality(entries) \in Nat
        BY ExtendedByOne, FS_CardinalityType DEF SizeInv
    <2>3. Len(reports) <= Cardinality(Envelopes) + Cardinality(Groups)
        <3>1. CASE source = "none"
            <4>1. Len(reports) = 0
                BY <3>1 DEF SizeInv
            <4> QED
                BY <2>1, <4>1
        <3>2. CASE source # "none"
            BY <2>1, <2>2, <3>2 DEF SizeInv
        <3> QED
            BY <3>1, <3>2
    <2> QED
        BY <2>3 DEF SizeInv, HistoryTypeOK
<1> QED
    BY <1>1, SizeAtFirst, HistoryInvInit, HistoryInductive, SizeStep, PTL DEF HistorySpec

-----------------------------------------------------------------------------
(* Silent drift.                                                           *)

\* A strict inequality is scaled by what is positive ...
LEMMA Scaled ==
    ASSUME NEW x \in Int, NEW y \in Int, NEW z \in Nat \ {0}, x < y
    PROVE  x * z < y * z
OBVIOUS

\* ... and back.
LEMMA ScaledBack ==
    ASSUME NEW x \in Int, NEW y \in Int, NEW z \in Nat \ {0}, x * z < y * z
    PROVE  x < y
<1>1. CASE x = y
    BY <1>1
<1>2. CASE y < x
    BY <1>2, Scaled
<1> QED
    BY <1>1, <1>2

\* From a in l to b in m the share grows by less than n times five points.
OneWay(a, b, l, m, n) == 20 * (b * l - a * m) < n * (l * m)

\* From there to c in r by five points at most.
LEMMA PointsAdd ==
    ASSUME NEW a \in Int, NEW b \in Int, NEW c \in Int,
           NEW l \in Nat \ {0}, NEW m \in Nat \ {0}, NEW r \in Nat \ {0}, NEW n \in Nat,
           OneWay(a, b, l, m, n), OneWay(b, c, m, r, 1)
    PROVE  OneWay(a, c, l, r, n + 1)
<1>1. (20 * (b * l - a * m)) * r < (n * (l * m)) * r
    BY Scaled DEF OneWay
<1>2. (20 * (c * m - b * r)) * l < (m * r) * l
    BY Scaled DEF OneWay
<1>3. (20 * (c * l - a * r)) * m = (20 * (b * l - a * m)) * r + (20 * (c * m - b * r)) * l
    OBVIOUS
<1>4. ((n + 1) * (l * r)) * m = (n * (l * m)) * r + (m * r) * l
    OBVIOUS
<1>5. (20 * (c * l - a * r)) * m < ((n + 1) * (l * r)) * m
    BY <1>1, <1>2, <1>3, <1>4
<1> QED
    BY <1>5, ScaledBack DEF OneWay

\* The share of c moved by less than n times five points.
Slow(from, to, c, n) == 20 * AbsDelta(from, to, c) < n * (Base(from) * Base(to))

\* Below a bound in absolute value is below it both ways.
LEMMA SlowBothWays ==
    ASSUME NEW from, IsFingerprint(from), NEW to, IsFingerprint(to), NEW c \in Cats
    PROVE  /\ from.count[c] \in Int /\ to.count[c] \in Int
           /\ Base(from) \in Nat \ {0} /\ Base(to) \in Nat \ {0}
           /\ AbsDelta(from, to, c) \in Int /\ Base(from) * Base(to) \in Int
           /\ \A n \in Nat : Slow(from, to, c, n) <=>
                 /\ OneWay(from.count[c], to.count[c], Base(from), Base(to), n)
                 /\ OneWay(-from.count[c], -to.count[c], Base(from), Base(to), n)
<1>1. /\ from.count[c] \in Nat /\ to.count[c] \in Nat
      /\ Base(from) \in Nat \ {0} /\ Base(to) \in Nat \ {0}
    BY BaseIsPositive DEF IsFingerprint
<1>2. PICK a \in Nat, b \in Nat, l \in Nat \ {0}, m \in Nat \ {0} :
          a = from.count[c] /\ b = to.count[c] /\ l = Base(from) /\ m = Base(to)
    BY <1>1
<1>3. PICK d \in Int : d = b * l - a * m
    OBVIOUS
<1>4. AbsDelta(from, to, c) = IF d < 0 THEN -d ELSE d
    BY <1>2, <1>3 DEF AbsDelta
<1>5. l * m \in Int
    OBVIOUS
<1>6. (-b) * l - (-a) * m = -d
    <2>1. (-b) * l = -(b * l) /\ (-a) * m = -(a * m)
        OBVIOUS
    <2>2. b * l \in Int /\ a * m \in Int
        OBVIOUS
    <2> QED
        BY <1>3, <2>1, <2>2
<1>7. ASSUME NEW n \in Nat
      PROVE  Slow(from, to, c, n) <=> OneWay(a, b, l, m, n) /\ OneWay(-a, -b, l, m, n)
    <2>1. PICK x \in Int : x = n * (l * m)
        BY <1>5
    <2>2. 20 * AbsDelta(from, to, c) < x <=> 20 * d < x /\ 20 * (-d) < x
        BY <1>4
    <2>3. Slow(from, to, c, n) <=> 20 * AbsDelta(from, to, c) < x
        BY <1>2, <2>1 DEF Slow
    <2>4. OneWay(a, b, l, m, n) <=> 20 * d < x
        BY <1>3, <2>1 DEF OneWay
    <2>5. OneWay(-a, -b, l, m, n) <=> 20 * (-d) < x
        BY <1>6, <2>1 DEF OneWay
    <2> QED
        BY <2>2, <2>3, <2>4, <2>5
<1> QED
    BY <1>1, <1>2, <1>4, <1>5, <1>7

\* n times five points, and five more.
LEMMA SlowAdds ==
    ASSUME NEW p, IsFingerprint(p), NEW q, IsFingerprint(q), NEW t, IsFingerprint(t),
           NEW c \in Cats, NEW n \in Nat,
           Slow(p, q, c, n), Slow(q, t, c, 1)
    PROVE  Slow(p, t, c, n + 1)
<1>1. PICK x \in Int, y \in Int, z \in Int :
          x = p.count[c] /\ y = q.count[c] /\ z = t.count[c]
    BY SlowBothWays
<1>2. PICK l \in Nat \ {0}, m \in Nat \ {0}, r \in Nat \ {0} :
          l = Base(p) /\ m = Base(q) /\ r = Base(t)
    BY SlowBothWays
<1>3. OneWay(x, y, l, m, n) /\ OneWay(-x, -y, l, m, n)
    BY <1>1, <1>2, SlowBothWays
<1>4. OneWay(y, z, m, r, 1) /\ OneWay(-y, -z, m, r, 1)
    BY <1>1, <1>2, SlowBothWays
<1>5. -x \in Int /\ -y \in Int /\ -z \in Int /\ n + 1 \in Nat
    OBVIOUS
<1>6. OneWay(x, z, l, r, n + 1)
    BY <1>3, <1>4, PointsAdd
<1>7. OneWay(-x, -z, l, r, n + 1)
    BY <1>3, <1>4, <1>5, PointsAdd
<1> QED
    BY <1>1, <1>2, <1>5, <1>6, <1>7, SlowBothWays

\* What is not reported has moved by less than five points.
LEMMA NoReportIsSlow ==
    ASSUME NEW preds \in Cycles, preds # <<>>, NEW to, IsFingerprint(to), NEW c \in Cats,
           DetectDrift(ComputeNodeFingerprint(preds), to) = NoReport
    PROVE  Slow(ComputeNodeFingerprint(preds), to, c, 1)
<1> PICK from : from = ComputeNodeFingerprint(preds)
    OBVIOUS
<1>1. IsFingerprint(from)
    BY CyclesAreFinite, ComputedIsFingerprint
<1>2. from.total # 0
    <2>1. IsFiniteSet(DOMAIN preds) /\ preds \in Seq(Cats \cup {Unknown})
        BY CyclesAreFinite
    <2>2. Len(preds) \in Nat /\ Len(preds) # 0 /\ DOMAIN preds = 1..Len(preds)
        BY <2>1, EmptySeq
    <2>3. 1 \in DOMAIN preds
        BY <2>2
    <2>4. Cardinality(DOMAIN preds) # 0
        BY <2>1, <2>3, FS_EmptySet
    <2> QED
        BY <2>4 DEF ComputeNodeFingerprint
<1>3. Changes(from, to) = {}
    BY <1>1, <1>2, ReportIsReport
<1>4. ~Reported(from, to, c)
    BY <1>3 DEF Changes
<1>5. PICK d \in Int, b \in Int : d = AbsDelta(from, to, c) /\ b = Base(from) * Base(to)
    BY <1>1, SlowBothWays
<1>6. ~(20 * d >= b) /\ 1 * b = b
    BY <1>4, <1>5 DEF Reported
<1> QED
    BY <1>5, <1>6 DEF Slow

\* No drift report was emitted for the cycles after i, up to j.
Quietly(i, j) == /\ \A k \in i..(j - 1) : log[k].preds # <<>>
                 /\ \A k \in (i + 1)..j : Silent(k)

SlowInv == \A i, j \in DOMAIN log :
               i < j /\ Quietly(i, j) => \A c \in Cats : Slow(Mix(i), Mix(j), c, j - i)

\* A cycle that is logged takes nothing back, and is silent only if there was
\* nothing to report.
LEMMA SilenceStays ==
    ASSUME HistoryInv, SizeInv, NEW n \in Nat, n = Len(log),
           NEW preds \in Cycles, NEW pause \in 1..2, NEW long \in BOOLEAN,
           LogCycle(preds, pause, long)
    PROVE  /\ \A k \in DOMAIN log : Silent(k)' => Silent(k)
           /\ Silent(n + 1)' =>
                  DetectDrift(PreviousFingerprint, ComputeNodeFingerprint(preds)) = NoReport
<1>1. PICK time : time = LastTime + pause
    OBVIOUS
<1>2. PICK report : report = DetectDrift(PreviousFingerprint, ComputeNodeFingerprint(preds))
    OBVIOUS
<1>3. /\ DOMAIN log = 1..n /\ \A k \in 1..n : log'[k] = log[k]
      /\ log'[n + 1].time = time
    <2>1. LogInv
        BY DEF HistoryInv
    <2>2. log'[n + 1] = [preds |-> preds, time |-> LastTime + pause, long |-> long]
        BY <2>1, LogGrows
    <2> QED
        BY <1>1, <2>1, <2>2, LogGrows
<1>4. emitted' = IF report = NoReport THEN emitted
                 ELSE Append(emitted, [report |-> report, time |-> time])
    BY <1>1, <1>2 DEF LogCycle, Extended
<1>5. PICK S : emitted \in Seq(S)
    BY DEF SizeInv, IsSequence
<1>6. CASE report = NoReport
    BY <1>2, <1>3, <1>4, <1>6 DEF Silent
<1>7. CASE report # NoReport
    <2>1. PICK x, T : x = [report |-> report, time |-> time] /\ T = S \cup {x}
        OBVIOUS
    <2>2. emitted' = Append(emitted, x) /\ emitted \in Seq(T) /\ x \in T
        BY <1>4, <1>5, <1>7, <2>1
    <2>3. /\ DOMAIN emitted \subseteq DOMAIN emitted'
          /\ \A r \in DOMAIN emitted : emitted'[r] = emitted[r]
          /\ Len(emitted) + 1 \in DOMAIN emitted' /\ emitted'[Len(emitted) + 1] = x
        BY <2>2
    <2>4. x.time = time
        BY <2>1
    <2>5. ~Silent(n + 1)'
        BY <1>3, <2>3, <2>4 DEF Silent
    <2>6. ASSUME NEW k \in DOMAIN log, Silent(k)'
          PROVE  Silent(k)
        BY <1>3, <2>3, <2>6 DEF Silent
    <2> QED
        BY <2>5, <2>6
<1> QED
    BY <1>2, <1>6, <1>7

\* A cycle more, and five points more.
LEMMA SlowLog ==
    ASSUME HistoryInv, SizeInv, SlowInv,
           NEW preds \in Cycles, NEW pause \in 1..2, NEW long \in BOOLEAN,
           LogCycle(preds, pause, long)
    PROVE  SlowInv'
<1> PICK n : n = Len(log)
    OBVIOUS
<1>1. /\ n \in Nat /\ DOMAIN log = 1..n /\ DOMAIN log' = 1..(n + 1)
      /\ \A k \in 1..n : log'[k] = log[k]
      /\ log'[n + 1].preds = preds
    <2>1. LogInv
        BY DEF HistoryInv
    <2>2. log'[n + 1] = [preds |-> preds, time |-> LastTime + pause, long |-> long]
        BY <2>1, LogGrows
    <2> QED
        BY <2>1, <2>2, LogGrows
<1>2. \A k \in 1..n : Mix(k)' = Mix(k) /\ IsFingerprint(Mix(k)) /\ log[k].preds \in Cycles
    <2>1. \A k \in 1..n : log[k].preds \in Cycles
        BY <1>1, LogLines DEF HistoryInv
    <2> QED
        BY <1>1, <2>1, CyclesAreFinite, ComputedIsFingerprint DEF Mix
<1>3. Mix(n + 1)' = ComputeNodeFingerprint(preds) /\ IsFingerprint(Mix(n + 1)')
    BY <1>1, CyclesAreFinite, ComputedIsFingerprint DEF Mix
<1>4. /\ \A k \in 1..n : Silent(k)' => Silent(k)
      /\ Silent(n + 1)' => DetectDrift(PreviousFingerprint, Mix(n + 1)') = NoReport
    <2>1. /\ \A k \in DOMAIN log : Silent(k)' => Silent(k)
          /\ Silent(n + 1)' =>
                 DetectDrift(PreviousFingerprint, ComputeNodeFingerprint(preds)) = NoReport
        BY <1>1, SilenceStays
    <2> QED
        BY <1>1, <1>3, <2>1
<1>5. ASSUME NEW i \in 1..n, NEW j \in 1..n, i < j, Quietly(i, j)', NEW c \in Cats
      PROVE  Slow(Mix(i), Mix(j), c, j - i)
    <2>1. Quietly(i, j)
        <3>1. \A k \in i..(j - 1) : k \in 1..n
            BY <1>1
        <3>2. \A k \in (i + 1)..j : k \in 1..n
            BY <1>1
        <3> QED
            BY <1>1, <1>4, <1>5, <3>1, <3>2 DEF Quietly
    <2> QED
        BY <1>1, <1>5, <2>1 DEF SlowInv
<1>6. ASSUME NEW i \in 1..n, Quietly(i, n + 1)', NEW c \in Cats
      PROVE  Slow(Mix(i), Mix(n + 1)', c, (n + 1) - i)
    <2>1. n \in 1..n /\ n \in i..((n + 1) - 1) /\ n + 1 \in (i + 1)..(n + 1)
        BY <1>1
    <2>2. log'[n].preds # <<>> /\ Silent(n + 1)'
        BY <1>6, <2>1 DEF Quietly
    <2>3. log[n].preds # <<>> /\ log[n].preds \in Cycles
        BY <1>1, <1>2, <2>1, <2>2
    <2>4. PreviousFingerprint = Mix(n)
        <3>1. log # <<>>
            BY <1>1, <2>1
        <3> QED
            BY <3>1 DEF PreviousFingerprint
    <2>5. Slow(Mix(n), Mix(n + 1)', c, 1)
        BY <1>3, <1>4, <2>2, <2>3, <2>4, NoReportIsSlow DEF Mix
    <2>6. CASE i = n
        <3>1. (n + 1) - i = 1
            BY <1>1, <2>6
        <3> QED
            BY <2>5, <2>6, <3>1
    <2>7. CASE i < n
        <3>1. Quietly(i, n)'
            <4>1. i..(n - 1) \subseteq i..((n + 1) - 1) /\ (i + 1)..n \subseteq (i + 1)..(n + 1)
                BY <1>1
            <4> QED
                BY <1>6, <4>1 DEF Quietly
        <3>2. Slow(Mix(i), Mix(n), c, n - i)
            BY <1>5, <2>1, <2>7, <3>1
        <3>3. n - i \in Nat /\ (n - i) + 1 = (n + 1) - i
            BY <1>1, <2>7
        <3>4. Slow(Mix(i), Mix(n + 1)', c, (n - i) + 1)
            BY <1>2, <1>3, <2>1, <2>5, <3>2, <3>3, SlowAdds
        <3> QED
            BY <3>3, <3>4
    <2> QED
        BY <1>1, <2>6, <2>7
<1>7. ASSUME NEW i \in 1..(n + 1), NEW j \in 1..(n + 1), i < j, Quietly(i, j)', NEW c \in Cats
      PROVE  Slow(Mix(i)', Mix(j)', c, j - i)
    <2>1. i \in 1..n /\ (j \in 1..n \/ j = n + 1) /\ Mix(i)' = Mix(i)
        BY <1>1, <1>2, <1>7
    <2>2. CASE j \in 1..n
        BY <1>2, <1>5, <1>7, <2>1, <2>2
    <2>3. CASE j = n + 1
        BY <1>6, <1>7, <2>1, <2>3
    <2> QED
        BY <2>1, <2>2, <2>3
<1> QED
    BY <1>1, <1>7 DEF SlowInv, Slow, AbsDelta, Base

\* In silence a share moves by less than five points per cycle, however long
\* the silence lasts.
THEOREM SilenceIsSlow == HistorySpec => []SilentDriftIsSlow
<1>1. HistoryInit => SizeInv /\ SlowInv
    BY SizeAtFirst DEF HistoryInit, HistoryAt, SlowInv
<1>2. HistoryInv /\ SizeInv /\ SlowInv /\ [HistoryNext]_historyVars => SlowInv'
    <2> SUFFICES ASSUME HistoryInv, SizeInv, SlowInv, [HistoryNext]_historyVars PROVE SlowInv'
        OBVIOUS
    <2>1. ASSUME NEW preds \in Cycles, NEW pause \in 1..2, NEW long \in BOOLEAN,
                 LogCycle(preds, pause, long)
          PROVE  SlowInv'
        BY <2>1, SlowLog
    <2>2. CASE UNCHANGED <<log, emitted>>
        BY <2>2 DEF SlowInv, Quietly, Silent, Mix, Slow, AbsDelta, Base
    <2> QED
        BY <2>1, <2>2 DEF HistoryNext, HistoryDone, historyVars, ReadLog, ScannerStops, ReadState,
           CannotRead, Call, Compare, PrintReports
<1>3. SlowInv => SilentDriftIsSlow
    BY DEF SlowInv, Quietly, Slow, SilentDriftIsSlow
<1> QED
    BY <1>1, <1>2, <1>3, HistoryInvInit, HistoryInductive, SizeStep, PTL DEF HistorySpec
=============================================================================
