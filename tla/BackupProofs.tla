---------------------------- MODULE BackupProofs ----------------------------
(***************************************************************************)
(* Proofs about Backup: what a restored database holds, and what a purge    *)
(* deletes.                                                                 *)
(*                                                                          *)
(* The argument is about stamps.  A copy in a dump or an archive is the row *)
(* of now if the last write of the row was visible when the export started, *)
(* for every later write becomes visible at a later instant (Faithful).     *)
(* And the archive has such a copy if the write was stamped after the       *)
(* markers before it (Covers), since every table is selected by the marker  *)
(* before any reference is followed (Selected).                             *)
(***************************************************************************)
EXTENDS Backup, SequenceTheorems, TLAPS

-----------------------------------------------------------------------------
(* The queries of an export *)

IsProgram(p) == \E n \in Nat : p = [i \in 1 .. n |-> p[i]]

LEMMA ProgramLength ==
  ASSUME NEW p, IsProgram(p)
  PROVE  Len(p) \in Nat /\ DOMAIN p = 1 .. Len(p) /\ p \in Seq({p[i] : i \in DOMAIN p})
<1>1. PICK n \in Nat : p = [i \in 1 .. n |-> p[i]]
  BY DEF IsProgram
<1> DEFINE S == {p[i] : i \in DOMAIN p}
<1>2. DOMAIN p = 1 .. n /\ \A i \in 1 .. n : p[i] \in S
  BY <1>1
<1>3. p \in Seq(S)
  <2> HIDE DEF S
  <2> QED BY <1>1, <1>2
<1> QED BY <1>3

\* A program followed by another one begins with its queries.
LEMMA Joined ==
  ASSUME NEW p, NEW q, IsProgram(p), IsProgram(q)
  PROVE  /\ IsProgram(p \o q)
         /\ \A i \in DOMAIN p : i \in DOMAIN (p \o q) /\ (p \o q)[i] = p[i]
<1> DEFINE S == {p[i] : i \in DOMAIN p} \cup {q[i] : i \in DOMAIN q}
<1>1. p \in Seq(S) /\ q \in Seq(S)
  <2>1. /\ Len(p) \in Nat /\ p = [i \in 1 .. Len(p) |-> p[i]] /\ \A i \in 1 .. Len(p) : p[i] \in S
        /\ Len(q) \in Nat /\ q = [i \in 1 .. Len(q) |-> q[i]] /\ \A i \in 1 .. Len(q) : q[i] \in S
    BY ProgramLength DEF IsProgram
  <2> HIDE DEF S
  <2> QED BY <2>1
<1> HIDE DEF S
<1>2. /\ p \o q \in Seq(S) /\ Len(p \o q) = Len(p) + Len(q)
      /\ \A i \in 1 .. Len(p) + Len(q) : (p \o q)[i] = IF i <= Len(p) THEN p[i] ELSE q[i - Len(p)]
  BY <1>1, ConcatProperties
<1>3. DOMAIN p = 1 .. Len(p) /\ Len(p) \in Nat /\ Len(q) \in Nat /\ DOMAIN (p \o q) = 1 .. Len(p) + Len(q)
  BY <1>1, <1>2
<1>4. IsProgram(p \o q)
  <2> DEFINE r == p \o q
  <2>1. r \in Seq(S) /\ Len(r) \in Nat
    BY <1>2, <1>3
  <2> HIDE DEF r
  <2>2. r = [i \in 1 .. Len(r) |-> r[i]]
    BY <2>1
  <2>3. IsProgram(r)
    BY <2>1, <2>2 DEF IsProgram
  <2> QED BY <2>3 DEF r
<1> QED BY <1>2, <1>3, <1>4

LEMMA FollowIsProgram == ASSUME NEW pairs, IsProgram(pairs) PROVE IsProgram(Follow(pairs))
BY ProgramLength DEF Follow, IsProgram

LEMMA ChildrenIsProgram == ASSUME NEW pairs, IsProgram(pairs) PROVE IsProgram(Children(pairs))
BY ProgramLength DEF Children, IsProgram

LEMMA FamilyIsProgram ==
  ASSUME NEW family, NEW more, IsProgram(family), IsProgram(more)
  PROVE  IsProgram(WholeFamily(family, more))
<1> DEFINE tables == family \o more
<1>1. IsProgram(tables)
  BY Joined
<1> HIDE DEF tables
<1>2. DOMAIN tables = 1 .. Len(tables) /\ Len(tables) \in Nat
  BY <1>1, ProgramLength
<1>3. IsProgram([i \in DOMAIN tables |-> Query("whole", family, tables[i])])
  BY <1>2 DEF IsProgram
<1> QED BY <1>3 DEF WholeFamily, tables

LEMMA Families ==
  /\ IsProgram(KlineInverseFamily) /\ IsProgram(ControlFamily) /\ IsProgram(ParameterFamily)
  /\ IsProgram(PerturbationFamily) /\ IsProgram(MarketFamily) /\ IsProgram(DatasetTables)
  /\ IsProgram(Tail(DynamicFamily)) /\ IsProgram(<<>>)
<1>1. IsProgram(KlineInverseFamily)
  BY DEF KlineInverseFamily, IsProgram
<1>2. IsProgram(ControlFamily)
  BY DEF ControlFamily, IsProgram
<1>3. IsProgram(ParameterFamily)
  BY SMTT(30) DEF ParameterFamily, IsProgram
<1>4. IsProgram(PerturbationFamily)
  BY DEF PerturbationFamily, IsProgram
<1>5. IsProgram(MarketFamily)
  BY DEF MarketFamily, IsProgram
<1>6. IsProgram(DatasetTables)
  BY DEF DatasetTables, IsProgram
<1>7. IsProgram(Tail(DynamicFamily))
  BY DEF DynamicFamily, IsProgram
<1>8. IsProgram(<<>>)
  BY DEF IsProgram
<1> QED BY <1>1, <1>2, <1>3, <1>4, <1>5, <1>6, <1>7, <1>8

LEMMA SelectOrderIsProgram == IsProgram(SelectOrder)
<1> DEFINE runs == <<"BacktestRuns">>
           tests == <<"PerturbationSnapshots", "PerturbationGroups", "PerturbationVariants", "PerturbationTests",
                      "PerturbationBatches", "PerturbationRuns", "PerturbationSubjects", "PerturbationAnalyses",
                      "PerturbationMetrics", "PerturbationQualifications">>
           research == <<"ResearchConfigurations", "ResearchConfigMetadata", "ResearchRuns", "ResearchStages",
                         "ResearchPoints", "RobustCandidates", "CandidateAnalysisLinks", "CandidateGeneLinks",
                         "ResearchSeries", "SurrogateSnapshots", "ResearchPointOrigins", "ResearchAnalyses",
                         "RobustRegions", "RobustRegionPoints", "ResearchSeriesMembers", "ResearchComparisons",
                         "SurrogateProposals">>
           controls == <<"RandomParameterBatches", "ControlAnalysisTasks", "ControlEvaluations",
                         "RandomParameterRecords", "ControlSnapshots", "ControlSnapshotMembers">>
           inverse == <<"KlineInverseStudies", "KlineInverseBatches", "KlineInverseCalibrations",
                        "KlineInversePaths", "KlineInverseEvaluations", "KlineInverseLineage",
                        "KlineInverseSnapshots", "KlineInverseProbes", "KlineInverseSourceLinks">>
<1>1. IsProgram(LeadingTables) /\ IsProgram(PerformanceTables)
  BY DEF IsProgram, LeadingTables, PerformanceTables
<1>2. IsProgram(ComputeFamily) /\ IsProgram(RobustnessFamily) /\ IsProgram(DynamicFamily)
  BY DEF IsProgram, ComputeFamily, RobustnessFamily, DynamicFamily
<1>3. IsProgram(runs) /\ IsProgram(tests)
  BY DEF IsProgram
<1>4. IsProgram(research)
  BY SMTT(30) DEF IsProgram
<1>5. IsProgram(controls) /\ IsProgram(inverse)
  BY DEF IsProgram
<1>6. SelectOrder = LeadingTables \o runs \o PerformanceTables \o ComputeFamily \o RobustnessFamily
                    \o DynamicFamily \o MarketFamily \o tests \o DatasetTables \o research \o controls \o inverse
  BY DEF SelectOrder
<1> HIDE DEF runs, tests, research, controls, inverse
<1> DEFINE a == LeadingTables \o runs \o PerformanceTables \o ComputeFamily
           b == a \o RobustnessFamily \o DynamicFamily \o MarketFamily \o tests
<1>7. IsProgram(a)
  BY <1>1, <1>2, <1>3, Joined
<1>8. IsProgram(b)
  <2> HIDE DEF a
  <2> QED BY <1>2, <1>3, <1>7, Families, Joined
<1> QED
  <2> HIDE DEF b
  <2>1. IsProgram(b \o DatasetTables \o research \o controls \o inverse)
    BY <1>4, <1>5, <1>8, Families, Joined
  <2> QED BY <1>6, <2>1 DEF b

LEMMA Tuples ==
  /\ \A a : IsProgram(<<a>>)
  /\ \A a, b : IsProgram(<<a, b>>)
  /\ \A a, b, c : IsProgram(<<a, b, c>>)
  /\ \A a, b, c, d : IsProgram(<<a, b, c, d>>)
  /\ \A a, b, c, d, e : IsProgram(<<a, b, c, d, e>>)
  /\ \A a, b, c, d, e, f, g : IsProgram(<<a, b, c, d, e, f, g>>)
  /\ \A a, b, c, d, e, f, g, h, i : IsProgram(<<a, b, c, d, e, f, g, h, i>>)
  /\ \A a, b, c, d, e, f, g, h, i, j : IsProgram(<<a, b, c, d, e, f, g, h, i, j>>)
<1>1. \A a : IsProgram(<<a>>)
  BY DEF IsProgram
<1>2. \A a, b : IsProgram(<<a, b>>)
  BY DEF IsProgram
<1>3. \A a, b, c : IsProgram(<<a, b, c>>)
  BY DEF IsProgram
<1>4. \A a, b, c, d : IsProgram(<<a, b, c, d>>)
  BY DEF IsProgram
<1>5. \A a, b, c, d, e : IsProgram(<<a, b, c, d, e>>)
  BY DEF IsProgram
<1>6. \A a, b, c, d, e, f, g : IsProgram(<<a, b, c, d, e, f, g>>)
  BY DEF IsProgram
<1>7. \A a, b, c, d, e, f, g, h, i : IsProgram(<<a, b, c, d, e, f, g, h, i>>)
  BY DEF IsProgram
<1>8. \A a, b, c, d, e, f, g, h, i, j : IsProgram(<<a, b, c, d, e, f, g, h, i, j>>)
  BY DEF IsProgram
<1> QED BY <1>1, <1>2, <1>3, <1>4, <1>5, <1>6, <1>7, <1>8

LEMMA ClosuresArePrograms == IsProgram(FirstClosures) /\ IsProgram(PerformanceQueries) /\ IsProgram(BacktestQueries)
<1>1. IsProgram(KlineInverseQueries)
  BY Tuples, Families, FollowIsProgram, FamilyIsProgram, Joined DEF KlineInverseQueries
<1>2. IsProgram(ControlQueries)
  BY Tuples, Families, FollowIsProgram, FamilyIsProgram, Joined DEF ControlQueries
<1>3. IsProgram(ParameterQueries)
  BY Tuples, Families, FollowIsProgram, FamilyIsProgram, Joined DEF ParameterQueries
<1>4. IsProgram(PerturbationQueries)
  BY Tuples, Families, FollowIsProgram, FamilyIsProgram, Joined DEF PerturbationQueries
<1>5. IsProgram(MarketQueries)
  BY Tuples, Families, FollowIsProgram, FamilyIsProgram, Joined DEF MarketQueries
<1>6. IsProgram(RobustnessQueries)
  BY Tuples, FollowIsProgram, ChildrenIsProgram, Joined DEF RobustnessQueries
<1>7. IsProgram(DynamicQueries)
  <2> DEFINE children == Tail(DynamicFamily)
             up == [i \in DOMAIN children |-> <<children[i], "DynamicModelStudies">>]
             down == [i \in DOMAIN children |-> <<"DynamicModelStudies", children[i]>>]
  <2>1. IsProgram(up) /\ IsProgram(down)
    BY Families, ProgramLength DEF IsProgram
  <2>2. IsProgram(Follow(up)) /\ IsProgram(Children(down))
    BY <2>1, FollowIsProgram, ChildrenIsProgram
  <2>3. DynamicQueries = Follow(up) \o Children(down)
                         \o Follow(<< <<"DynamicModelStudies", "KLines">>, <<"DynamicModelStudies", "ComputeTasks">>,
                                      <<"DynamicMaterializations", "BacktestResults">>,
                                      <<"DynamicModelStudies", "GeneRecords">> >>)
    BY DEF DynamicQueries
  <2> HIDE DEF up, down
  <2> QED BY <2>2, <2>3, Tuples, FollowIsProgram, Joined
<1>8. IsProgram(ComputeQueries)
  BY Tuples, FollowIsProgram, ChildrenIsProgram, Joined DEF ComputeQueries
<1>9. IsProgram(PerformanceQueries)
  BY Tuples, FollowIsProgram, ChildrenIsProgram, Joined DEF PerformanceQueries
<1>10. IsProgram(BacktestQueries)
  BY Tuples, FollowIsProgram, ChildrenIsProgram, Joined DEF BacktestQueries
<1> QED BY <1>1, <1>2, <1>3, <1>4, <1>5, <1>6, <1>7, <1>8, <1>9, <1>10, Joined DEF FirstClosures

\* An export first selects every table by the marker, in SelectOrder.
LEMMA SelectsFirst ==
  /\ IsProgram(ExportQueries)
  /\ \A i \in DOMAIN SelectOrder : /\ i \in DOMAIN ExportQueries
                                   /\ ExportQueries[i] = Query("since", SelectOrder[i], SelectOrder[i])
<1>1. IsProgram(SelectQueries) /\ DOMAIN SelectQueries = DOMAIN SelectOrder
  BY SelectOrderIsProgram, ProgramLength DEF SelectQueries, IsProgram
<1> DEFINE a == SelectQueries \o FirstClosures
           b == a \o PerformanceQueries
           c == b \o BacktestQueries
           d == c \o PerformanceQueries
<1>2. IsProgram(a) /\ \A i \in DOMAIN SelectOrder : i \in DOMAIN a /\ a[i] = SelectQueries[i]
  BY <1>1, ClosuresArePrograms, Joined
<1>3. IsProgram(b) /\ \A i \in DOMAIN SelectOrder : i \in DOMAIN b /\ b[i] = SelectQueries[i]
  <2> HIDE DEF a
  <2> QED BY <1>2, ClosuresArePrograms, Joined
<1>4. IsProgram(c) /\ \A i \in DOMAIN SelectOrder : i \in DOMAIN c /\ c[i] = SelectQueries[i]
  <2> HIDE DEF b
  <2> QED BY <1>3, ClosuresArePrograms, Joined
<1>5. IsProgram(d) /\ \A i \in DOMAIN SelectOrder : i \in DOMAIN d /\ d[i] = SelectQueries[i]
  <2> HIDE DEF c
  <2> QED BY <1>4, ClosuresArePrograms, Joined
<1>6. /\ IsProgram(d \o BacktestQueries)
      /\ \A i \in DOMAIN SelectOrder : i \in DOMAIN (d \o BacktestQueries) /\ (d \o BacktestQueries)[i] = SelectQueries[i]
  <2> HIDE DEF d
  <2> QED BY <1>5, ClosuresArePrograms, Joined
<1>7. ExportQueries = d \o BacktestQueries
  BY DEF ExportQueries
<1>8. \A i \in DOMAIN SelectOrder : SelectQueries[i] = Query("since", SelectOrder[i], SelectOrder[i])
  BY DEF SelectQueries
<1> HIDE DEF d
<1> QED BY <1>6, <1>7, <1>8

-----------------------------------------------------------------------------
(* The invariant *)

Stamps == [made : Nat, value : Nat]
Copies == [Rows -> Stamps]
ArchiveRecords == [rows : Copies, start : Nat, marked : Nat, raced : BOOLEAN]

Typed ==
  /\ now \in Nat \ {0}
  /\ db \in Copies /\ seen \in [Rows -> Nat] /\ scene \in Scenes
  /\ \A w \in DOMAIN open : open[w] \in 1 .. now
  /\ full \in [rows : Copies, start : Nat, marked : Nat, after : Nat]
  /\ archives \in Seq(ArchiveRecords)
  /\ script = [step |-> script.step, since |-> script.since, start |-> script.start, at |-> script.at,
               rows |-> script.rows, mark |-> script.mark, raced |-> script.raced]
  /\ script.step \in {"idle", "dump", "export", "mark"}
  /\ script.start \in Nat /\ script.rows \in Copies /\ script.raced \in BOOLEAN
  /\ target = [step |-> target.step, db |-> target.db, next |-> target.next]

\* Only rows of the scene are in the database.
InScene == \A r \in Present(db) : r \in scene.rows

Taken == DOMAIN archives

\* Exports follow each other.
Ordered ==
  /\ \A k \in Taken : archives[k].start <= now
  /\ \A j, k \in Taken : j < k => archives[j].start < archives[k].start
  /\ full.start <= now /\ script.start <= now
  /\ full # NoDump =>
       /\ full.after <= Len(archives)
       /\ \A k \in Taken : IF k <= full.after THEN archives[k].start < full.start ELSE full.start < archives[k].start
  /\ script.step \in {"dump", "export"} => \A k \in Taken : archives[k].start < script.start
  /\ script.step = "mark" => Len(archives) > 0
  /\ script.step = "export" /\ full # NoDump => full.start < script.start

\* The rows whose last write was visible at an instant, and copies of them.
Settled(start) == {r \in Present(db) : seen[r] <= start}
Whole(copy, start) == \A r \in Settled(start) : copy[r] = db[r]
Agrees(copy, start) == \A r \in Settled(start) : copy[r] \in {Absent, db[r]}

Faithful ==
  /\ full # NoDump => Whole(full.rows, full.start)
  /\ script.step = "dump" => Whole(script.rows, script.start)
  /\ script.step = "export" => Agrees(script.rows, script.start)
  /\ \A k \in Taken : Agrees(archives[k].rows, archives[k].start)

\* After the dump, an export goes back to the last marker.
Marked ==
  full # NoDump =>
    /\ marker # 0
    /\ marker = full.marked \/ \E k \in Taken : marker = archives[k].marked
    /\ script.step = "export" => script.since = marker

\* The rows that the first queries can find, and those written after the markers
\* of the dump and of the first k archives.
Selectable == {r \in Present(db) : /\ TableOf[r] \in ToSet(SelectOrder)
                                   /\ TableOf[r] \in CreatedOnly => db[r].value = db[r].made}
NewerThan(k) == {r \in Present(db) : /\ db[r].value >= full.marked
                                     /\ \A j \in 1 .. k : db[r].value >= archives[j].marked}

\* The export is past query i.
Passed(i) == script.at \notin 1 .. i

Selected ==
  script.step = "export" /\ full # NoDump =>
    \A r \in Settled(script.start) \cap Selectable \cap NewerThan(Len(archives)) :
      \A i \in DOMAIN SelectOrder : SelectOrder[i] = TableOf[r] /\ Passed(i) => script.rows[r] = db[r]

Covers ==
  full # NoDump =>
    \A k \in Taken : k > full.after =>
      \A r \in Settled(archives[k].start) \cap Selectable \cap NewerThan(k - 1) : archives[k].rows[r] = db[r]

\* The rows that the dump and the archives before the next one have brought back.
BroughtBack ==
  Settled(full.start) \cup
  {r \in Selectable : ~InWindow(r) /\ \E k \in full.after + 1 .. target.next - 1 : seen[r] <= archives[k].start}

Restored ==
  target.step = "restoring" =>
    /\ full # NoDump /\ target.next \in full.after + 1 .. Len(archives) + 1
    /\ target.db \in Copies
    /\ \A r \in BroughtBack : target.db[r] = db[r]

BackupInv == Typed /\ InScene /\ Ordered /\ Faithful /\ Marked /\ Selected /\ Covers /\ Restored

LEMMA EmptyCopies ==
  /\ Empty \in Copies /\ Absent \in Stamps
  /\ NoDump \in [rows : Copies, start : Nat, marked : Nat, after : Nat]
BY DEF Empty, Copies, Stamps, Absent, NoDump

LEMMA InitInv == Init => BackupInv
<1> SUFFICES ASSUME Init PROVE BackupInv
  OBVIOUS
<1>1. db \in Copies
  <2>1. \A r \in Rows : IF r \in Initial \cap scene.rows THEN [made |-> 1, value |-> 1] \in Stamps ELSE Absent \in Stamps
    BY EmptyCopies DEF Stamps
  <2> QED BY <2>1 DEF Init, Copies
<1>2. seen \in [Rows -> Nat] /\ DOMAIN open = {}
  BY DEF Init
<1>3. archives \in Seq(ArchiveRecords) /\ Taken = {} /\ Len(archives) = 0
  BY DEF Init, Taken
<1>4. Typed
  BY <1>1, <1>2, <1>3, EmptyCopies DEF Typed, Init, Idle
<1>5. InScene
  BY DEF InScene, Init, Present, Absent
<1>6. Ordered /\ Faithful /\ Marked /\ Selected /\ Covers /\ Restored
  BY <1>3 DEF Ordered, Faithful, Marked, Selected, Covers, Restored, Init, Idle, NoDump
<1> QED BY <1>4, <1>5, <1>6 DEF BackupInv

LEMMA TypedFacts ==
  ASSUME Typed
  PROVE  /\ now \in Nat /\ full.start \in Nat /\ full.marked \in Nat /\ full.after \in Nat /\ full.rows \in Copies
         /\ script.start \in Nat /\ script.rows \in Copies
         /\ Taken = 1 .. Len(archives) /\ Len(archives) \in Nat
         /\ \A k \in Taken : /\ archives[k].start \in Nat /\ archives[k].marked \in Nat
                             /\ archives[k].rows \in Copies
<1>1. Taken = 1 .. Len(archives) /\ Len(archives) \in Nat /\ \A k \in Taken : archives[k] \in ArchiveRecords
  BY ElementOfSeq, LenProperties DEF Typed, Taken
<1>2. \A k \in Taken : archives[k].start \in Nat /\ archives[k].marked \in Nat /\ archives[k].rows \in Copies
  BY <1>1 DEF ArchiveRecords
<1> QED BY <1>1, <1>2 DEF Typed

-----------------------------------------------------------------------------
(* The application *)

\* What a step of the application may do: a row stays as it is, goes away, or
\* has a last write that becomes visible only now.
DataMoves ==
  /\ Running
  /\ now' \in Nat \ {0} /\ now' >= now
  /\ db' \in Copies /\ seen' \in [Rows -> Nat]
  /\ \A w \in DOMAIN open' : open'[w] \in 1 .. now'
  /\ \A r \in Rows : db'[r] # Absent =>
       \/ db'[r] = db[r] /\ seen'[r] = seen[r]
       \/ r \in scene.rows /\ seen'[r] > now
  /\ \E raced \in BOOLEAN : script' = [script EXCEPT !.raced = raced]
  /\ UNCHANGED <<scene, marker, full, archives, target>>

LEMMA DataMovesInv == ASSUME BackupInv, DataMoves PROVE BackupInv'
<1>0. Typed /\ InScene /\ Ordered /\ Faithful /\ Marked /\ Selected /\ Covers
  BY DEF BackupInv
<1>1. PICK raced \in BOOLEAN : script' = [script EXCEPT !.raced = raced]
  BY DEF DataMoves
<1>2. /\ script' = [step |-> script.step, since |-> script.since, start |-> script.start, at |-> script.at,
                    rows |-> script.rows, mark |-> script.mark, raced |-> raced]
  BY <1>0, <1>1 DEF Typed
<1>3. /\ script'.step = script.step /\ script'.since = script.since /\ script'.start = script.start
      /\ script'.at = script.at /\ script'.rows = script.rows /\ script'.mark = script.mark /\ script'.raced = raced
  BY <1>2
<1>4. Typed'
  BY <1>0, <1>2, <1>3 DEF Typed, DataMoves
<1>5. InScene'
  BY <1>0 DEF InScene, DataMoves, Present
<1>6. now' \in Nat /\ now \in Nat /\ now' >= now
  BY <1>0, TypedFacts DEF DataMoves
<1>7. Ordered'
  BY <1>0, <1>3, <1>6, TypedFacts DEF Ordered, DataMoves, Taken
<1>8. ASSUME NEW r \in Rows, NEW start \in Nat, start <= now, db'[r] # Absent, seen'[r] <= start
      PROVE  db'[r] = db[r] /\ r \in Settled(start)
  BY <1>0, <1>6, <1>8 DEF Settled, Present, DataMoves, Typed
<1>9. /\ \A k \in Taken : archives[k].start <= now /\ archives[k].start \in Nat
      /\ full.start <= now /\ script.start <= now /\ full.start \in Nat /\ script.start \in Nat
  BY <1>0, TypedFacts DEF Ordered
<1>10. /\ full # NoDump => \A r \in Rows : db'[r] # Absent /\ seen'[r] <= full.start => full.rows[r] = db'[r]
       /\ script.step = "dump" => \A r \in Rows : db'[r] # Absent /\ seen'[r] <= script.start => script.rows[r] = db'[r]
       /\ script.step = "export" => \A r \in Rows : db'[r] # Absent /\ seen'[r] <= script.start
                                      => script.rows[r] \in {Absent, db'[r]}
       /\ \A k \in Taken : \A r \in Rows : db'[r] # Absent /\ seen'[r] <= archives[k].start
                                      => archives[k].rows[r] \in {Absent, db'[r]}
  BY <1>0, <1>8, <1>9 DEF Faithful, Whole, Agrees
<1>11. UNCHANGED <<scene, marker, full, archives, target, Taken>>
  BY DEF DataMoves, Taken
<1>12. Faithful'
  BY <1>3, <1>10, <1>11 DEF Faithful, Whole, Agrees, Settled, Present
<1>13. Marked'
  BY <1>0, <1>3, <1>11 DEF Marked
<1>14. ASSUME NEW r \in Rows, NEW start \in Nat, start <= now, NEW k, db'[r] # Absent, seen'[r] <= start,
              r \in (Selectable \cap NewerThan(k))'
       PROVE  db'[r] = db[r] /\ r \in Settled(start) \cap Selectable \cap NewerThan(k)
  BY <1>8, <1>11, <1>14 DEF Selectable, NewerThan, Settled, Present
<1>15. Selected'
  <2> SUFFICES ASSUME script.step = "export", full # NoDump, NEW r \in Rows, db'[r] # Absent, seen'[r] <= script.start,
                      r \in (Selectable \cap NewerThan(Len(archives)))',
                      NEW i \in DOMAIN SelectOrder, SelectOrder[i] = TableOf[r], Passed(i)
               PROVE  script.rows[r] = db'[r]
    BY <1>3, <1>11 DEF Selected, Settled, Present, Passed
  <2> QED BY <1>0, <1>9, <1>11, <1>14 DEF Selected
<1>16. Covers'
  <2> SUFFICES ASSUME full # NoDump, NEW k \in Taken, k > full.after, NEW r \in Rows, db'[r] # Absent,
                      seen'[r] <= archives[k].start, r \in (Selectable \cap NewerThan(k - 1))'
               PROVE  archives[k].rows[r] = db'[r]
    BY <1>11 DEF Covers, Settled, Present
  <2> QED BY <1>0, <1>9, <1>11, <1>14 DEF Covers
<1>17. Restored'
  BY <1>11 DEF Restored, DataMoves, Running
<1> QED BY <1>4, <1>5, <1>7, <1>12, <1>13, <1>15, <1>16, <1>17 DEF BackupInv

LEMMA SameScript == ASSUME Typed, UNCHANGED script PROVE \E raced \in BOOLEAN : script' = [script EXCEPT !.raced = raced]
<1>1. script.raced \in BOOLEAN /\ script = [script EXCEPT !.raced = script.raced]
  BY DEF Typed
<1> QED BY <1>1

LEMMA AuditMoves == ASSUME BackupInv, Audit PROVE DataMoves
<1>1. Typed
  BY DEF BackupInv
<1>2. UNCHANGED <<now, db, open, scene, seen, script, marker, full, archives, target>> /\ Running
  BY DEF Audit
<1> QED BY <1>1, <1>2, SameScript DEF DataMoves, Typed

LEMMA PurgeMoves == ASSUME BackupInv, Purge PROVE DataMoves
<1>1. Typed
  BY DEF BackupInv
<1>2. /\ UNCHANGED <<now, open, scene, seen, script, marker, full, archives, target>> /\ Running
      /\ db' = [r \in Rows |-> IF r \in Observations THEN Absent ELSE db[r]]
  BY DEF Purge
<1>3. db' \in Copies
  BY <1>1, <1>2, EmptyCopies DEF Copies, Typed
<1> QED BY <1>1, <1>2, <1>3, SameScript DEF DataMoves, Typed

LEMMA BeginMoves == ASSUME BackupInv, NEW w \in scene.works, Begin(w) PROVE DataMoves
<1>1. Typed
  BY DEF BackupInv
<1>2. /\ UNCHANGED <<db, scene, seen, script, marker, full, archives, target>> /\ Running
      /\ now' = now + 1
      /\ open' = [v \in DOMAIN open \cup {w} |-> IF v = w THEN now' ELSE open[v]]
  BY DEF Begin
<1>3. \A v \in DOMAIN open' : open'[v] \in 1 .. now'
  BY <1>1, <1>2 DEF Typed
<1> QED BY <1>1, <1>2, <1>3, SameScript DEF DataMoves, Typed

LEMMA CommitMoves == ASSUME BackupInv, NEW w \in scene.works, Commit(w) PROVE DataMoves
<1>1. Typed /\ InScene
  BY DEF BackupInv
<1>2. /\ UNCHANGED <<scene, marker, full, archives, target>> /\ Running
      /\ w \in DOMAIN open
      /\ now' = now + 1
      /\ open' = [v \in DOMAIN open \ {w} |-> open[v]]
      /\ db' = [r \in Rows |->
              CASE r \in w.adds -> [made |-> open[w], value |-> open[w]]
                [] r \in w.changes -> [made |-> db[r].made, value |-> open[w]]
                [] OTHER -> db[r]]
      /\ seen' = [r \in Rows |-> IF r \in WrittenBy(w) THEN now' ELSE seen[r]]
      /\ script' = [script EXCEPT !.raced =
                  \/ @
                  \/ /\ script.step = "export"
                     /\ \E r \in WrittenBy(w) : TableOf[r] \in WholeTables]
  BY DEF Commit
<1>3. now \in Nat /\ open[w] \in 1 .. now /\ w.adds \cup w.changes \subseteq scene.rows
  BY <1>1, <1>2, ScenesAssumption DEF Typed
<1>4. db' \in Copies
  <2>1. \A r \in Rows : db[r] \in Stamps /\ db[r].made \in Nat
    BY <1>1 DEF Typed, Copies, Stamps
  <2>2. \A r \in Rows : db'[r] \in Stamps
    BY <2>1, <1>2, <1>3 DEF Stamps
  <2> QED BY <2>2, <1>2 DEF Copies
<1>5. \A r \in Rows : \/ r \notin WrittenBy(w) /\ db'[r] = db[r] /\ seen'[r] = seen[r]
                      \/ r \in scene.rows /\ seen'[r] > now
  BY <1>2, <1>3 DEF WrittenBy
<1>6. seen' \in [Rows -> Nat] /\ now' \in Nat \ {0} /\ now' >= now
  BY <1>1, <1>2 DEF Typed
<1>7. \A v \in DOMAIN open' : open'[v] \in 1 .. now'
  BY <1>1, <1>2 DEF Typed
<1>8. \E raced \in BOOLEAN : script' = [script EXCEPT !.raced = raced]
  <2> DEFINE whole == script.step = "export" /\ \E r \in WrittenBy(w) : TableOf[r] \in WholeTables
             raced == script.raced \/ whole
  <2>1. script' = [script EXCEPT !.raced = raced]
    BY <1>2
  <2>2. raced \in BOOLEAN
    OBVIOUS
  <2> QED BY <2>1, <2>2
<1> QED BY <1>2, <1>4, <1>5, <1>6, <1>7, <1>8 DEF DataMoves

-----------------------------------------------------------------------------
(* The purge of observations *)

\* Only the purge makes a row disappear, and it compares with the audit.
LEMMA PurgeStep ==
  ASSUME BackupInv, [Next]_vars, NEW r \in Rows, db[r] # Absent, db'[r] = Absent
  PROVE  Observations = audit
<1>1. CASE Purge
  BY <1>1 DEF Purge, AuditHolds
<1>2. CASE \E w \in scene.works : Commit(w)
  <2>1. PICK w \in scene.works : Commit(w)
    BY <1>2
  <2>2. open[w] \in Nat \ {0}
    BY <2>1 DEF BackupInv, Typed, Commit
  <2>3. db'[r] = CASE r \in w.adds -> [made |-> open[w], value |-> open[w]]
                   [] r \in w.changes -> [made |-> db[r].made, value |-> open[w]]
                   [] OTHER -> db[r]
    BY <2>1 DEF Commit
  <2>4. db'[r].value = open[w] \/ db'[r] = db[r]
    BY <2>3
  <2>5. Absent.value = 0
    BY DEF Absent
  <2> QED BY <2>2, <2>4, <2>5
<1>3. CASE ~Purge /\ ~\E w \in scene.works : Commit(w)
  <2>1. db' = db
    BY <1>3 DEF Next, vars, production, Audit, Begin, DumpFull, FinishFull, StartIncremental, RunQuery,
                WriteArchive, SetMarker, RestoreFull, ImportNext
  <2> QED BY <2>1
<1> QED BY <1>1, <1>2, <1>3

-----------------------------------------------------------------------------
(* The scripts *)

LEMMA DumpInv == ASSUME BackupInv, DumpFull PROVE BackupInv'
<1>0. Typed /\ InScene /\ Ordered /\ Faithful /\ Marked /\ Selected /\ Covers
  BY DEF BackupInv
<1>1. /\ UNCHANGED <<db, open, scene, seen, marker, full, archives, target>>
      /\ Running /\ full = NoDump /\ now' = now + 1
  BY DEF DumpFull
<1>2. script' = [step |-> "dump", since |-> 0, start |-> now + 1, at |-> 1, rows |-> db, mark |-> {}, raced |-> FALSE]
  BY <1>1 DEF DumpFull, Idle
<1>3. now \in Nat /\ UNCHANGED Taken /\ \A k \in Taken : archives[k].start \in Nat
  BY <1>0, <1>1, TypedFacts DEF Taken
<1>4. Typed'
  BY <1>0, <1>1, <1>2 DEF Typed
<1>5. InScene'
  BY <1>0, <1>1 DEF InScene, Present
<1>6. Ordered'
  BY <1>0, <1>1, <1>2, <1>3, TypedFacts DEF Ordered
<1>7. Faithful'
  BY <1>0, <1>1, <1>2, <1>3 DEF Faithful, Whole, Agrees, Settled, Present
<1>8. Marked' /\ Selected' /\ Covers' /\ Restored'
  BY <1>1, <1>2 DEF Marked, Selected, Covers, Restored, Running
<1> QED BY <1>4, <1>5, <1>6, <1>7, <1>8 DEF BackupInv

LEMMA FinishInv == ASSUME BackupInv, FinishFull PROVE BackupInv'
<1>0. Typed /\ InScene /\ Ordered /\ Faithful /\ Marked /\ Selected /\ Covers
  BY DEF BackupInv
<1>1. /\ UNCHANGED <<db, open, scene, seen, archives, target>>
      /\ Running /\ script.step = "dump" /\ now' = now + 1
      /\ full' = [rows |-> script.rows, start |-> script.start, marked |-> now', after |-> Len(archives)]
      /\ marker' = now' /\ script' = Idle
  BY DEF FinishFull
<1>2. script'.step = "idle" /\ script'.start = 0
  BY <1>1 DEF Idle
<1>3. /\ now \in Nat /\ UNCHANGED Taken /\ \A k \in Taken : archives[k].start \in Nat
      /\ Taken = 1 .. Len(archives) /\ Len(archives) \in Nat
      /\ script.start \in Nat /\ script.rows \in Copies
  BY <1>0, <1>1, TypedFacts DEF Taken
<1>4. /\ full'.rows = script.rows /\ full'.start = script.start /\ full'.marked = now + 1
      /\ full'.after = Len(archives)
      /\ full' \in [rows : Copies, start : Nat, marked : Nat, after : Nat]
  BY <1>1, <1>3
<1>5. Typed'
  <2>1. script' = [step |-> script'.step, since |-> script'.since, start |-> script'.start, at |-> script'.at,
                   rows |-> script'.rows, mark |-> script'.mark, raced |-> script'.raced]
        /\ script'.rows = Empty /\ script'.raced = FALSE
    BY <1>1 DEF Idle
  <2>2. now' \in Nat \ {0} /\ \A w \in DOMAIN open : open[w] \in 1 .. now'
    BY <1>0, <1>1 DEF Typed
  <2>3. /\ UNCHANGED open /\ db' \in Copies /\ seen' \in [Rows -> Nat] /\ scene' \in Scenes
        /\ archives' \in Seq(ArchiveRecords)
        /\ target' = [step |-> target'.step, db |-> target'.db, next |-> target'.next]
    BY <1>0, <1>1 DEF Typed
  <2>4. /\ script'.step \in {"idle", "dump", "export", "mark"} /\ script'.start \in Nat
        /\ script'.rows \in Copies /\ script'.raced \in BOOLEAN
    <3>1. script'.rows = Empty /\ script'.raced = FALSE
      BY <2>1
    <3>2. script'.rows \in Copies
      BY <3>1, EmptyCopies
    <3>3. script'.raced \in BOOLEAN
      BY <3>1, Zenon
    <3> QED BY <1>2, <3>2, <3>3
  <2> QED BY <1>4, <2>1, <2>2, <2>3, <2>4 DEF Typed
<1>6. InScene'
  BY <1>0, <1>1 DEF InScene, Present
<1>7. Ordered'
  <2>1. now' = now + 1 /\ UNCHANGED archives /\ script.step = "dump" /\ script.start <= now
    BY <1>0, <1>1 DEF Ordered
  <2>2. /\ \A k \in Taken : archives[k].start <= now /\ archives[k].start < script.start
        /\ \A j, k \in Taken : j < k => archives[j].start < archives[k].start
    BY <1>0, <2>1 DEF Ordered
  <2>3. /\ full'.start <= now' /\ script'.start <= now' /\ full'.after <= Len(archives)
        /\ \A k \in Taken : k <= full'.after /\ archives[k].start < full'.start /\ archives[k].start <= now'
    BY <1>2, <1>3, <1>4, <2>1, <2>2
  <2>4. script'.step = "idle" /\ UNCHANGED <<archives, Taken>>
    BY <1>2, <1>3, <2>1
  <2> QED BY <2>2, <2>3, <2>4 DEF Ordered
<1>8. Faithful'
  BY <1>0, <1>1, <1>2, <1>3, <1>4 DEF Faithful, Whole, Agrees, Settled, Present
<1>9. Marked'
  BY <1>1, <1>2, <1>3, <1>4 DEF Marked
<1>10. Selected'
  BY <1>2 DEF Selected
<1>11. Covers'
  BY <1>1, <1>3, <1>4 DEF Covers
<1>12. Restored'
  BY <1>1 DEF Restored, Running
<1> QED BY <1>5, <1>6, <1>7, <1>8, <1>9, <1>10, <1>11, <1>12 DEF BackupInv

\* The positions of an export.
LEMMA Advances ==
  ASSUME Typed, NEW i \in 0 .. Len(ExportQueries), NEW next \in Following[scene][i]
  PROVE  /\ next \in Nat /\ next > i
         /\ \A j \in DOMAIN ExportQueries :
              j > i /\ RowsOf(ExportQueries[j].to) \cap scene.rows # {} => next <= j
<1>1. DOMAIN ExportQueries = 1 .. Len(ExportQueries) /\ Len(ExportQueries) \in Nat /\ scene \in Scenes
  BY SelectsFirst, ProgramLength DEF Typed
<1> DEFINE later == {j \in Positions[scene] \cup {Len(ExportQueries) + 1} : j > i}
<1>2. Following[scene][i] = {j \in later : \A k \in later : j <= k}
  BY <1>1 DEF Following
<1>3. Positions[scene] = {j \in DOMAIN ExportQueries : \/ RowsOf(ExportQueries[j].to) \cap scene.rows # {}
                                                       \/ ExportQueries[j].op \in {"pass", "again"}}
  BY <1>1 DEF Positions
<1> QED BY <1>1, <1>2, <1>3

\* A row of the scene is found when its table is selected.
LEMMA SelectPosition ==
  ASSUME NEW i \in DOMAIN SelectOrder, NEW r \in Rows, SelectOrder[i] = TableOf[r], r \in scene.rows
  PROVE  /\ i \in DOMAIN ExportQueries /\ ExportQueries[i].op = "since"
         /\ RowsOf(ExportQueries[i].to) \cap scene.rows # {}
<1>1. i \in DOMAIN ExportQueries /\ ExportQueries[i] = Query("since", TableOf[r], TableOf[r])
  BY SelectsFirst
<1> QED BY <1>1 DEF Query, RowsOf

LEMMA StartInv == ASSUME BackupInv, StartIncremental PROVE BackupInv'
<1>0. Typed /\ InScene /\ Ordered /\ Faithful /\ Marked /\ Selected /\ Covers
  BY DEF BackupInv
<1>1. /\ UNCHANGED <<db, open, scene, seen, marker, full, archives, target>>
      /\ Running /\ now' = now + 1
  BY DEF StartIncremental
<1>2. PICK first \in Following[scene][0] :
       script' = [Idle EXCEPT !.step = "export", !.start = now', !.at = first,
                              !.since = IF marker # 0 THEN marker
                                        ELSE IF now > Day THEN now - Day ELSE 1]
  BY DEF StartIncremental
<1>3. script' = [step |-> "export", since |-> script'.since, start |-> now + 1, at |-> first, rows |-> Empty,
                 mark |-> {}, raced |-> FALSE]
      /\ (marker # 0 => script'.since = marker)
  BY <1>1, <1>2 DEF Idle
<1>4. /\ now \in Nat /\ UNCHANGED Taken /\ \A k \in Taken : archives[k].start \in Nat
      /\ full.start \in Nat
  BY <1>0, <1>1, TypedFacts DEF Taken
<1>5. Typed'
  <2>1. /\ script'.step = "export" /\ script'.start = now + 1 /\ script'.at = first /\ script'.rows = Empty
        /\ script'.mark = {} /\ script'.raced = FALSE
    BY <1>3
  <2>2. script' = [step |-> script'.step, since |-> script'.since, start |-> script'.start, at |-> script'.at,
                   rows |-> script'.rows, mark |-> script'.mark, raced |-> script'.raced]
    BY <1>3, <2>1
  <2>3. now' \in Nat \ {0} /\ \A w \in DOMAIN open : open[w] \in 1 .. now'
    BY <1>0, <1>1 DEF Typed
  <2> QED BY <1>0, <1>1, <1>4, <2>1, <2>2, <2>3, EmptyCopies DEF Typed
<1>6. InScene'
  BY <1>0, <1>1 DEF InScene, Present
<1>7. Ordered'
  <2>1. script'.step = "export" /\ script'.start = now + 1
    BY <1>3
  <2> QED BY <1>0, <1>1, <1>4, <2>1 DEF Ordered
<1>8. Faithful'
  <2>1. script'.step = "export" /\ script'.rows = Empty /\ \A r \in Rows : Empty[r] = Absent
    BY <1>3 DEF Empty
  <2> QED BY <1>0, <1>1, <1>4, <2>1 DEF Faithful, Whole, Agrees, Settled, Present
<1>9. Marked'
  BY <1>0, <1>1, <1>3, <1>4 DEF Marked
<1>10. Selected'
  <2> SUFFICES ASSUME NEW r \in Rows, r \in scene.rows, NEW i \in DOMAIN SelectOrder, SelectOrder[i] = TableOf[r],
                      first \notin 1 .. i
               PROVE  FALSE
    BY <1>0, <1>1, <1>3 DEF Selected, Passed, InScene, Settled, Present
  <2>1. Len(ExportQueries) \in Nat /\ DOMAIN SelectOrder \subseteq Nat \ {0}
    BY SelectsFirst, SelectOrderIsProgram, ProgramLength
  <2>2. first \in Nat /\ first > 0 /\ first <= i
    BY <1>0, <1>2, <2>1, Advances, SelectPosition
  <2> QED BY <2>1, <2>2
<1>11. Covers'
  BY <1>0, <1>1, <1>4 DEF Covers, Settled, Selectable, NewerThan, Present
<1>12. Restored'
  BY <1>1 DEF Restored, Running
<1> QED BY <1>5, <1>6, <1>7, <1>8, <1>9, <1>10, <1>11, <1>12 DEF BackupInv

\* What a query adds to the archive is the database's; a selection finds what
\* changed since the marker.
LEMMA ReadsRows ==
  ASSUME NEW q, NEW archive, NEW since, NEW r \in Rows
  PROVE  /\ Read(q, archive, since)[r] \in {db[r], archive[r]}
         /\ db[r] = Absent => Read(q, archive, since)[r] = archive[r]
         /\ q = Query("since", TableOf[r], TableOf[r]) /\ db[r] # Absent /\ Changed(r, since)
              => Read(q, archive, since)[r] = db[r]
<1>1. Read(q, archive, since)[r] = IF r \in Found(q, archive, since) THEN db[r] ELSE archive[r]
  BY DEF Read
<1>2. db[r] = Absent => r \notin Found(q, archive, since)
  BY DEF Found, Present
<1>3. ASSUME q = Query("since", TableOf[r], TableOf[r]), db[r] # Absent, Changed(r, since)
      PROVE  r \in Found(q, archive, since)
  <2>1. q.op = "since" /\ q.to = TableOf[r]
    BY <1>3 DEF Query
  <2> QED BY <1>3, <2>1 DEF Found, Present, RowsOf
<1> QED BY <1>1, <1>2, <1>3

LEMMA ReadTyped ==
  ASSUME db \in Copies, NEW q, NEW archive \in Copies, NEW since
  PROVE  Read(q, archive, since) \in Copies
<1>1. \A r \in Rows : db[r] \in Stamps /\ archive[r] \in Stamps
  BY DEF Copies
<1> QED BY <1>1 DEF Read, Copies

LEMMA QueryInv == ASSUME BackupInv, RunQuery PROVE BackupInv'
<1>0. Typed /\ InScene /\ Ordered /\ Faithful /\ Marked /\ Selected /\ Covers
  BY DEF BackupInv
<1>1. /\ UNCHANGED <<now, db, open, scene, seen, marker, full, archives, target>>
      /\ Running /\ script.step = "export" /\ script.at \in DOMAIN ExportQueries
  BY DEF RunQuery, production
<1> DEFINE q == ExportQueries[script.at]
           more == q.op = "again" /\ ComputeRows(script.rows) # script.mark
           rows == Read(q, script.rows, script.since)
           mark == IF q.op = "pass" THEN ComputeRows(script.rows) ELSE script.mark
<1>2. PICK next \in IF more THEN {ComputeStart} ELSE Following[scene][script.at] :
        script' = [script EXCEPT !.rows = rows, !.mark = mark, !.at = next]
  BY DEF RunQuery
<1>3. rows \in Copies
  BY <1>0, ReadTyped DEF Typed
<1>4. /\ \A r \in Rows : rows[r] \in {db[r], script.rows[r]}
      /\ \A r \in Rows : q = Query("since", TableOf[r], TableOf[r]) /\ db[r] # Absent /\ Changed(r, script.since)
           => rows[r] = db[r]
  BY ReadsRows
<1> HIDE DEF rows, mark
<1>5. script' = [step |-> "export", since |-> script.since, start |-> script.start, at |-> next,
                 rows |-> rows, mark |-> mark, raced |-> script.raced]
  BY <1>0, <1>1, <1>2 DEF Typed
<1>6. /\ script'.step = "export" /\ script'.since = script.since /\ script'.start = script.start /\ script'.at = next
      /\ script'.rows = rows /\ script'.mark = mark /\ script'.raced = script.raced
  BY <1>5
<1>7. UNCHANGED Taken
  BY <1>1 DEF Taken
<1>8. Typed'
  BY <1>0, <1>1, <1>3, <1>5, <1>6 DEF Typed
<1>9. InScene'
  BY <1>0, <1>1 DEF InScene, Present
<1>10. Ordered'
  BY <1>0, <1>1, <1>6, <1>7 DEF Ordered
<1>11. Faithful'
  BY <1>0, <1>1, <1>4, <1>6, <1>7 DEF Faithful, Whole, Agrees, Settled, Present
<1>12. Marked'
  BY <1>0, <1>1, <1>6, <1>7 DEF Marked
<1>13. Selected'
  <2> SUFFICES ASSUME full # NoDump,
                      NEW r \in Settled(script.start) \cap Selectable \cap NewerThan(Len(archives)),
                      NEW i \in DOMAIN SelectOrder, SelectOrder[i] = TableOf[r], next \notin 1 .. i
               PROVE  rows[r] = db[r]
    BY <1>1, <1>6 DEF Selected, Passed, Settled, Selectable, NewerThan, Present
  <2>1. r \in Rows /\ r \in scene.rows /\ db[r] # Absent
    BY <1>0 DEF Settled, Present, InScene
  <2>2. /\ i \in DOMAIN ExportQueries /\ ExportQueries[i] = Query("since", TableOf[r], TableOf[r])
        /\ DOMAIN ExportQueries = 1 .. Len(ExportQueries) /\ Len(ExportQueries) \in Nat
        /\ DOMAIN SelectOrder = 1 .. Len(SelectOrder) /\ Len(SelectOrder) \in Nat
    BY SelectsFirst, SelectOrderIsProgram, ProgramLength
  <2>3. CASE Passed(i)
    BY <1>0, <1>1, <1>4, <2>1, <2>3 DEF Selected
  <2>4. CASE ~Passed(i)
    <3>1. script.at \in 1 .. i
      BY <2>4 DEF Passed
    <3>2. script.at \in DOMAIN SelectOrder
      BY <2>2, <3>1
    <3>3. q.op = "since"
      <4>1. q = Query("since", SelectOrder[script.at], SelectOrder[script.at])
        BY <3>2, SelectsFirst
      <4> QED BY <4>1 DEF Query
    <3>4. next \in Following[scene][script.at] /\ script.at \in 0 .. Len(ExportQueries)
      BY <1>1, <1>2, <2>2, <3>3
    <3>5. next \in Nat /\ next > script.at /\ (i > script.at => next <= i)
      BY <1>0, <2>1, <3>4, Advances, SelectPosition
    <3>6. script.at = i
      BY <2>2, <3>1, <3>5
    <3>7. Changed(r, script.since)
      <4>1. script.since = full.marked \/ \E k \in Taken : script.since = archives[k].marked
        BY <1>0, <1>1 DEF Marked
      <4>2. db[r].value >= script.since
        BY <1>0, <4>1, TypedFacts DEF NewerThan
      <4> QED BY <4>2 DEF Changed, Selectable
    <3> QED BY <1>4, <2>1, <2>2, <3>6, <3>7
  <2> QED BY <2>3, <2>4
<1>14. Covers'
  BY <1>0, <1>1, <1>7 DEF Covers, Settled, Selectable, NewerThan, Present
<1>15. Restored'
  BY <1>1 DEF Restored, Running
<1> QED BY <1>8, <1>9, <1>10, <1>11, <1>12, <1>13, <1>14, <1>15 DEF BackupInv

LEMMA WriteInv == ASSUME BackupInv, WriteArchive PROVE BackupInv'
<1>0. Typed /\ InScene /\ Ordered /\ Faithful /\ Marked /\ Selected /\ Covers
  BY DEF BackupInv
<1> DEFINE new == [rows |-> script.rows, start |-> script.start, marked |-> 0, raced |-> script.raced]
           n == Len(archives) + 1
<1>1. /\ UNCHANGED <<now, db, open, scene, seen, marker, full, target>>
      /\ Running /\ script.step = "export" /\ script.at \notin DOMAIN ExportQueries
      /\ archives' = Append(archives, new) /\ script' = [Idle EXCEPT !.step = "mark"]
  BY DEF WriteArchive, production
<1>2. /\ script' = [step |-> "mark", since |-> 0, start |-> 0, at |-> 1, rows |-> Empty, mark |-> {}, raced |-> FALSE]
  BY <1>1 DEF Idle
<1>3. /\ Taken = 1 .. Len(archives) /\ Len(archives) \in Nat
      /\ now \in Nat /\ script.start \in Nat /\ full.start \in Nat /\ full.after \in Nat
      /\ \A k \in Taken : archives[k].start \in Nat
  BY <1>0, TypedFacts
<1>4. new \in ArchiveRecords
  BY <1>0 DEF Typed, ArchiveRecords
<1>5. /\ archives' \in Seq(ArchiveRecords) /\ Len(archives') = n
      /\ archives'[n] = new /\ \A k \in Taken : archives'[k] = archives[k]
  <2> HIDE DEF new
  <2> QED BY <1>0, <1>1, <1>3, <1>4, AppendProperties DEF Typed
<1>6. Taken' = 1 .. n
  BY <1>5, LenProperties DEF Taken
<1>7. archives'[n].rows = script.rows /\ archives'[n].start = script.start
  BY <1>5
<1> HIDE DEF new
<1>8. Typed'
  <2>1. /\ script'.step = "mark" /\ script'.start = 0 /\ script'.rows = Empty
        /\ script' = [step |-> script'.step, since |-> script'.since, start |-> script'.start, at |-> script'.at,
                      rows |-> script'.rows, mark |-> script'.mark, raced |-> script'.raced]
    BY <1>2
  <2>2. script'.raced \in BOOLEAN
    BY <1>2
  <2> QED BY <1>0, <1>1, <1>5, <2>1, <2>2, EmptyCopies DEF Typed
<1>9. script'.step = "mark" /\ script'.start = 0
  BY <1>2
<1>10. InScene'
  BY <1>0, <1>1 DEF InScene, Present
<1>11. Ordered'
  <2>1. \A k \in Taken' : archives'[k].start <= now
    BY <1>0, <1>3, <1>5, <1>6, <1>7 DEF Ordered
  <2>2. \A j, k \in Taken' : j < k => archives'[j].start < archives'[k].start
    BY <1>0, <1>1, <1>3, <1>5, <1>6, <1>7 DEF Ordered
  <2>3. full # NoDump => /\ full.after <= Len(archives')
                         /\ \A k \in Taken' : IF k <= full.after THEN archives'[k].start < full.start
                                              ELSE full.start < archives'[k].start
    BY <1>0, <1>1, <1>3, <1>5, <1>6, <1>7 DEF Ordered
  <2>4. full.start <= now' /\ script'.start <= now' /\ UNCHANGED <<now, full>> /\ Len(archives') > 0
    BY <1>0, <1>1, <1>3, <1>5, <1>9 DEF Ordered
  <2> QED BY <1>9, <2>1, <2>2, <2>3, <2>4 DEF Ordered
<1>12. Faithful'
  BY <1>0, <1>1, <1>3, <1>5, <1>6, <1>7, <1>9 DEF Faithful, Whole, Agrees, Settled, Present
<1>13. Marked'
  BY <1>0, <1>1, <1>3, <1>5, <1>6, <1>9 DEF Marked
<1>14. Selected'
  BY <1>9 DEF Selected
<1>15. Covers'
  <2> SUFFICES ASSUME full # NoDump, NEW k \in 1 .. n, k > full.after, NEW r \in Rows, db[r] # Absent,
                      seen[r] <= archives'[k].start, r \in Selectable', r \in NewerThan(k - 1)'
               PROVE  archives'[k].rows[r] = db[r]
    BY <1>1, <1>6 DEF Covers, Settled, Present
  <2>1. r \in Settled(archives'[k].start) /\ r \in Selectable /\ r \in Rows /\ r \in scene.rows
    BY <1>0, <1>1 DEF Settled, Selectable, Present, InScene
  <2>2. r \in NewerThan(k - 1)
    BY <1>1, <1>3, <1>5 DEF NewerThan, Present
  <2>3. CASE k \in Taken
    BY <1>0, <1>5, <2>1, <2>2, <2>3 DEF Covers
  <2>4. CASE k = n
    <3>1. r \in Settled(script.start) \cap Selectable \cap NewerThan(Len(archives))
      BY <1>3, <1>7, <2>1, <2>2, <2>4
    <3>2. PICK i \in DOMAIN SelectOrder : SelectOrder[i] = TableOf[r]
      BY <2>1 DEF Selectable, ToSet
    <3>3. Passed(i)
      <4>1. /\ i \in DOMAIN ExportQueries /\ DOMAIN ExportQueries = 1 .. Len(ExportQueries)
            /\ Len(ExportQueries) \in Nat
        BY SelectsFirst, ProgramLength
      <4> QED BY <1>1, <4>1 DEF Passed
    <3> QED BY <1>0, <1>1, <1>7, <2>4, <3>1, <3>2, <3>3 DEF Selected
  <2> QED BY <1>3, <2>3, <2>4
<1>16. Restored'
  BY <1>1 DEF Restored, Running
<1> QED BY <1>8, <1>10, <1>11, <1>12, <1>13, <1>14, <1>15, <1>16 DEF BackupInv

LEMMA MarkInv == ASSUME BackupInv, SetMarker PROVE BackupInv'
<1>0. Typed /\ InScene /\ Ordered /\ Faithful /\ Marked /\ Selected /\ Covers
  BY DEF BackupInv
<1> DEFINE n == Len(archives)
<1>1. /\ UNCHANGED <<db, open, scene, seen, full, target>>
      /\ Running /\ script.step = "mark" /\ now' = now + 1 /\ marker' = now'
      /\ archives' = [archives EXCEPT ![n].marked = now'] /\ script' = Idle
  BY DEF SetMarker
<1>2. script' = [step |-> "idle", since |-> 0, start |-> 0, at |-> 1, rows |-> Empty, mark |-> {}, raced |-> FALSE]
  BY <1>1 DEF Idle
<1>3. /\ Taken = 1 .. n /\ n \in Nat /\ n > 0 /\ now \in Nat
      /\ full.start \in Nat /\ full.after \in Nat
      /\ \A k \in Taken : archives[k].start \in Nat
  BY <1>0, <1>1, TypedFacts DEF Ordered
<1>4. \A k \in Taken : archives[k] \in ArchiveRecords
  BY <1>0, ElementOfSeq DEF Typed, Taken
<1>5. /\ DOMAIN archives' = Taken /\ \A k \in Taken : k # n => archives'[k] = archives[k]
      /\ archives'[n] = [archives[n] EXCEPT !.marked = now']
  BY <1>1, <1>3 DEF Taken
<1>6. /\ archives'[n].rows = archives[n].rows /\ archives'[n].start = archives[n].start
      /\ archives'[n].marked = now' /\ archives'[n] \in ArchiveRecords
  BY SMTT(30), <1>1, <1>3, <1>4, <1>5 DEF ArchiveRecords
<1>7. /\ \A k \in Taken : /\ archives'[k].rows = archives[k].rows /\ archives'[k].start = archives[k].start
                          /\ archives'[k] \in ArchiveRecords
      /\ \A k \in Taken : k # n => archives'[k].marked = archives[k].marked
  BY <1>4, <1>5, <1>6
<1>8. archives' \in Seq(ArchiveRecords) /\ Len(archives') = n /\ Taken' = Taken
  <2>1. archives' = [k \in 1 .. n |-> archives'[k]] /\ \A k \in 1 .. n : archives'[k] \in ArchiveRecords
    BY <1>1, <1>3, <1>5, <1>7 DEF Taken
  <2>2. archives' \in Seq(ArchiveRecords)
    BY <1>3, <2>1
  <2> QED BY <1>3, <1>5, <2>2, LenProperties DEF Taken
<1>9. script'.step = "idle" /\ script'.start = 0 /\ script'.rows = Empty
  BY <1>2
<1>10. Typed'
  <2>1. script' = [step |-> script'.step, since |-> script'.since, start |-> script'.start, at |-> script'.at,
                   rows |-> script'.rows, mark |-> script'.mark, raced |-> script'.raced]
    BY <1>2, <1>9
  <2>2. script'.raced \in BOOLEAN
    BY <1>2
  <2>3. now' \in Nat \ {0} /\ \A w \in DOMAIN open : open[w] \in 1 .. now'
    BY <1>0, <1>1 DEF Typed
  <2>4. /\ UNCHANGED open /\ db' \in Copies /\ seen' \in [Rows -> Nat] /\ scene' \in Scenes
        /\ full' \in [rows : Copies, start : Nat, marked : Nat, after : Nat]
        /\ target' = [step |-> target'.step, db |-> target'.db, next |-> target'.next]
    BY <1>0, <1>1 DEF Typed
  <2> QED BY <1>8, <1>9, <2>1, <2>2, <2>3, <2>4, EmptyCopies DEF Typed
<1>11. InScene'
  BY <1>0, <1>1 DEF InScene, Present
<1>12. Ordered'
  <2>1. \A k \in Taken : archives[k].start <= now + 1
    BY <1>0, <1>3 DEF Ordered
  <2>2. full.start <= now + 1 /\ script'.start <= now + 1
    BY <1>0, <1>3, <1>9 DEF Ordered
  <2> QED BY <1>0, <1>1, <1>3, <1>7, <1>8, <1>9, <2>1, <2>2 DEF Ordered
<1>13. Faithful'
  BY <1>0, <1>1, <1>7, <1>8, <1>9 DEF Faithful, Whole, Agrees, Settled, Present
<1>14. Marked'
  BY <1>1, <1>3, <1>6, <1>8, <1>9 DEF Marked
<1>15. Selected'
  BY <1>9 DEF Selected
<1>16. Covers'
  <2> SUFFICES ASSUME full # NoDump, NEW k \in Taken, k > full.after, NEW r \in Rows, db[r] # Absent,
                      seen[r] <= archives[k].start, r \in Selectable', r \in NewerThan(k - 1)'
               PROVE  archives[k].rows[r] = db[r]
    BY <1>1, <1>7, <1>8 DEF Covers, Settled, Present
  <2>1. r \in Settled(archives[k].start) /\ r \in Selectable
    BY <1>1 DEF Settled, Selectable, Present
  <2>2. r \in NewerThan(k - 1)
    BY <1>1, <1>3, <1>7 DEF NewerThan, Present
  <2> QED BY <1>0, <2>1, <2>2 DEF Covers
<1>17. Restored'
  BY <1>1 DEF Restored, Running
<1> QED BY <1>10, <1>11, <1>12, <1>13, <1>14, <1>15, <1>16, <1>17 DEF BackupInv

-----------------------------------------------------------------------------
(* The restore *)

LEMMA RestoreInv == ASSUME BackupInv, RestoreFull PROVE BackupInv'
<1>0. Typed /\ InScene /\ Ordered /\ Faithful /\ Marked /\ Selected /\ Covers
  BY DEF BackupInv
<1>1. /\ UNCHANGED <<now, db, open, scene, seen, marker, full, archives>>
      /\ full # NoDump /\ script' = Idle
      /\ target' = [step |-> "restoring", db |-> full.rows, next |-> full.after + 1]
  BY DEF RestoreFull, production
<1>2. script' = [step |-> "idle", since |-> 0, start |-> 0, at |-> 1, rows |-> Empty, mark |-> {}, raced |-> FALSE]
  BY <1>1 DEF Idle
<1>3. script'.step = "idle" /\ script'.start = 0 /\ script'.rows = Empty /\ UNCHANGED Taken
  BY <1>1, <1>2 DEF Taken
<1>4. Typed'
  <2>1. script' = [step |-> script'.step, since |-> script'.since, start |-> script'.start, at |-> script'.at,
                   rows |-> script'.rows, mark |-> script'.mark, raced |-> script'.raced]
    BY <1>2, <1>3
  <2>2. script'.raced \in BOOLEAN
    BY <1>2
  <2>3. target' = [step |-> target'.step, db |-> target'.db, next |-> target'.next]
    BY <1>1
  <2> QED BY <1>0, <1>1, <1>3, <2>1, <2>2, <2>3, EmptyCopies DEF Typed
<1>5. InScene'
  BY <1>0, <1>1 DEF InScene, Present
<1>6. Ordered'
  <2>1. script'.start <= now
    BY <1>0, <1>3, TypedFacts
  <2> QED BY <1>0, <1>1, <1>3, <2>1 DEF Ordered
<1>7. Faithful'
  BY <1>0, <1>1, <1>3 DEF Faithful, Whole, Agrees, Settled, Present
<1>8. Marked'
  BY <1>0, <1>1, <1>3 DEF Marked
<1>9. Selected'
  BY <1>3 DEF Selected
<1>10. Covers'
  BY <1>0, <1>1, <1>3 DEF Covers, Settled, Selectable, NewerThan, Present
<1>11. Restored'
  <2>1. target'.db = full.rows /\ target'.next = full.after + 1
    BY <1>1
  <2>2. full.after \in Nat /\ full.rows \in Copies /\ full.after <= Len(archives) /\ Len(archives) \in Nat
    BY <1>0, <1>1, TypedFacts DEF Ordered
  <2>3. BroughtBack' \subseteq Settled(full.start)
    BY <1>1, <2>1, <2>2 DEF BroughtBack, Settled, Present
  <2>4. \A r \in Settled(full.start) : full.rows[r] = db[r]
    BY <1>0, <1>1 DEF Faithful, Whole
  <2> QED BY <1>1, <2>1, <2>2, <2>3, <2>4 DEF Restored
<1> QED BY <1>4, <1>5, <1>6, <1>7, <1>8, <1>9, <1>10, <1>11 DEF BackupInv

LEMMA ImportInv == ASSUME BackupInv, ImportNext PROVE BackupInv'
<1>0. Typed /\ InScene /\ Ordered /\ Faithful /\ Marked /\ Selected /\ Covers /\ Restored
  BY DEF BackupInv
<1> DEFINE n == target.next
           rows == archives[n].rows
<1>1. /\ UNCHANGED <<now, db, open, scene, seen, marker, full, archives, script>>
      /\ target.step = "restoring" /\ n \in Taken
      /\ target' = IF Accepted(rows, target.db)
                   THEN [target EXCEPT !.db = Saved(rows, @), !.next = @ + 1]
                   ELSE [target EXCEPT !.step = "refused"]
  BY DEF ImportNext, production, Taken
<1>2. /\ target = [step |-> "restoring", db |-> target.db, next |-> n]
      /\ full # NoDump /\ n \in full.after + 1 .. Len(archives) + 1
      /\ target.db \in Copies /\ \A r \in BroughtBack : target.db[r] = db[r]
  BY <1>0, <1>1 DEF Typed, Restored
<1>3. \/ target' = [step |-> "restoring", db |-> Saved(rows, target.db), next |-> n + 1]
      \/ target' = [step |-> "refused", db |-> target.db, next |-> n]
  BY <1>1, <1>2
<1>4. Typed'
  <2>1. target' = [step |-> target'.step, db |-> target'.db, next |-> target'.next]
    BY <1>3
  <2> QED BY <1>0, <1>1, <2>1 DEF Typed
<1>5. InScene' /\ Ordered' /\ Marked'
  BY <1>0, <1>1 DEF InScene, Ordered, Marked, Present, Taken
<1>6. Faithful'
  BY <1>0, <1>1 DEF Faithful, Whole, Agrees, Settled, Present, Taken
<1>7. Selected' /\ Covers'
  BY <1>0, <1>1 DEF Selected, Covers, Settled, Selectable, NewerThan, Present, Taken, Passed
<1>8. CASE target' = [step |-> "refused", db |-> target.db, next |-> n]
  <2>1. Restored'
    BY <1>8 DEF Restored
  <2> QED BY <1>4, <1>5, <1>6, <1>7, <2>1 DEF BackupInv
<1>9. CASE target' = [step |-> "restoring", db |-> Saved(rows, target.db), next |-> n + 1]
  <2>1. target'.step = "restoring" /\ target'.db = Saved(rows, target.db) /\ target'.next = n + 1
    BY <1>9
  <2>2. /\ Taken = 1 .. Len(archives) /\ Len(archives) \in Nat /\ full.after \in Nat /\ full.start \in Nat
        /\ rows \in Copies /\ \A k \in Taken : archives[k].start \in Nat /\ archives[k].marked \in Nat
    BY <1>0, <1>1, TypedFacts
  <2>3. n + 1 \in full.after + 1 .. Len(archives) + 1 /\ full.after < n
    BY <1>1, <1>2, <2>2
  <2>4. Saved(rows, target.db) \in Copies /\ \A r \in Rows : Saved(rows, target.db)[r] =
                                                 IF rows[r] # Absent THEN rows[r] ELSE target.db[r]
    BY <1>2, <2>2 DEF Saved, Copies
  \* The archive has the row of now, or none.
  <2>5. \A r \in Settled(archives[n].start) : rows[r] \in {Absent, db[r]}
    BY <1>0, <1>1 DEF Faithful, Agrees
  <2>6. \A k \in Taken : full.start < archives[n].start /\ (k < n => archives[k].start < archives[n].start)
    BY <1>0, <1>1, <1>2, <2>2, <2>3 DEF Ordered
  <2>7. BroughtBack \subseteq Settled(archives[n].start)
    <3>1. ASSUME NEW r \in Settled(full.start) PROVE r \in Settled(archives[n].start)
      BY <1>0, <1>1, <2>2, <2>6 DEF Settled, Present, Typed
    <3>2. ASSUME NEW r \in Selectable, NEW k \in full.after + 1 .. n - 1, seen[r] <= archives[k].start
          PROVE  r \in Settled(archives[n].start)
      <4>1. k \in Taken /\ k < n /\ n \in Taken /\ r \in Present(db) /\ r \in Rows
        BY <1>1, <2>2, <2>3 DEF Selectable, Present
      <4> QED BY SMTT(30), <1>0, <2>2, <2>6, <3>2, <4>1 DEF Settled, Typed
    <3> QED BY <3>1, <3>2 DEF BroughtBack
  <2>8. \A r \in BroughtBack : Saved(rows, target.db)[r] = db[r]
    BY <1>2, <2>4, <2>5, <2>7 DEF Settled, Present
  \* A row that only this archive can bring back was written after the markers
  \* before it.
  <2>9. ASSUME NEW r \in Selectable, ~InWindow(r), seen[r] <= archives[n].start, r \notin BroughtBack
        PROVE  rows[r] = db[r]
    <3>0. /\ r \in Rows /\ r \in Present(db) /\ seen[r] \in Nat /\ db[r].value \in Nat
          /\ full.marked \in Nat /\ n \in Taken
      BY <1>0, <1>1, TypedFacts DEF Selectable, Present, Typed, Copies, Stamps
    <3>1. seen[r] > full.start
      BY <2>2, <2>9, <3>0 DEF BroughtBack, Settled
    <3>2. \A j \in 1 .. n - 1 : j \in Taken /\ seen[r] > archives[j].start
      <4> SUFFICES ASSUME NEW j \in 1 .. n - 1 PROVE j \in Taken /\ seen[r] > archives[j].start
        OBVIOUS
      <4>1. j \in Taken
        BY <1>1, <2>2
      <4>2. CASE j <= full.after
        <5>1. archives[j].start < full.start
          BY <1>0, <1>2, <4>1, <4>2 DEF Ordered
        <5> QED BY <2>2, <3>0, <3>1, <4>1, <5>1
      <4>3. CASE j > full.after
        <5>1. j \in full.after + 1 .. n - 1
          BY <2>2, <4>3
        <5>2. ~(seen[r] <= archives[j].start)
          BY <2>9, <5>1 DEF BroughtBack
        <5> QED BY <2>2, <3>0, <4>1, <5>2
      <4> QED BY <2>2, <4>1, <4>2, <4>3
    <3>3. /\ ~(db[r].value < full.marked)
          /\ \A j \in 1 .. n - 1 : ~(db[r].value < archives[j].marked)
      <4>1. \A j \in 1 .. n - 1 : archives[j] \in ToSet(archives)
        BY <3>2 DEF ToSet, Taken
      <4> QED BY <2>9, <3>1, <3>2, <4>1 DEF InWindow
    <3>4. r \in NewerThan(n - 1)
      BY <2>2, <3>0, <3>2, <3>3 DEF NewerThan
    <3>5. r \in Settled(archives[n].start)
      BY <2>9, <3>0 DEF Settled
    <3> QED BY <1>0, <1>2, <2>2, <2>3, <2>9, <3>0, <3>4, <3>5 DEF Covers
  <2>10. \A r \in BroughtBack' : Saved(rows, target.db)[r] = db[r]
    <3> SUFFICES ASSUME NEW r \in BroughtBack', r \notin BroughtBack PROVE Saved(rows, target.db)[r] = db[r]
      BY <2>8
    <3>1. r \in Selectable /\ ~InWindow(r) /\ \E k \in full.after + 1 .. n : seen[r] <= archives[k].start
      BY <1>1, <2>1, <2>2, <2>3 DEF BroughtBack, Settled, Selectable, InWindow, Present
    <3>2. seen[r] <= archives[n].start
      BY <1>1, <2>2, <2>3, <3>1 DEF BroughtBack
    <3> QED BY <2>4, <2>9, <3>1, <3>2 DEF Selectable, Present
  <2>11. Restored'
    BY <1>1, <1>2, <2>1, <2>3, <2>4, <2>10 DEF Restored
  <2> QED BY <1>4, <1>5, <1>6, <1>7, <2>11 DEF BackupInv
<1> QED BY <1>3, <1>8, <1>9

-----------------------------------------------------------------------------
LEMMA NextInv == BackupInv /\ [Next]_vars => BackupInv'
<1> SUFFICES ASSUME BackupInv, [Next]_vars PROVE BackupInv'
  OBVIOUS
<1>1. CASE Audit \/ Purge \/ \E w \in scene.works : Begin(w) \/ Commit(w)
  BY <1>1, AuditMoves, PurgeMoves, BeginMoves, CommitMoves, DataMovesInv
<1>2. CASE DumpFull \/ FinishFull \/ StartIncremental \/ RunQuery \/ WriteArchive \/ SetMarker
  BY <1>2, DumpInv, FinishInv, StartInv, QueryInv, WriteInv, MarkInv
<1>3. CASE RestoreFull \/ ImportNext
  BY <1>3, RestoreInv, ImportInv
<1>4. CASE UNCHANGED vars
  <2>1. UNCHANGED <<now, db, open, scene, seen, script, marker, full, archives, target>>
    BY <1>4 DEF vars
  <2>2. Typed' /\ InScene' /\ Ordered' /\ Marked'
    BY <2>1 DEF BackupInv, Typed, InScene, Ordered, Marked, Present, Taken
  <2>3. Faithful' /\ Selected' /\ Covers'
    BY <2>1 DEF BackupInv, Faithful, Whole, Agrees, Selected, Covers, Settled, Selectable, NewerThan, Present, Taken,
                Passed
  <2>4. Restored'
    BY <2>1 DEF BackupInv, Restored, BroughtBack, Settled, Selectable, InWindow, Present
  <2> QED BY <2>2, <2>3, <2>4 DEF BackupInv
<1> QED BY <1>1, <1>2, <1>3, <1>4 DEF Next

\* Once the dump and all archives after it are imported, every row is what it was
\* when the last export started, however transactions and queries interleave,
\* except for the rows that Backup!RestoreComplete names: those written between
\* an export and its marker, and those of tables that keep no time of change or
\* are in no incremental archive.
THEOREM ArchivesRestoreTheDatabase == Spec => []RestoreComplete
<1>1. ASSUME BackupInv PROVE RestoreComplete
  <2> SUFFICES ASSUME target.step = "restoring", target.next = Len(archives) + 1, NEW r \in Present(db),
                      ~InWindow(r), ~(TableOf[r] \in CreatedOnly /\ db[r].value # db[r].made),
                      ~(TableOf[r] \notin ToSet(SelectOrder) /\ seen[r] > full.start),
                      ~(seen[r] > IF archives = <<>> THEN full.start ELSE Last(archives).start)
               PROVE  target.db[r] = db[r]
    BY DEF RestoreComplete
  <2>1. /\ Typed /\ Ordered /\ full # NoDump /\ r \in Rows /\ seen[r] \in Nat
        /\ \A s \in BroughtBack : target.db[s] = db[s]
    BY <1>1 DEF BackupInv, Restored, Typed, Present
  <2>2. /\ Taken = 1 .. Len(archives) /\ Len(archives) \in Nat /\ full.after \in Nat /\ full.start \in Nat
        /\ \A k \in Taken : archives[k].start \in Nat
    BY <2>1, TypedFacts
  <2>3. CASE seen[r] <= full.start
    BY <2>1, <2>3 DEF BroughtBack, Settled
  <2>4. CASE ~(seen[r] <= full.start)
    <3>1. seen[r] > full.start
      BY <2>1, <2>2, <2>4
    <3>2. archives # <<>> /\ ~(seen[r] > Last(archives).start)
      BY <3>1
    <3>3. Len(archives) \in Taken /\ Last(archives) = archives[Len(archives)]
      BY <2>1, <2>2, <3>2, EmptySeq DEF Last, Typed
    <3>4. seen[r] <= archives[Len(archives)].start
      BY <2>1, <2>2, <3>2, <3>3
    <3>5. Len(archives) > full.after
      BY <2>1, <2>2, <3>1, <3>3, <3>4 DEF Ordered
    <3>6. r \in BroughtBack
      BY <2>1, <2>2, <3>1, <3>3, <3>5, <3>4 DEF BroughtBack, Selectable
    <3> QED BY <2>1, <3>6
  <2> QED BY <2>3, <2>4
<1> QED BY <1>1, InitInv, NextInv, PTL DEF Spec

\* An observation disappears only by the purge, and only if the table holds
\* exactly what the audit given to it listed (Backup!PurgeOnlyAudited).
THEOREM OnlyAuditedArePurged == Spec => PurgeOnlyAudited
<1>1. BackupInv /\ [Next]_vars => [\A r \in Rows : db[r] # Absent /\ db'[r] = Absent => Observations = audit]_vars
  BY PurgeStep
<1> QED BY <1>1, InitInv, NextInv, PTL DEF Spec, PurgeOnlyAudited
=============================================================================
