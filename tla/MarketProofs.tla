---------------------------- MODULE MarketProofs ----------------------------
(***************************************************************************)
(* Theorems about market data and what is made of it: the label of the      *)
(* daily bars, the recomposed versions of a series and the tests on         *)
(* perturbed prices; for every set of requests, sources, spans, plans,      *)
(* series, workers and variants, and every number of faults and crashes.    *)
(***************************************************************************)
EXTENDS MarketData, Recomposition, PerturbationTests, FiniteSetTheorems, WellFoundedInduction, TLAPS

-----------------------------------------------------------------------------
(* The label of the daily bars.  Bars without a basis are gone for good     *)
(* once they are gone, since an import of days stores current ones only.    *)
(* An update that covers the dataset deletes it before it stores, and       *)
(* keeps its claim while it goes on to the label.                           *)

Current(bars) == \A o \in DOMAIN bars : bars[o].basis = "current"
NoLegacy == Current(kline["1d"])

UpdateShape(k) ==
  DOMAIN k = {"op", "step", "todo", "interval", "start", "end", "cursor", "existing", "rows", "fetched",
              "written"}

\* Before Yahoo's answer is stored; what is stored is current; what covers the
\* dataset finds none but current bars, and so does the label that is written.
UpdateSound(k) ==
  /\ UpdateShape(k)
  /\ k.step \in {"bounds", "fetch", "delete", "store"} /\ source = "yahoo" => ~k.fetched
  /\ k.step \in {"delete", "store"} /\ k.interval = "1d" => Current(k.rows)
  /\ source = "yahoo" /\ k.interval = "1d" /\ IsFullCoverage(k.existing, k.start) =>
       (k.step = "store" \/ (k.step = "recall" /\ k.fetched) => NoLegacy)
  /\ source = "yahoo" /\ k.interval = "1d" /\ k.step = "record" =>
       (k.written.adjustment = "current" => NoLegacy)

LabelInv ==
  /\ DOMAIN kline = Intervals /\ DOMAIN label = Intervals /\ DOMAIN update = Updates
  /\ \A c \in Updates : UpdateSound(update[c])
  /\ source = "yahoo" /\ label["1d"].adjustment = "current" => NoLegacy

LEMMA ImportOfShape ==
  ASSUME NEW k, UpdateShape(k), NEW i, NEW s, NEW e
  PROVE  /\ UpdateShape(ImportOf(k, i, s, e))
         /\ ImportOf(k, i, s, e).step = "bounds"
         /\ ~ImportOf(k, i, s, e).fetched
<1>1. ~ImportOf(k, i, s, e).fetched
  BY Zenon DEF ImportOf, UpdateShape
<1> QED
  BY <1>1 DEF ImportOf, UpdateShape

LEMMA AfterImportShape ==
  ASSUME NEW k, UpdateShape(k)
  PROVE  UpdateShape(AfterImport(k)) /\ AfterImport(k).step \in {"latest", "load", "idle"}
<1>1. CASE k.op = "update" /\ Len(k.todo) > 0
  BY <1>1 DEF AfterImport, UpdateShape, NoUpdate
<1>2. CASE ~(k.op = "update" /\ Len(k.todo) > 0) /\ k.op = "repair"
  BY <1>2 DEF AfterImport, UpdateShape, NoUpdate
<1>3. CASE ~(k.op = "update" /\ Len(k.todo) > 0) /\ k.op # "repair"
  BY <1>3 DEF AfterImport, UpdateShape, NoUpdate
<1> QED
  BY <1>1, <1>2, <1>3

\* One update makes a step that brings no bar from before the labels back.
LEMMA LabelStep ==
  ASSUME LabelInv, NEW c \in Updates, source' = source,
         DOMAIN kline' = Intervals, DOMAIN label' = Intervals, DOMAIN update' = Updates,
         \A d \in Updates \ {c} : update'[d] = update[d],
         NoLegacy => NoLegacy', UpdateSound(update[c])',
         source = "yahoo" /\ label'["1d"].adjustment = "current" => NoLegacy'
  PROVE  LabelInv'
<1>1. ASSUME NEW d \in Updates \ {c} PROVE UpdateSound(update[d])'
  <2>1. UpdateSound(update[d]) /\ update'[d] = update[d]
    BY DEF LabelInv
  <2> QED
    BY <2>1 DEF UpdateSound
<1> QED
  BY <1>1 DEF LabelInv

\* The same for a step that leaves the bars and labels alone.
LEMMA LabelRemains ==
  ASSUME LabelInv, NEW c \in Updates, source' = source, kline' = kline, label' = label,
         NEW k, update' = [update EXCEPT ![c] = k], UpdateSound(update[c])'
  PROVE  LabelInv'
<1>1. DOMAIN update' = Updates /\ \A d \in Updates \ {c} : update'[d] = update[d]
  BY DEF LabelInv
<1>2. NoLegacy => NoLegacy'
  BY DEF NoLegacy
<1> QED
  BY <1>1, <1>2, LabelStep DEF LabelInv, NoLegacy

\* What Yahoo or Binance answers for days is current.
LEMMA AnswerCurrent ==
  ASSUME NEW s, NEW e
  PROVE  Current(Answer("1d", s, e))
BY DEF Answer, Current, BinancePage, YahooDays, Bar
\* Between its steps an update has no claim.
Unclaimed == {"idle", "latest", "audit", "load", "clear", "fill", "mark"}

\* A step of one update that leaves it without a claim, or at the beginning of
\* an import.
LEMMA LabelUnclaimed ==
  ASSUME LabelInv, NEW c \in Updates, source' = source, kline' = kline, label' = label,
         NEW k, update' = [update EXCEPT ![c] = k], UpdateShape(k),
         k.step \in Unclaimed \/ (k.step = "bounds" /\ ~k.fetched)
  PROVE  LabelInv'
<1>1. update'[c] = k
  BY DEF LabelInv
<1>2. UpdateSound(update[c])'
  BY <1>1 DEF UpdateSound, Unclaimed
<1> QED
  BY <1>2, LabelRemains

LEMMA LabelImports ==
  ASSUME LabelInv, NEW c \in Updates,
         ReadBounds(c) \/ Fetch(c) \/ DeleteKLines(c) \/ StoreKLines(c) \/ Recall(c) \/ Record(c)
  PROVE  LabelInv'
<1> DEFINE k == update[c]
<1>0. UpdateSound(k) /\ UpdateShape(k) /\ c \in DOMAIN update
  BY DEF LabelInv, UpdateSound
<1> USE DEF UpdateAt, UpdateGoto
<1>1. CASE ReadBounds(c)
  <2>1. PICK existing : update' = [update EXCEPT ![c].step = "fetch", ![c].existing = existing]
    BY <1>1 DEF ReadBounds
  <2> DEFINE m == [k EXCEPT !.step = "fetch", !.existing = existing]
  <2>2. update' = [update EXCEPT ![c] = m] /\ update'[c] = m
    BY <1>0, <2>1
  <2>3. m.step = "fetch" /\ m.fetched = k.fetched /\ UpdateShape(m)
    BY <1>0 DEF UpdateShape
  <2>4. source = "yahoo" => ~m.fetched
    BY <1>0, <1>1, <2>3 DEF ReadBounds, UpdateSound
  <2> HIDE DEF m
  <2>5. UpdateSound(update[c])'
    BY <1>1, <2>2, <2>3, <2>4 DEF UpdateSound, ReadBounds
  <2> QED
    BY <1>1, <2>2, <2>5, LabelRemains DEF ReadBounds
<1>2. CASE Fetch(c)
  <2> DEFINE rows == Answer(k.interval, k.cursor, k.end)
             step == CASE DOMAIN rows = {} -> "recall"
                       [] source # "binance" /\ IsFullCoverage(k.existing, k.start) -> "delete"
                       [] OTHER -> "store"
             m == [k EXCEPT !.step = step, !.rows = rows]
  <2>0. update' = [update EXCEPT ![c].step = step, ![c].rows = rows]
    BY <1>2, Zenon DEF Fetch
  <2>1. update' = [update EXCEPT ![c] = m]
    <3> HIDE DEF step, rows
    <3> QED
      BY <1>0, <2>0
  <2>2. /\ m.step = step /\ m.rows = rows /\ m.interval = k.interval /\ m.existing = k.existing
        /\ m.start = k.start /\ m.fetched = k.fetched /\ UpdateShape(m)
    BY <1>0 DEF UpdateShape
  <2>3. source = "yahoo" => ~k.fetched
    BY <1>0, <1>2 DEF Fetch, UpdateSound
  <2>4. m.interval = "1d" => Current(m.rows)
    BY <2>2, AnswerCurrent
  <2>5. /\ m.step \in {"recall", "delete", "store"}
        /\ m.step = "store" /\ source = "yahoo" => ~IsFullCoverage(m.existing, m.start)
    BY <2>2
  <2>6. update'[c] = m
    BY <1>0, <2>1
  <2> HIDE DEF m
  <2>7. UpdateSound(update[c])'
    BY <1>2, <2>2, <2>3, <2>4, <2>5, <2>6 DEF UpdateSound, Fetch
  <2> QED
    BY <1>2, <2>1, <2>7, LabelRemains DEF Fetch
<1>3. CASE DeleteKLines(c)
  <2> DEFINE m == [k EXCEPT !.step = "store"]
  <2>1. update' = [update EXCEPT ![c] = m] /\ update'[c] = m
    BY <1>0, <1>3 DEF DeleteKLines
  <2>2. /\ m.step = "store" /\ m.rows = k.rows /\ m.interval = k.interval /\ m.existing = k.existing
        /\ m.start = k.start /\ m.fetched = k.fetched /\ UpdateShape(m)
    BY <1>0 DEF UpdateShape
  <2>3. /\ kline' = [kline EXCEPT ![k.interval] = NoBars] /\ label' = label /\ source' = source
        /\ k.step = "delete"
    BY <1>3 DEF DeleteKLines
  <2>4. DOMAIN kline = Intervals /\ "1d" \in Intervals /\ DOMAIN label = Intervals
    BY DEF LabelInv, Intervals
  <2>5. Current(NoBars)
    BY DEF Current, NoBars
  <2>6. k.interval = "1d" => NoLegacy'
    BY <2>3, <2>4, <2>5 DEF NoLegacy
  <2>7. NoLegacy => NoLegacy'
    BY <2>3, <2>4, <2>6 DEF NoLegacy
  <2>8. UpdateSound(update[c])'
    <3>1. source = "yahoo" => ~m.fetched
      BY <1>0, <2>2, <2>3 DEF UpdateSound
    <3>2. m.interval = "1d" => Current(m.rows)
      BY <1>0, <2>2, <2>3 DEF UpdateSound
    <3> HIDE DEF m
    <3> QED
      BY <2>1, <2>2, <2>3, <2>6, <3>1, <3>2 DEF UpdateSound
  <2>9. DOMAIN kline' = Intervals /\ DOMAIN update' = Updates /\ \A d \in Updates \ {c} : update'[d] = update[d]
    BY <2>1, <2>3, <2>4 DEF LabelInv
  <2> QED
    BY <2>3, <2>4, <2>7, <2>8, <2>9, LabelStep DEF LabelInv
<1>4. CASE StoreKLines(c)
  <2>1. PICK cursor, step : /\ update' = [update EXCEPT ![c].step = step, ![c].fetched = TRUE, ![c].cursor = cursor]
                            /\ step = "fetch" \/ step = "recall"
                            /\ source = "yahoo" => step = "recall"
    BY <1>4 DEF StoreKLines
  <2> DEFINE m == [k EXCEPT !.step = step, !.fetched = TRUE, !.cursor = cursor]
  <2>2. update' = [update EXCEPT ![c] = m] /\ update'[c] = m
    BY <1>0, <2>1
  <2>3. /\ m.step = step /\ m.interval = k.interval /\ m.existing = k.existing
        /\ m.start = k.start /\ UpdateShape(m)
    BY <1>0 DEF UpdateShape
  <2>4. /\ kline' = [kline EXCEPT ![k.interval] = Upsert(@, k.rows)] /\ label' = label /\ source' = source
        /\ k.step = "store"
    BY <1>4 DEF StoreKLines
  <2>5. DOMAIN kline = Intervals /\ "1d" \in Intervals /\ DOMAIN label = Intervals
    BY DEF LabelInv, Intervals
  <2>6. k.interval = "1d" => Current(k.rows)
    BY <1>0, <2>4 DEF UpdateSound
  <2>7. k.interval = "1d" /\ NoLegacy => Current(Upsert(kline["1d"], k.rows))
    BY <2>6 DEF NoLegacy, Current, Upsert
  <2>8. NoLegacy => NoLegacy'
    BY <2>4, <2>5, <2>7 DEF NoLegacy
  <2>9. source = "yahoo" /\ m.interval = "1d" /\ IsFullCoverage(m.existing, m.start) => NoLegacy'
    BY <1>0, <2>3, <2>4, <2>8 DEF UpdateSound
  <2> HIDE DEF m
  <2>10. UpdateSound(update[c])'
    BY <2>1, <2>2, <2>3, <2>4, <2>9 DEF UpdateSound
  <2>11. DOMAIN kline' = Intervals /\ DOMAIN update' = Updates /\ \A d \in Updates \ {c} : update'[d] = update[d]
    BY <2>2, <2>4, <2>5 DEF LabelInv
  <2> QED
    BY <2>4, <2>5, <2>8, <2>10, <2>11, LabelStep DEF LabelInv
<1>5. CASE Recall(c)
  <2> DEFINE full == IsFullCoverage(k.existing, k.start)
             written == IF k.fetched THEN Written(label[k.interval], full) ELSE NoLabel
             m == [k EXCEPT !.step = "record", !.written = written, !.rows = NoBars, !.start = 0, !.cursor = 0]
  <2>1. /\ update' = [update EXCEPT ![c] = IF written = NoLabel THEN AfterImport(k) ELSE m]
        /\ kline' = kline /\ label' = label /\ source' = source /\ k.step = "recall"
    BY <1>5 DEF Recall
  <2>2. CASE written = NoLabel
    BY <1>0, <2>1, <2>2, AfterImportShape, LabelUnclaimed DEF Unclaimed
  <2>3. CASE written # NoLabel
    <3>1. update' = [update EXCEPT ![c] = m] /\ update'[c] = m
      BY <1>0, <2>1, <2>3
    <3>2. m.step = "record" /\ m.interval = k.interval /\ m.written = written /\ UpdateShape(m)
      BY <1>0 DEF UpdateShape
    <3>3. /\ k.fetched /\ written = Written(label[k.interval], full)
          /\ full \/ written.adjustment # "current" \/ label[k.interval] = Label("current", TRUE)
      BY <2>3 DEF Written, Label, NoLabel
    <3>4. source = "yahoo" /\ k.interval = "1d" /\ written.adjustment = "current" => NoLegacy
      BY <1>0, <2>1, <3>3 DEF UpdateSound, LabelInv, Label
    <3>5. NoLegacy' <=> NoLegacy
      BY <2>1 DEF NoLegacy
    <3> HIDE DEF m, written
    <3>6. UpdateSound(update[c])'
      BY <2>1, <3>1, <3>2, <3>4, <3>5 DEF UpdateSound
    <3> QED
      BY <2>1, <3>1, <3>6, LabelRemains
  <2> QED
    BY <2>2, <2>3
<1>6. CASE Record(c)
  <2>1. /\ update' = [update EXCEPT ![c] = AfterImport(k)] /\ label' = [label EXCEPT ![k.interval] = k.written]
        /\ kline' = kline /\ source' = source /\ k.step = "record"
    BY <1>6 DEF Record
  <2>2. UpdateShape(AfterImport(k)) /\ AfterImport(k).step \in {"latest", "load", "idle"}
    BY <1>0, AfterImportShape
  <2>3. update'[c] = AfterImport(k) /\ DOMAIN update' = Updates
        /\ \A d \in Updates \ {c} : update'[d] = update[d]
    BY <1>0, <2>1 DEF LabelInv
  <2>4. UpdateSound(update[c])'
    BY <2>2, <2>3 DEF UpdateSound
  <2>5. NoLegacy' <=> NoLegacy
    BY <2>1 DEF NoLegacy
  <2>6. source = "yahoo" /\ label'["1d"].adjustment = "current" => NoLegacy'
    <3>1. "1d" \in DOMAIN label
      BY DEF LabelInv, Intervals
    <3>2. CASE k.interval = "1d"
      BY <1>0, <2>1, <2>5, <3>1, <3>2 DEF UpdateSound
    <3>3. CASE k.interval # "1d"
      BY <2>1, <2>5, <3>3 DEF LabelInv
    <3> QED
      BY <3>2, <3>3
  <2>7. DOMAIN kline' = Intervals /\ DOMAIN label' = Intervals
    BY <2>1 DEF LabelInv
  <2> QED
    BY <2>1, <2>3, <2>4, <2>5, <2>6, <2>7, LabelStep
<1> QED
  BY <1>1, <1>2, <1>3, <1>4, <1>5, <1>6
LEMMA NoUpdateShape == UpdateShape(NoUpdate) /\ NoUpdate.step = "idle"
BY DEF UpdateShape, NoUpdate

LEMMA LabelRequests ==
  ASSUME LabelInv, NEW c \in Updates,
         \/ ReadLatest(c) \/ StartUpdate(c) \/ StartRepair(c) \/ UpdateFails(c) \/ Audit(c) \/ Load(c)
         \/ \E i \in Intervals, span \in Spans : Import(c, i, span[1], span[2])
  PROVE  LabelInv'
<1> DEFINE k == update[c]
<1>0. UpdateShape(k) /\ c \in DOMAIN update
  BY DEF LabelInv, UpdateSound
<1>a. ASSUME NEW m, UpdateShape(m), NEW i, NEW s, NEW e, update' = [update EXCEPT ![c] = ImportOf(m, i, s, e)],
             source' = source, kline' = kline, label' = label
      PROVE  LabelInv'
  BY <1>a, ImportOfShape, LabelUnclaimed
<1>1. CASE ReadLatest(c)
  <2> DEFINE m == [k EXCEPT !.todo = Tail(@)]
  <2>1. UpdateShape(m)
    BY <1>0 DEF UpdateShape
  <2>2. /\ source' = source /\ kline' = kline /\ label' = label
        /\ \/ update' = [update EXCEPT ![c] = AfterImport(m)]
           \/ \E i, s, e : update' = [update EXCEPT ![c] = ImportOf(m, i, s, e)]
    BY <1>1, Zenon DEF ReadLatest
  <2> HIDE DEF m
  <2> QED
    BY <1>a, <2>1, <2>2, AfterImportShape, LabelUnclaimed DEF Unclaimed
<1>2. CASE StartUpdate(c)
  <2> DEFINE m == [NoUpdate EXCEPT !.op = "update", !.step = "latest", !.todo = <<"1d", "1w">>, !.end = Now]
  <2>1. UpdateShape(m) /\ m.step = "latest"
    BY NoUpdateShape DEF UpdateShape
  <2>2. update' = [update EXCEPT ![c] = m] /\ source' = source /\ kline' = kline /\ label' = label
    BY <1>2, Zenon DEF StartUpdate
  <2> HIDE DEF m
  <2> QED
    BY <2>1, <2>2, LabelUnclaimed DEF Unclaimed
<1>3. CASE StartRepair(c)
  <2> DEFINE m == [NoUpdate EXCEPT !.op = "repair", !.step = "audit", !.written = label["1d"]]
  <2>1. UpdateShape(m) /\ m.step = "audit"
    BY NoUpdateShape DEF UpdateShape
  <2>2. update' = [update EXCEPT ![c] = m] /\ source' = source /\ kline' = kline /\ label' = label
    BY <1>3, Zenon DEF StartRepair
  <2> HIDE DEF m
  <2> QED
    BY <2>1, <2>2, LabelUnclaimed DEF Unclaimed
<1>4. CASE UpdateFails(c)
  <2>1. /\ source' = source /\ kline' = kline /\ label' = label
        /\ \/ update' = [update EXCEPT ![c] = AfterImport(k)]
           \/ update' = [update EXCEPT ![c] = NoUpdate]
    BY <1>4 DEF UpdateFails
  <2> QED
    BY <1>0, <2>1, AfterImportShape, NoUpdateShape, LabelUnclaimed DEF Unclaimed
<1>5. CASE Audit(c)
  <2> DEFINE m == [k EXCEPT !.step = "load"]
  <2>1. UpdateShape(m) /\ m.step = "load"
    BY <1>0 DEF UpdateShape
  <2>2. /\ source' = source /\ kline' = kline /\ label' = label
        /\ \/ update' = [update EXCEPT ![c] = m]
           \/ \E s, e : update' = [update EXCEPT ![c] = ImportOf(k, "1d", s, e)]
    BY <1>0, <1>5 DEF Audit, UpdateGoto
  <2> HIDE DEF m
  <2> QED
    BY <1>0, <1>a, <2>1, <2>2, LabelUnclaimed DEF Unclaimed
<1>6. CASE Load(c)
  <2> DEFINE m == [k EXCEPT !.step = "clear", !.rows = AggregateRows(kline["1d"], Now)]
  <2>1. UpdateShape(m) /\ m.step = "clear"
    BY <1>0 DEF UpdateShape
  <2>2. update' = [update EXCEPT ![c] = m] /\ source' = source /\ kline' = kline /\ label' = label
    BY <1>0, <1>6 DEF Load
  <2> HIDE DEF m
  <2> QED
    BY <2>1, <2>2, LabelUnclaimed DEF Unclaimed
<1>7. CASE \E i \in Intervals, span \in Spans : Import(c, i, span[1], span[2])
  <2>1. PICK i, s, e : Import(c, i, s, e)
    BY <1>7
  <2>2. UpdateShape([NoUpdate EXCEPT !.op = "import"])
    BY NoUpdateShape DEF UpdateShape
  <2> QED
    BY <1>a, <2>1, <2>2 DEF Import
<1> QED
  BY <1>1, <1>2, <1>3, <1>4, <1>5, <1>6, <1>7

\* The weeks of a repair.
LEMMA LabelWeeks ==
  ASSUME LabelInv, NEW c \in Updates, Clear(c) \/ Fill(c) \/ Mark(c)
  PROVE  LabelInv'
<1> DEFINE k == update[c]
<1>0. UpdateShape(k) /\ c \in DOMAIN update /\ DOMAIN update = Updates
  BY DEF LabelInv, UpdateSound
<1>1. PICK m : update' = [update EXCEPT ![c] = m] /\ UpdateShape(m) /\ m.step \in Unclaimed
  <2>1. UpdateShape([k EXCEPT !.step = "fill"]) /\ [k EXCEPT !.step = "fill"].step = "fill"
    BY <1>0 DEF UpdateShape
  <2>2. UpdateShape([k EXCEPT !.step = "mark"]) /\ [k EXCEPT !.step = "mark"].step = "mark"
    BY <1>0 DEF UpdateShape
  <2>3. CASE Clear(c)
    <3>1. \/ update' = [update EXCEPT ![c] = NoUpdate]
          \/ update' = [update EXCEPT ![c] = [k EXCEPT !.step = "fill"]]
      BY <2>3 DEF Clear
    <3> QED
      BY <2>1, <3>1, NoUpdateShape DEF Unclaimed
  <2>4. CASE Fill(c)
    <3>1. update' = [update EXCEPT ![c] = [k EXCEPT !.step = "mark"]]
      BY <1>0, <2>4 DEF Fill, UpdateGoto
    <3> QED
      BY <2>2, <3>1 DEF Unclaimed
  <2>5. CASE Mark(c)
    BY <2>5, NoUpdateShape DEF Mark, Unclaimed
  <2> QED
    BY <2>3, <2>4, <2>5
<1>2. update'[c] = m /\ DOMAIN update' = Updates /\ \A d \in Updates \ {c} : update'[d] = update[d]
  BY <1>0, <1>1
<1>3. UpdateSound(update[c])'
  BY <1>1, <1>2 DEF UpdateSound, Unclaimed
<1>4. DOMAIN kline = Intervals /\ DOMAIN label = Intervals
  BY DEF LabelInv
<1>5. /\ source' = source /\ DOMAIN kline' = Intervals /\ DOMAIN label' = Intervals
      /\ kline'["1d"] = kline["1d"] /\ label'["1d"] = label["1d"]
  <2>1. CASE Clear(c)
    BY <1>4, <2>1, "1d" # "1w" DEF Clear, Intervals
  <2>2. CASE Fill(c)
    BY <1>4, <2>2, "1d" # "1w" DEF Fill, Intervals
  <2>3. CASE Mark(c)
    BY <1>4, <2>3, "1d" # "1w" DEF Mark, Intervals
  <2> QED
    BY <2>1, <2>2, <2>3
<1>6. NoLegacy' <=> NoLegacy
  BY <1>5 DEF NoLegacy
<1> QED
  BY <1>2, <1>3, <1>5, <1>6, LabelStep DEF LabelInv

LEMMA LabelNext == LabelInv /\ [MarketNext]_marketVars => LabelInv'
<1> SUFFICES ASSUME LabelInv, [MarketNext]_marketVars PROVE LabelInv'
  OBVIOUS
<1>1. CASE DayCloses \/ UNCHANGED marketVars
  <2>1. source' = source /\ kline' = kline /\ label' = label /\ update' = update
    BY <1>1 DEF DayCloses, marketVars
  <2> QED
    BY <2>1 DEF LabelInv, UpdateSound, NoLegacy
<1>2. CASE MarketCrash
  <2>1. source' = source /\ kline' = kline /\ label' = label /\ update' = [c \in Updates |-> NoUpdate]
    BY <1>2 DEF MarketCrash
  <2>2. \A c \in Updates : UpdateSound(update[c])'
    BY <2>1, NoUpdateShape DEF UpdateSound
  <2> QED
    BY <2>1, <2>2 DEF LabelInv, NoLegacy
<1> QED
  BY <1>1, <1>2, LabelImports, LabelRequests, LabelWeeks DEF MarketNext, UpdateStep

\* Days that are labelled with Yahoo's adjusted prices contain no bar from before
\* the labels: for every source, week, page size and set of overlapping imports,
\* updates and repairs.
THEOREM LabelIsHonest == MarketSpec => []LabelHonest
<1>1. MarketInit => LabelInv
  <2> SUFFICES ASSUME MarketInit PROVE LabelInv
    OBVIOUS
  <2>1. /\ DOMAIN kline = Intervals /\ label = [i \in Intervals |-> NoLabel]
        /\ update = [c \in Updates |-> NoUpdate]
    BY DEF MarketInit
  <2>2. \A c \in Updates : UpdateSound(update[c])
    BY <2>1, NoUpdateShape DEF UpdateSound
  <2>3. label["1d"].adjustment # "current"
    BY <2>1 DEF Intervals, NoLabel
  <2> QED
    BY <2>1, <2>2, <2>3 DEF LabelInv
<1>2. LabelInv => LabelHonest
  BY DEF LabelInv, LabelHonest, Bars, NoLegacy, Current
<1> QED
  BY <1>1, <1>2, LabelNext, PTL DEF MarketSpec
-----------------------------------------------------------------------------
(* Recomposed versions.  A reservation that finds its series holds the row  *)
(* until it has written, so its number is free and only its key can be      *)
(* taken; one that does not find it loses to whoever creates the series,    *)
(* and finds it at its second try.  The contents of a version are written   *)
(* before the audit only; when publish looks at its rows they have been     *)
(* audited and are the ones that it publishes.                              *)

Keys == {KeyFor(w, p) : w \in Wanted, p \in Contents}

GenRow == [key : Keys, plan : Contents, name : Names, number : Nat \ {0}, task : Nat, versionTask : Nat,
           expanded : BOOLEAN, checked : BOOLEAN, integrity : {"pending", "valid"}, published : BOOLEAN,
           archived : BOOLEAN, rows : Nat, klines : Nat, results : SUBSET (1 .. 3)]

TaskRow == [gen : Nat, plan : Contents, done : 0 .. 3, failed : BOOLEAN]

Reserving == {"series", "insert", "conflict"}
Linking == {"task", "link"}

RequestRow == [step : Reserving \cup Linking \cup {"idle", "preview", "rows", "out"}, plan : Contents \cup {0},
               key : Keys \cup {NoRequest.key}, name : Names \cup {"none"}, number : Nat, tries : Nat,
               found : BOOLEAN, gen : Nat, linked : Nat, task : Nat]

Looked == {"version", "work", "write"}

ExecutionRow == [step : Looked \cup {"idle", "generation"}, task : Nat, stage : 0 .. 3, owner : BOOLEAN,
                 gen : GenRow \cup {<<>>}, version : GenRow \cup {<<>>}]

RowsTyped ==
  /\ content \in Contents
  /\ series \in [Names -> {"none", "open", "archived"}]
  /\ generation \in Seq(GenRow) /\ task \in Seq(TaskRow)
  /\ \A t \in DOMAIN task : task[t].gen \in DOMAIN generation

RequestTyped(c) ==
  /\ request[c] \in RequestRow
  /\ request[c].step \in Reserving \cup Linking => request[c].plan \in Contents
  /\ request[c].step \in Reserving => request[c].name \in Names /\ request[c].key \in Keys
  /\ request[c].step = "insert" => request[c].number # 0
  /\ request[c].step \in Linking => request[c].gen \in DOMAIN generation
  /\ request[c].step = "link" => request[c].task \in DOMAIN task

ExecutionTyped(w) ==
  /\ execution[w] \in ExecutionRow
  /\ execution[w].step # "idle" => execution[w].task \in DOMAIN task /\ execution[w].stage \in 1 .. 3
  /\ execution[w].owner => execution[w].step # "idle"
  /\ execution[w].step \in Looked => execution[w].gen \in GenRow
  /\ execution[w].step = "write" => execution[w].version \in GenRow

SeriesTyped ==
  /\ RowsTyped
  /\ DOMAIN request = Requests /\ DOMAIN execution = Workers
  /\ \A c \in Requests : RequestTyped(c)
  /\ \A w \in Workers : ExecutionTyped(w)

\* A series whose row is locked gets its next version from whoever holds it.
NumberFree(c) ==
  \A g \in DOMAIN generation : generation[g].name = request[c].name => generation[g].number # request[c].number

Lost(c) == WithKey(request[c].key) # {} \/ (request[c].tries = 0 /\ series[request[c].name] # "none")

ReservationSound(c) ==
  /\ request[c].step # "out"
  /\ request[c].step = "series" =>
       request[c].tries = 0 \/ (request[c].tries = 1 /\ series[request[c].name] # "none")
  /\ request[c].step = "insert" =>
       /\ request[c].number <= Len(generation) + 1
       /\ request[c].tries = 0 \/ (request[c].tries = 1 /\ request[c].found)
       /\ request[c].found => series[request[c].name] # "none" /\ NumberFree(c)
  /\ request[c].step = "conflict" => Lost(c)

Holds(c) == RequestAt(c, "insert") /\ request[c].found

ReservationInv ==
  /\ \A g \in DOMAIN generation : generation[g].number <= Len(generation) /\ series[generation[g].name] # "none"
  /\ \A c \in Requests : ReservationSound(c)
  /\ \A c, d \in Requests : Holds(c) /\ Holds(d) /\ request[c].name = request[d].name => c = d

\* Publish has found an audited version, and its rows.
PublishSound(w) ==
  /\ execution[w].step = "write" =>
       execution[w].stage = 3 /\ execution[w].version.rows = generation[GenOf(w)].rows
  /\ execution[w].step \in {"work", "write"} /\ execution[w].stage = 3 =>
       generation[GenOf(w)].integrity = "valid"

PublishInv == PublishedAsAudited /\ \A w \in Workers : PublishSound(w)
\* Nothing that was created goes away or changes its name; an audited version
\* keeps its rows.
SeriesGrows ==
  /\ DOMAIN generation \subseteq DOMAIN generation'
  /\ \A g \in DOMAIN generation :
       /\ generation'[g].key = generation[g].key /\ generation'[g].name = generation[g].name
       /\ generation'[g].number = generation[g].number
       /\ generation[g].integrity = "valid" =>
            generation'[g].integrity = "valid" /\ generation'[g].rows = generation[g].rows
  /\ DOMAIN task \subseteq DOMAIN task'
  /\ \A t \in DOMAIN task : task'[t].gen = task[t].gen /\ task'[t].plan = task[t].plan
  /\ \A n \in Names : series[n] # "none" => series'[n] # "none"

LEMMA SeqExcept ==
  ASSUME NEW S, NEW s \in Seq(S), NEW i \in DOMAIN s, NEW r \in S
  PROVE  /\ [s EXCEPT ![i] = r] \in Seq(S) /\ DOMAIN [s EXCEPT ![i] = r] = DOMAIN s
         /\ Len([s EXCEPT ![i] = r]) = Len(s)
OBVIOUS

LEMMA SeqAppend ==
  ASSUME NEW S, NEW s \in Seq(S), NEW r \in S
  PROVE  /\ Append(s, r) \in Seq(S) /\ Len(Append(s, r)) = Len(s) + 1
         /\ DOMAIN s = 1 .. Len(s) /\ DOMAIN Append(s, r) = 1 .. Len(s) + 1
         /\ \A i \in DOMAIN s : Append(s, r)[i] = s[i]
         /\ Append(s, r)[Len(s) + 1] = r
OBVIOUS

\* A step that leaves the rows alone.
LEMMA RowsRemain ==
  ASSUME RowsTyped, content' = content, series' = series, generation' = generation, task' = task
  PROVE  RowsTyped' /\ SeriesGrows
BY DEF RowsTyped, SeriesGrows

\* Rows of the tasks in progress.
LEMMA TaskRowOf ==
  ASSUME SeriesTyped, NEW w \in Workers, execution[w].step # "idle"
  PROVE  /\ execution[w].task \in DOMAIN task /\ Doing(w) \in TaskRow /\ execution[w].stage \in 1 .. 3
         /\ GenOf(w) \in DOMAIN generation /\ generation[GenOf(w)] \in GenRow
<1>1. execution[w].task \in DOMAIN task /\ execution[w].stage \in 1 .. 3
  BY DEF SeriesTyped, ExecutionTyped
<1>2. task \in Seq(TaskRow) /\ generation \in Seq(GenRow)
  BY DEF SeriesTyped, RowsTyped
<1>3. Doing(w) \in TaskRow
  BY <1>1, <1>2 DEF Doing
<1>4. GenOf(w) \in DOMAIN generation
  BY <1>1 DEF GenOf, Doing, SeriesTyped, RowsTyped
<1>5. generation[GenOf(w)] \in GenRow
  BY <1>2, <1>4
<1> QED
  BY <1>1, <1>3, <1>4, <1>5

\* A version gets new contents, and its task may have done one stage more.
LEMMA VersionChanges ==
  ASSUME SeriesTyped, content' = content, series' = series,
         NEW i \in DOMAIN generation, NEW g \in GenRow, generation' = [generation EXCEPT ![i] = g],
         g.key = generation[i].key, g.name = generation[i].name, g.number = generation[i].number,
         generation[i].integrity = "valid" => g.integrity = "valid" /\ g.rows = generation[i].rows,
         \/ task' = task
         \/ \E t \in DOMAIN task, r \in TaskRow :
              task' = [task EXCEPT ![t] = r] /\ r.gen = task[t].gen /\ r.plan = task[t].plan
  PROVE  RowsTyped' /\ SeriesGrows
<1>0. generation \in Seq(GenRow) /\ task \in Seq(TaskRow)
  BY DEF SeriesTyped, RowsTyped
<1>1. /\ generation' \in Seq(GenRow) /\ DOMAIN generation' = DOMAIN generation
      /\ \A h \in DOMAIN generation : generation'[h] = IF h = i THEN g ELSE generation[h]
  BY <1>0, SeqExcept
<1>2. /\ task' \in Seq(TaskRow) /\ DOMAIN task' = DOMAIN task
      /\ \A t \in DOMAIN task : task'[t].gen = task[t].gen /\ task'[t].plan = task[t].plan
  <2>1. CASE task' = task
    BY <1>0, <2>1
  <2>2. CASE task' # task
    <3>1. PICK t \in DOMAIN task, r \in TaskRow :
            task' = [task EXCEPT ![t] = r] /\ r.gen = task[t].gen /\ r.plan = task[t].plan
      BY <2>2
    <3>2. /\ task' \in Seq(TaskRow) /\ DOMAIN task' = DOMAIN task
          /\ \A u \in DOMAIN task : task'[u] = IF u = t THEN r ELSE task[u]
      BY <1>0, <3>1, SeqExcept
    <3> QED
      BY <3>1, <3>2
  <2> QED
    BY <2>1, <2>2
<1>3. RowsTyped'
  BY <1>1, <1>2 DEF SeriesTyped, RowsTyped
<1>4. SeriesGrows
  <2>1. \A h \in DOMAIN generation :
          /\ generation'[h].key = generation[h].key /\ generation'[h].name = generation[h].name
          /\ generation'[h].number = generation[h].number
          /\ generation[h].integrity = "valid" =>
               generation'[h].integrity = "valid" /\ generation'[h].rows = generation[h].rows
    BY <1>1
  <2> QED
    BY <1>1, <1>2, <2>1 DEF SeriesGrows
<1> QED
  BY <1>3, <1>4

LEMMA SucceedRows ==
  ASSUME SeriesTyped, content' = content, series' = series,
         NEW w \in Workers, execution[w].step # "idle", NEW g \in GenRow, Succeed(w, g),
         g.key = generation[GenOf(w)].key, g.name = generation[GenOf(w)].name,
         g.number = generation[GenOf(w)].number,
         generation[GenOf(w)].integrity = "valid" =>
           g.integrity = "valid" /\ g.rows = generation[GenOf(w)].rows
  PROVE  RowsTyped' /\ SeriesGrows
<1>0. /\ execution[w].task \in DOMAIN task /\ Doing(w) \in TaskRow /\ execution[w].stage \in 1 .. 3
      /\ GenOf(w) \in DOMAIN generation
  BY TaskRowOf
<1>1. CASE execution[w].owner
  <2> DEFINE r == [Doing(w) EXCEPT !.done = execution[w].stage]
             h == [g EXCEPT !.results = @ \cup {execution[w].stage}]
  <2>1. task' = [task EXCEPT ![execution[w].task] = r] /\ generation' = [generation EXCEPT ![GenOf(w)] = h]
    BY <1>1 DEF Succeed, Doing
  <2>2. r \in TaskRow /\ r.gen = Doing(w).gen /\ r.plan = Doing(w).plan
    BY <1>0 DEF TaskRow
  <2>3. /\ h \in GenRow /\ h.key = g.key /\ h.name = g.name /\ h.number = g.number
        /\ h.integrity = g.integrity /\ h.rows = g.rows
    BY <1>0 DEF GenRow
  <2> HIDE DEF r, h
  <2> QED
    BY <1>0, <2>1, <2>2, <2>3, VersionChanges DEF Doing
<1>2. CASE ~execution[w].owner
  BY <1>0, <1>2, VersionChanges DEF Succeed
<1> QED
  BY <1>1, <1>2

LEMMA FailRows ==
  ASSUME SeriesTyped, content' = content, series' = series,
         NEW w \in Workers, execution[w].step # "idle", Fail(w)
  PROVE  RowsTyped' /\ SeriesGrows
<1>0. /\ execution[w].task \in DOMAIN task /\ Doing(w) \in TaskRow
      /\ GenOf(w) \in DOMAIN generation /\ generation[GenOf(w)] \in GenRow
  BY TaskRowOf
<1>1. generation' = [generation EXCEPT ![GenOf(w)] = generation[GenOf(w)]]
  BY <1>0 DEF Fail, SeriesTyped, RowsTyped
<1> DEFINE r == [Doing(w) EXCEPT !.failed = TRUE]
<1>2. r \in TaskRow /\ r.gen = Doing(w).gen /\ r.plan = Doing(w).plan
  BY <1>0 DEF TaskRow
<1>3. task' = task \/ task' = [task EXCEPT ![execution[w].task] = r]
  BY DEF Fail, Doing
<1> HIDE DEF r
<1> QED
  BY <1>0, <1>1, <1>2, <1>3, VersionChanges DEF Doing

\* Whoever made no step still knows his rows.
LEMMA OthersStayTyped ==
  ASSUME SeriesTyped, SeriesGrows
  PROVE  /\ \A c \in Requests : request'[c] = request[c] => RequestTyped(c)'
         /\ \A w \in Workers : execution'[w] = execution[w] => ExecutionTyped(w)'
<1>1. ASSUME NEW c \in Requests, request'[c] = request[c] PROVE RequestTyped(c)'
  <2>1. RequestTyped(c)
    BY DEF SeriesTyped
  <2> QED
    BY <1>1, <2>1 DEF RequestTyped, SeriesGrows
<1>2. ASSUME NEW w \in Workers, execution'[w] = execution[w] PROVE ExecutionTyped(w)'
  <2>1. ExecutionTyped(w)
    BY DEF SeriesTyped
  <2> QED
    BY <1>2, <2>1 DEF ExecutionTyped, SeriesGrows
<1> QED
  BY <1>1, <1>2

LEMMA RequestStays ==
  ASSUME SeriesTyped, RowsTyped', SeriesGrows, execution' = execution,
         NEW c \in Requests, NEW k, request' = [request EXCEPT ![c] = k], RequestTyped(c)'
  PROVE  SeriesTyped'
<1>1. DOMAIN request' = Requests /\ \A d \in Requests \ {c} : request'[d] = request[d]
  BY DEF SeriesTyped
<1> QED
  BY <1>1, OthersStayTyped DEF SeriesTyped

LEMMA ExecutionStays ==
  ASSUME SeriesTyped, RowsTyped', SeriesGrows, request' = request,
         NEW w \in Workers, NEW k, execution' = [execution EXCEPT ![w] = k], ExecutionTyped(w)'
  PROVE  SeriesTyped'
<1>1. DOMAIN execution' = Workers /\ \A v \in Workers \ {w} : execution'[v] = execution[v]
  BY DEF SeriesTyped
<1> QED
  BY <1>1, OthersStayTyped DEF SeriesTyped

LEMMA NoRequestTyped == NoRequest \in RequestRow /\ NoRequest.step = "idle"
BY DEF NoRequest, RequestRow

LEMMA NoExecutionTyped == NoExecution \in ExecutionRow /\ NoExecution.step = "idle" /\ ~NoExecution.owner
<1>1. ~NoExecution.owner
  BY Zenon DEF NoExecution
<1>2. NoExecution.owner \in BOOLEAN
  BY Zenon DEF NoExecution
<1> QED
  BY <1>1 DEF NoExecution, ExecutionRow

\* An execution is over.
LEMMA ExecutionEnds ==
  ASSUME SeriesTyped, RowsTyped', SeriesGrows, request' = request,
         NEW w \in Workers, execution' = [execution EXCEPT ![w] = NoExecution]
  PROVE  SeriesTyped'
<1>1. execution'[w] = NoExecution
  BY DEF SeriesTyped
<1>2. ExecutionTyped(w)'
  BY <1>1, NoExecutionTyped DEF ExecutionTyped, Looked
<1> QED
  BY <1>2, ExecutionStays

LEMMA RequestEnds ==
  ASSUME SeriesTyped, RowsTyped', SeriesGrows, execution' = execution,
         NEW c \in Requests, request' = [request EXCEPT ![c] = NoRequest]
  PROVE  SeriesTyped'
<1>1. request'[c] = NoRequest
  BY DEF SeriesTyped
<1>2. RequestTyped(c)'
  BY <1>1, NoRequestTyped DEF RequestTyped, Reserving, Linking
<1> QED
  BY <1>2, RequestStays

LEMMA ExecutionStepTyped ==
  ASSUME SeriesTyped, NEW w \in Workers, ExecutionStep(w)
  PROVE  SeriesTyped' /\ SeriesGrows
<1> DEFINE v == generation[GenOf(w)]
<1>0. /\ content' = content /\ series' = series /\ request' = request
      /\ execution[w].step # "idle"
  BY DEF ExecutionStep, ReadGeneration, ReadVersion, ReadSeries, WriteRows, WriteAudit, Publish, Executes
<1>1. v \in GenRow /\ GenOf(w) \in DOMAIN generation
  BY <1>0, TaskRowOf
<1>2. RowsTyped /\ ExecutionTyped(w) /\ w \in DOMAIN execution
  BY DEF SeriesTyped
<1>3. ASSUME Fail(w) PROVE SeriesTyped' /\ SeriesGrows
  BY <1>0, <1>3, FailRows, ExecutionEnds DEF Fail
<1>4. ASSUME NEW g \in GenRow, Succeed(w, g), g.key = v.key, g.name = v.name, g.number = v.number,
             v.integrity = "valid" => g.integrity = "valid" /\ g.rows = v.rows
      PROVE  SeriesTyped' /\ SeriesGrows
  <2>1. RowsTyped' /\ SeriesGrows
    BY <1>0, <1>4, SucceedRows
  <2> QED
    BY <1>0, <1>4, <2>1, ExecutionEnds DEF Succeed
<1>5. ASSUME NEW k, execution' = [execution EXCEPT ![w] = k], task' = task, generation' = generation,
             k \in ExecutionRow, k.task = execution[w].task, k.stage = execution[w].stage,
             k.step \in Looked, k.gen \in GenRow, k.step = "write" => k.version \in GenRow
      PROVE  SeriesTyped' /\ SeriesGrows
  <2>1. RowsTyped' /\ SeriesGrows
    BY <1>0, <1>2, <1>5, RowsRemain
  <2>2. execution'[w] = k
    BY <1>2, <1>5
  <2>3. ExecutionTyped(w)'
    BY <1>0, <1>2, <1>5, <2>2 DEF ExecutionTyped, Looked
  <2> QED
    BY <1>0, <1>5, <2>1, <2>3, ExecutionStays
<1>6. CASE ReadGeneration(w)
  <2> DEFINE k == [execution[w] EXCEPT !.step = "version", !.gen = v]
  <2>1. Fail(w) \/ (execution' = [execution EXCEPT ![w] = k] /\ task' = task /\ generation' = generation)
    BY <1>2, <1>6 DEF ReadGeneration
  <2>2. k \in ExecutionRow /\ k.task = execution[w].task /\ k.stage = execution[w].stage /\ k.step = "version"
        /\ k.gen = v
    BY <1>1, <1>2 DEF ExecutionTyped, ExecutionRow, Looked
  <2> QED
    BY <1>1, <1>3, <1>5, <2>1, <2>2 DEF Looked
<1>7. CASE ReadVersion(w)
  <2> DEFINE k == [execution[w] EXCEPT !.step = "work", !.version = v]
  <2>1. \/ Fail(w) \/ Succeed(w, v)
        \/ execution' = [execution EXCEPT ![w] = k] /\ task' = task /\ generation' = generation
    BY <1>2, <1>7 DEF ReadVersion
  <2>2. k \in ExecutionRow /\ k.task = execution[w].task /\ k.stage = execution[w].stage /\ k.step = "work"
        /\ k.gen \in GenRow
    BY <1>1, <1>2, <1>7 DEF ExecutionTyped, ExecutionRow, Looked, ReadVersion
  <2> QED
    BY <1>1, <1>3, <1>4, <1>5, <2>1, <2>2 DEF Looked
<1>8. CASE ReadSeries(w)
  <2> DEFINE k == [execution[w] EXCEPT !.step = "write", !.version = v]
  <2>1. \/ Fail(w)
        \/ execution' = [execution EXCEPT ![w] = k] /\ task' = task /\ generation' = generation
    BY <1>2, <1>8 DEF ReadSeries
  <2>2. k \in ExecutionRow /\ k.task = execution[w].task /\ k.stage = execution[w].stage /\ k.step = "write"
        /\ k.gen \in GenRow /\ k.version = v
    BY <1>1, <1>2, <1>8 DEF ExecutionTyped, ExecutionRow, Looked, ReadSeries, Executes
  <2> QED
    BY <1>1, <1>3, <1>5, <2>1, <2>2 DEF Looked
<1>9. CASE WriteRows(w)
  <2> DEFINE g == [v EXCEPT !.rows = @ + 1, !.expanded = TRUE]
  <2>0. v.rows + 1 \in Nat
    BY <1>1 DEF GenRow
  <2>1. g \in GenRow /\ g.key = v.key /\ g.name = v.name /\ g.number = v.number
    <3> DEFINE n == v.rows + 1
    <3>1. g = [v EXCEPT !.rows = n, !.expanded = TRUE]
      BY <1>1 DEF GenRow
    <3> HIDE DEF n, g
    <3> QED
      BY <1>1, <2>0, <3>1 DEF GenRow, n
  <2>2. Fail(w) \/ (Expandable(v) /\ Succeed(w, g))
    BY <1>9 DEF WriteRows
  <2> HIDE DEF g
  <2> QED
    BY <1>3, <1>4, <2>1, <2>2 DEF Expandable
<1>10. CASE WriteAudit(w)
  <2> DEFINE g == [v EXCEPT !.integrity = IF v.published THEN @ ELSE "valid", !.checked = TRUE]
  <2>1. g \in GenRow /\ g.key = v.key /\ g.name = v.name /\ g.number = v.number /\ g.rows = v.rows
        /\ g.integrity \in {v.integrity, "valid"}
    BY <1>1 DEF GenRow
  <2>2. Succeed(w, g)
    BY <1>10 DEF WriteAudit
  <2> HIDE DEF g
  <2> QED
    BY <1>4, <2>1, <2>2
<1>11. CASE Publish(w)
  <2> DEFINE g == [v EXCEPT !.published = TRUE, !.klines = execution[w].version.rows]
  <2>1. execution[w].version.rows \in Nat
    BY <1>2, <1>11 DEF Publish, Executes, ExecutionTyped, GenRow
  <2>2. g \in GenRow /\ g.key = v.key /\ g.name = v.name /\ g.number = v.number /\ g.rows = v.rows
        /\ g.integrity = v.integrity
    BY <1>1, <2>1 DEF GenRow
  <2>3. Fail(w) \/ Succeed(w, g)
    BY <1>11 DEF Publish
  <2> HIDE DEF g
  <2> QED
    BY <1>3, <1>4, <2>2, <2>3
<1> QED
  BY <1>6, <1>7, <1>8, <1>9, <1>10, <1>11 DEF ExecutionStep
\* A set of numbers has a least one, since initial segments are finite.
LEMMA LeastNumber ==
  ASSUME NEW T \in SUBSET Nat, T # {}
  PROVE  \E n \in T : \A m \in T : n <= m
<1> DEFINE Initial == {0 .. n : n \in T}
<1>1. \A n \in T : 0 .. n \subseteq Nat /\ IsFiniteSet(0 .. n)
  BY FS_Interval
<1>2. Initial \subseteq FiniteSubsetsOf(Nat) /\ Initial # {}
  BY <1>1 DEF FiniteSubsetsOf
<1>3. PICK x \in Initial : \A y \in Initial : ~(<<y, x>> \in StrictSubsetOrdering(Nat))
  BY <1>2, FS_StrictSubsetOrderingWellFounded, WFMin
<1>4. PICK n \in T : x = 0 .. n
  BY <1>3
<1>5. ASSUME NEW m \in T, m < n PROVE FALSE
  <2>1. 0 .. m \subseteq 0 .. n /\ n \in 0 .. n /\ n \notin 0 .. m
    BY <1>5
  <2>2. <<0 .. m, 0 .. n>> \in StrictSubsetOrdering(Nat)
    BY <2>1 DEF StrictSubsetOrdering
  <2> QED
    BY <1>3, <1>4, <2>2
<1> QED
  BY <1>5

\* A bounded set of numbers has a greatest one: its least upper bound.
LEMMA MaxOfBounded ==
  ASSUME NEW S \in SUBSET Nat, 0 \in S, NEW b \in Nat, \A x \in S : x <= b
  PROVE  Max(S) \in S /\ \A x \in S : Max(S) >= x
<1> DEFINE Upper == {n \in Nat : \A x \in S : x <= n}
<1>1. PICK n \in Upper : \A m \in Upper : n <= m
  <2>1. Upper \in SUBSET Nat /\ b \in Upper
    OBVIOUS
  <2> QED
    BY <2>1, LeastNumber
<1>2. n \in S
  <2>1. CASE n = 0
    BY <2>1
  <2>2. CASE n # 0
    <3>1. n - 1 \in Nat /\ n - 1 \notin Upper
      BY <1>1, <2>2
    <3>2. PICK x \in S : ~(x <= n - 1)
      BY <3>1
    <3> QED
      BY <1>1, <3>2
  <2> QED
    BY <2>1, <2>2
<1>3. n \in S /\ \A x \in S : n >= x
  BY <1>1, <1>2
<1> QED
  BY <1>3 DEF Max

\* A new version gets a number that no version of the series has.
LEMMA NextNumberFree ==
  ASSUME SeriesTyped, \A g \in DOMAIN generation : generation[g].number <= Len(generation), NEW n
  PROVE  /\ NextNumber(n) \in Nat \ {0} /\ NextNumber(n) <= Len(generation) + 1
         /\ \A g \in DOMAIN generation : generation[g].name = n => generation[g].number # NextNumber(n)
<1> DEFINE S == {0} \cup {generation[g].number : g \in VersionsOf(n)}
<1>1. generation \in Seq(GenRow) /\ Len(generation) \in Nat
  BY DEF SeriesTyped, RowsTyped
<1>2. \A g \in DOMAIN generation : generation[g].number \in Nat
  <2>1. \A g \in DOMAIN generation : generation[g] \in GenRow
    BY <1>1
  <2> QED
    BY <2>1 DEF GenRow
<1>3. S \in SUBSET Nat /\ 0 \in S /\ \A x \in S : x <= Len(generation)
  BY <1>1, <1>2 DEF VersionsOf
<1>4. Max(S) \in S /\ \A x \in S : Max(S) >= x
  BY <1>1, <1>3, MaxOfBounded
<1>5. NextNumber(n) = Max(S) + 1
  BY DEF NextNumber
<1>6. ASSUME NEW g \in DOMAIN generation, generation[g].name = n PROVE generation[g].number \in S
  BY <1>6 DEF VersionsOf
<1> HIDE DEF S
<1>7. Max(S) \in Nat /\ Max(S) <= Len(generation)
  BY <1>3, <1>4
<1> QED
  BY <1>1, <1>2, <1>4, <1>5, <1>6, <1>7
LEMMA NewGenerationTyped ==
  ASSUME NEW k \in RequestRow, k.plan \in Contents, k.name \in Names, k.key \in Keys, k.number # 0
  PROVE  /\ NewGeneration(k) \in GenRow /\ NewGeneration(k).key = k.key /\ NewGeneration(k).name = k.name
         /\ NewGeneration(k).number = k.number /\ NewGeneration(k).integrity = "pending"
         /\ ~NewGeneration(k).published
<1>1. ~NewGeneration(k).published
  BY Zenon DEF NewGeneration
<1>2. k.number \in Nat \ {0}
  BY DEF RequestRow
<1>3. NewGeneration(k).results \in SUBSET (1 .. 3)
  BY DEF NewGeneration
<1> QED
  BY <1>1, <1>2 DEF NewGeneration, GenRow

\* What a reservation inserts.
LEMMA InsertRows ==
  ASSUME SeriesTyped, NEW c \in Requests, Insert(c), ~Violates(request[c])
  PROVE  /\ RowsTyped' /\ SeriesGrows
         /\ series' = [series EXCEPT ![request[c].name] = "open"]
         /\ generation \in Seq(GenRow) /\ generation' = Append(generation, NewGeneration(request[c]))
         /\ Len(generation') = Len(generation) + 1
         /\ DOMAIN generation = 1 .. Len(generation) /\ DOMAIN generation' = 1 .. Len(generation) + 1
         /\ \A g \in DOMAIN generation : generation'[g] = generation[g]
         /\ generation'[Len(generation) + 1] = NewGeneration(request[c])
         /\ NewGeneration(request[c]) \in GenRow
<1>0. RowsTyped /\ RequestTyped(c) /\ generation \in Seq(GenRow)
  BY DEF SeriesTyped, RowsTyped
<1>1. /\ series' = [series EXCEPT ![request[c].name] = "open"] /\ content' = content /\ task' = task
      /\ generation' = Append(generation, NewGeneration(request[c])) /\ request[c].step = "insert"
  BY DEF Insert, RequestAt
<1>2. NewGeneration(request[c]) \in GenRow /\ request[c].name \in Names
  BY <1>0, <1>1, NewGenerationTyped DEF RequestTyped, Reserving
<1>3. /\ generation' \in Seq(GenRow) /\ Len(generation') = Len(generation) + 1
      /\ DOMAIN generation = 1 .. Len(generation) /\ DOMAIN generation' = 1 .. Len(generation) + 1
      /\ \A g \in DOMAIN generation : generation'[g] = generation[g]
      /\ generation'[Len(generation) + 1] = NewGeneration(request[c])
  BY <1>0, <1>1, <1>2, SeqAppend
<1>4. DOMAIN generation \subseteq DOMAIN generation'
  <2>1. Len(generation) \in Nat
    BY <1>0
  <2> QED
    BY <1>3, <2>1
<1>5. RowsTyped' /\ SeriesGrows
  BY <1>0, <1>1, <1>2, <1>3, <1>4 DEF RowsTyped, SeriesGrows
<1> QED
  BY <1>0, <1>1, <1>2, <1>3, <1>5

LEMMA ReservedTyped ==
  ASSUME SeriesTyped, NEW k \in RequestRow, NEW g \in DOMAIN generation
  PROVE  /\ Reserved(k, g) \in RequestRow /\ Reserved(k, g).step = "task" /\ Reserved(k, g).gen = g
         /\ Reserved(k, g).plan = k.plan
<1>1. generation[g] \in GenRow /\ g \in Nat
  BY DEF SeriesTyped, RowsTyped
<1>2. generation[g].task \in Nat
  BY <1>1 DEF GenRow
<1> QED
  BY <1>1, <1>2 DEF Reserved, RequestRow, Linking

\* A step of a request, typed.
LEMMA RequestStepTyped ==
  ASSUME SeriesTyped, ReservationInv, NEW c \in Requests,
         \/ RequestPreview(c) \/ RequestStep(c)
         \/ \E w \in Wanted, p \in Contents : AskVersion(c, w, p)
  PROVE  SeriesTyped' /\ SeriesGrows
<1> DEFINE k == request[c]
<1> USE DEF RequestAt, RequestGoto, Answered
<1>0. RowsTyped /\ RequestTyped(c) /\ k \in RequestRow /\ c \in DOMAIN request /\ content \in Contents
  BY DEF SeriesTyped, RequestTyped, RowsTyped
<1>1. ASSUME NEW m, request' = [request EXCEPT ![c] = m], m \in RequestRow, execution' = execution,
             content' = content, series' = series, generation' = generation, task' = task,
             m.step \in Reserving \cup Linking => m.plan \in Contents,
             m.step \in Reserving => m.name \in Names /\ m.key \in Keys,
             m.step = "insert" => m.number # 0,
             m.step \in Linking => m.gen \in DOMAIN generation,
             m.step = "link" => m.task \in DOMAIN task
      PROVE  SeriesTyped' /\ SeriesGrows
  <2>1. RowsTyped' /\ SeriesGrows
    BY <1>0, <1>1, RowsRemain
  <2>2. request'[c] = m
    BY <1>0, <1>1
  <2>3. RequestTyped(c)'
    BY <1>1, <2>2 DEF RequestTyped
  <2> QED
    BY <1>1, <2>1, <2>3, RequestStays
<1>2. ASSUME request' = [request EXCEPT ![c] = NoRequest], execution' = execution,
             content' = content, series' = series, generation' = generation, task' = task
      PROVE  SeriesTyped' /\ SeriesGrows
  BY <1>0, <1>2, RowsRemain, RequestEnds
<1>3. CASE RequestPreview(c)
  <2> DEFINE m == [NoRequest EXCEPT !.step = "preview", !.plan = content]
  <2>1. m \in RequestRow /\ m.step = "preview"
    BY <1>0, NoRequestTyped DEF RequestRow
  <2>2. request' = [request EXCEPT ![c] = NoRequest] \/ request' = [request EXCEPT ![c] = m]
    BY <1>3 DEF RequestPreview
  <2> HIDE DEF m
  <2> QED
    BY <1>1, <1>2, <1>3, <2>1, <2>2 DEF RequestPreview, Reserving, Linking
<1>4. CASE CompareFingerprint(c)
  <2> DEFINE m == [k EXCEPT !.step = "rows"]
  <2>1. m \in RequestRow /\ m.step = "rows"
    BY <1>0 DEF RequestRow
  <2>2. request' = [request EXCEPT ![c] = NoRequest] \/ request' = [request EXCEPT ![c] = m]
    BY <1>0, <1>4 DEF CompareFingerprint
  <2> HIDE DEF m
  <2> QED
    BY <1>1, <1>2, <1>4, <2>1, <2>2 DEF CompareFingerprint, Reserving, Linking
<1>5. CASE PersistPreview(c)
  BY <1>2, <1>5 DEF PersistPreview
<1>6. CASE FindSeries(c)
  <2> DEFINE found == [k EXCEPT !.step = "insert", !.found = TRUE, !.number = NextNumber(k.name)]
             first == [k EXCEPT !.step = "insert", !.found = FALSE, !.number = 1]
  <2>0. NextNumber(k.name) \in Nat \ {0}
    BY NextNumberFree DEF ReservationInv
  <2>1. /\ k.plan \in Contents /\ k.name \in Names /\ k.key \in Keys
    BY <1>0, <1>6 DEF FindSeries, RequestTyped, Reserving
  <2>2. first \in RequestRow /\ first.step = "insert" /\ first.number = 1 /\ first.plan = k.plan
        /\ first.name = k.name /\ first.key = k.key
    BY <1>0 DEF RequestRow, Reserving
  <2>3. found \in RequestRow /\ found.step = "insert" /\ found.number = NextNumber(k.name)
        /\ found.plan = k.plan /\ found.name = k.name /\ found.key = k.key
    <3> DEFINE number == NextNumber(k.name)
    <3>1. number \in Nat /\ found = [k EXCEPT !.step = "insert", !.found = TRUE, !.number = number]
      BY <2>0
    <3> HIDE DEF number, found
    <3>2. found \in RequestRow /\ found.step = "insert" /\ found.number = number
          /\ found.plan = k.plan /\ found.name = k.name /\ found.key = k.key
      BY <1>0, <3>1 DEF RequestRow, Reserving
    <3> QED
      BY <3>2 DEF number
  <2>4. \/ request' = [request EXCEPT ![c] = NoRequest] \/ request' = [request EXCEPT ![c] = first]
        \/ request' = [request EXCEPT ![c] = found]
    BY <1>0, <1>6 DEF FindSeries
  <2> HIDE DEF found, first
  <2> QED
    BY <1>1, <1>2, <1>6, <2>0, <2>1, <2>2, <2>3, <2>4 DEF FindSeries, Reserving, Linking
<1>7. CASE Insert(c)
  <2>1. CASE Violates(k)
    <3> DEFINE m == [k EXCEPT !.step = "conflict"]
    <3>1. m \in RequestRow /\ m.step = "conflict" /\ m.plan = k.plan /\ m.name = k.name /\ m.key = k.key
      BY <1>0 DEF RequestRow, Reserving
    <3>2. request' = [request EXCEPT ![c] = m] /\ k.plan \in Contents /\ k.name \in Names /\ k.key \in Keys
      BY <1>0, <1>7, <2>1 DEF Insert, RequestTyped, Reserving
    <3> HIDE DEF m
    <3> QED
      BY <1>1, <1>7, <2>1, <3>1, <3>2 DEF Insert, Reserving, Linking
  <2>2. CASE ~Violates(k)
    <3> DEFINE m == [k EXCEPT !.step = "task", !.gen = Len(generation) + 1]
    <3>1. RowsTyped' /\ SeriesGrows /\ DOMAIN generation' = 1 .. Len(generation) + 1
      BY <1>7, <2>2, InsertRows
    <3>2. Len(generation) + 1 \in Nat \ {0}
      BY <1>0 DEF RowsTyped
    <3>3. m \in RequestRow /\ m.step = "task" /\ m.plan = k.plan /\ m.gen = Len(generation) + 1
      BY <1>0, <3>2 DEF RequestRow, Linking
    <3>4. request' = [request EXCEPT ![c] = m] /\ request'[c] = m /\ k.plan \in Contents
      BY <1>0, <1>7, <2>2 DEF Insert, RequestTyped, Reserving
    <3>5. Len(generation) + 1 \in DOMAIN generation'
      BY <3>1, <3>2
    <3> HIDE DEF m
    <3>6. RequestTyped(c)'
      BY <3>3, <3>4, <3>5 DEF RequestTyped, Reserving, Linking
    <3> QED
      BY <1>7, <3>1, <3>4, <3>6, RequestStays DEF Insert
  <2> QED
    BY <2>1, <2>2
<1>8. CASE AfterConflict(c)
  <2> DEFINE again == [k EXCEPT !.step = "series", !.tries = @ + 1]
             out == [k EXCEPT !.step = "out"]
  <2>0. k.plan \in Contents /\ k.name \in Names /\ k.key \in Keys
    BY <1>0, <1>8 DEF AfterConflict, RequestTyped, Reserving
  <2>1. again \in RequestRow /\ again.step = "series" /\ again.plan = k.plan /\ again.name = k.name
        /\ again.key = k.key
    <3> DEFINE n == k.tries + 1
    <3>1. n \in Nat /\ again = [k EXCEPT !.step = "series", !.tries = n]
      BY <1>0 DEF RequestRow
    <3> HIDE DEF n, again
    <3> QED
      BY <1>0, <3>1 DEF RequestRow, Reserving
  <2>2. out \in RequestRow /\ out.step = "out"
    BY <1>0 DEF RequestRow
  <2>3. CASE WithKey(k.key) # {}
    <3>1. PICK g \in WithKey(k.key) : request' = [request EXCEPT ![c] = Reserved(k, g)]
      BY <1>8, <2>3 DEF AfterConflict
    <3>2. g \in DOMAIN generation
      BY DEF WithKey
    <3> QED
      BY <1>0, <1>1, <1>8, <2>0, <3>1, <3>2, ReservedTyped DEF AfterConflict, Linking, Reserving
  <2>4. CASE WithKey(k.key) = {}
    <3>1. request' = [request EXCEPT ![c] = again] \/ request' = [request EXCEPT ![c] = out]
      BY <1>8, <2>4 DEF AfterConflict
    <3> HIDE DEF again, out
    <3> QED
      BY <1>1, <1>8, <2>0, <2>1, <2>2, <3>1 DEF AfterConflict, Reserving, Linking
  <2> QED
    BY <2>3, <2>4
<1>9. CASE CreateComposite(c)
  <2> DEFINE m(t) == [k EXCEPT !.step = "link", !.task = t]
  <2>0. k.plan \in Contents /\ k.gen \in DOMAIN generation
    BY <1>0, <1>9 DEF CreateComposite, RequestTyped, Linking
  <2>1. ASSUME NEW t \in Nat
        PROVE  m(t) \in RequestRow /\ m(t).step = "link" /\ m(t).plan = k.plan /\ m(t).gen = k.gen
               /\ m(t).task = t
    BY <1>0 DEF RequestRow, Linking
  <2>2. CASE request' = [request EXCEPT ![c] = NoRequest] /\ task' = task
    BY <1>2, <1>9, <2>2 DEF CreateComposite
  <2>3. CASE task' = Append(task, NewTask(k.gen, k.plan)) /\ request' = [request EXCEPT ![c] = m(Len(task'))]
    <3>1. task \in Seq(TaskRow) /\ generation \in Seq(GenRow)
      BY <1>0 DEF RowsTyped
    <3>2. NewTask(k.gen, k.plan) \in TaskRow /\ NewTask(k.gen, k.plan).gen = k.gen
      <4>1. k.gen \in Nat
        BY <1>0 DEF RequestRow
      <4> QED
        BY <2>0, <4>1 DEF NewTask, TaskRow
    <3>3. /\ task' \in Seq(TaskRow) /\ Len(task') = Len(task) + 1
          /\ DOMAIN task = 1 .. Len(task) /\ DOMAIN task' = 1 .. Len(task) + 1
          /\ \A t \in DOMAIN task : task'[t] = task[t]
          /\ task'[Len(task) + 1] = NewTask(k.gen, k.plan)
      BY <2>3, <3>1, <3>2, SeqAppend
    <3>4. Len(task) \in Nat /\ Len(task') \in Nat /\ Len(task') \in DOMAIN task' /\ DOMAIN task \subseteq DOMAIN task'
      BY <3>1, <3>3
    <3>5. content' = content /\ series' = series /\ generation' = generation /\ execution' = execution
      BY <1>9 DEF CreateComposite
    <3>6. \A t \in DOMAIN task' : task'[t].gen \in DOMAIN generation
      BY <1>0, <2>0, <3>2, <3>3 DEF RowsTyped
    <3>7. RowsTyped' /\ SeriesGrows
      BY <1>0, <3>3, <3>4, <3>5, <3>6 DEF RowsTyped, SeriesGrows
    <3>8. request'[c] = m(Len(task'))
      BY <1>0, <2>3
    <3>9. m(Len(task')) \in RequestRow /\ m(Len(task')).step = "link" /\ m(Len(task')).plan = k.plan
          /\ m(Len(task')).gen = k.gen /\ m(Len(task')).task = Len(task')
      BY <2>1, <3>4
    <3> HIDE DEF m
    <3>10. RequestTyped(c)'
      BY <2>0, <3>4, <3>5, <3>8, <3>9 DEF RequestTyped, Reserving, Linking
    <3> QED
      BY <2>3, <3>5, <3>7, <3>10, RequestStays
  <2>4. CASE \E t \in DOMAIN task : task' = task /\ request' = [request EXCEPT ![c] = m(t)]
    <3>1. PICK t \in DOMAIN task : task' = task /\ request' = [request EXCEPT ![c] = m(t)]
      BY <2>4
    <3>2. t \in Nat
      BY <1>0 DEF RowsTyped
    <3>3. m(t) \in RequestRow /\ m(t).step = "link" /\ m(t).plan = k.plan /\ m(t).gen = k.gen /\ m(t).task = t
      BY <2>1, <3>2
    <3> HIDE DEF m
    <3> QED
      BY <1>1, <1>9, <2>0, <3>1, <3>3 DEF CreateComposite, Reserving, Linking
  <2>5. \/ request' = [request EXCEPT ![c] = NoRequest] /\ task' = task
        \/ task' = Append(task, NewTask(k.gen, k.plan)) /\ request' = [request EXCEPT ![c] = m(Len(task'))]
        \/ \E t \in DOMAIN task : task' = task /\ request' = [request EXCEPT ![c] = m(t)]
    BY <1>0, <1>9 DEF CreateComposite, SameTask
  <2> HIDE DEF m
  <2> QED
    BY <2>2, <2>3, <2>4, <2>5
<1>10. CASE LinkComposite(c)
  <2> DEFINE v == generation[k.gen]
             g == [v EXCEPT !.task = IF @ = 0 THEN k.task ELSE @, !.versionTask = k.task]
  <2>1. k.gen \in DOMAIN generation /\ v \in GenRow /\ k.task \in Nat
    BY <1>0, <1>10 DEF LinkComposite, RequestTyped, Linking, RowsTyped, RequestRow
  <2>2. g \in GenRow /\ g.key = v.key /\ g.name = v.name /\ g.number = v.number /\ g.integrity = v.integrity
        /\ g.rows = v.rows
    <3> DEFINE t == IF v.task = 0 THEN k.task ELSE v.task
    <3>1. t \in Nat /\ g = [v EXCEPT !.task = t, !.versionTask = k.task]
      BY <2>1 DEF GenRow
    <3> HIDE DEF t, g
    <3> QED
      BY <2>1, <3>1 DEF GenRow
  <2>3. generation' = [generation EXCEPT ![k.gen] = g] /\ content' = content /\ series' = series /\ task' = task
        /\ execution' = execution /\ request' = [request EXCEPT ![c] = NoRequest]
    BY <1>10, <2>1 DEF LinkComposite
  <2> HIDE DEF g
  <2>4. RowsTyped' /\ SeriesGrows
    BY <2>1, <2>2, <2>3, VersionChanges
  <2> QED
    BY <2>3, <2>4, RequestEnds
<1>11. CASE \E w \in Wanted, p \in Contents : AskVersion(c, w, p)
  <2>1. PICK w \in Wanted, p \in Contents : AskVersion(c, w, p)
    BY <1>11
  <2> DEFINE m == [NoRequest EXCEPT !.plan = p, !.key = KeyFor(w, p), !.name = w.name]
             n == [m EXCEPT !.step = "series"]
  <2>2. KeyFor(w, p) \in Keys /\ w.name \in Names
    BY DEF Keys, Names
  <2>3. m \in RequestRow /\ m.plan = p /\ m.key = KeyFor(w, p) /\ m.name = w.name
    <3> DEFINE key == KeyFor(w, p)
    <3>1. m = [NoRequest EXCEPT !.plan = p, !.key = key, !.name = w.name]
      OBVIOUS
    <3> HIDE DEF key, m
    <3>2. m \in RequestRow /\ m.plan = p /\ m.key = key /\ m.name = w.name
      BY <2>2, <3>1, NoRequestTyped DEF RequestRow, key
    <3> QED
      BY <3>2 DEF key
  <2> HIDE DEF m
  <2>4. n \in RequestRow /\ n.step = "series" /\ n.plan = p /\ n.key = KeyFor(w, p) /\ n.name = w.name
    BY <2>3 DEF RequestRow, Reserving
  <2>5. \/ request' = [request EXCEPT ![c] = n]
        \/ \E g \in DOMAIN generation : request' = [request EXCEPT ![c] = Reserved(m, g)]
    BY <2>1 DEF AskVersion, WithKey, m
  <2> HIDE DEF n
  <2>6. CASE request' = [request EXCEPT ![c] = n]
    BY <1>1, <2>1, <2>2, <2>4, <2>6 DEF AskVersion, Reserving, Linking
  <2>7. CASE \E g \in DOMAIN generation : request' = [request EXCEPT ![c] = Reserved(m, g)]
    BY ZenonT(60), <1>1, <2>1, <2>3, <2>7, ReservedTyped DEF AskVersion, Reserving, Linking
  <2> QED
    BY <2>5, <2>6, <2>7
<1> QED
  BY <1>3, <1>4, <1>5, <1>6, <1>7, <1>8, <1>9, <1>10, <1>11 DEF RequestStep
\* The other steps: of the source, the tasks, the archive and the server.
TaskStep ==
  \/ \E t \in DOMAIN task : Adopt(t) \/ Retry(t) \/ \E w \in Workers : Execute(w, t)
  \/ \E w \in Workers : Lapse(w)

ArchiveStep == (\E n \in Names : ArchiveSeries(n)) \/ \E g \in DOMAIN generation : ArchiveVersion(g)

LEMMA TaskStepTyped ==
  ASSUME SeriesTyped, TaskStep
  PROVE  SeriesTyped' /\ SeriesGrows
<1>0. RowsTyped /\ task \in Seq(TaskRow) /\ generation \in Seq(GenRow)
  BY DEF SeriesTyped, RowsTyped
<1>1. ASSUME NEW t \in DOMAIN task PROVE task[t] \in TaskRow /\ task[t].gen \in DOMAIN generation /\ t \in Nat
  BY <1>0 DEF RowsTyped
<1>2. ASSUME NEW t \in DOMAIN task, NEW r \in TaskRow, task' = [task EXCEPT ![t] = r], r.gen = task[t].gen,
             r.plan = task[t].plan, content' = content, series' = series, generation' = generation,
             request' = request, execution' = execution
      PROVE  SeriesTyped' /\ SeriesGrows
  <2>1. /\ task[t].gen \in DOMAIN generation /\ generation[task[t].gen] \in GenRow
        /\ generation' = [generation EXCEPT ![task[t].gen] = generation[task[t].gen]]
    BY <1>0, <1>1, <1>2
  <2> DEFINE i == task[t].gen
             g == generation[i]
  <2>2. i \in DOMAIN generation /\ g \in GenRow /\ generation' = [generation EXCEPT ![i] = g]
    BY <2>1
  <2>3. g.key = generation[i].key /\ g.name = generation[i].name /\ g.number = generation[i].number
        /\ g.integrity = generation[i].integrity /\ g.rows = generation[i].rows
    OBVIOUS
  <2> HIDE DEF i, g
  <2>4. RowsTyped' /\ SeriesGrows
    BY <1>2, <2>2, <2>3, VersionChanges
  <2> QED
    BY <1>2, <2>4, OthersStayTyped DEF SeriesTyped
<1>3. ASSUME NEW t \in DOMAIN task, Adopt(t) PROVE SeriesTyped' /\ SeriesGrows
  <2> DEFINE n == task[t].done + 1
             r == [task[t] EXCEPT !.done = n]
  <2>1. n \in 0 .. 3
    BY <1>1, <1>3 DEF Adopt, Runnable, Stages, TaskRow
  <2>2. task' = [task EXCEPT ![t] = r]
    BY <1>3 DEF Adopt
  <2> HIDE DEF n
  <2>3. r \in TaskRow /\ r.gen = task[t].gen /\ r.plan = task[t].plan
    BY <1>1, <2>1 DEF TaskRow
  <2> HIDE DEF r
  <2> QED
    BY <1>2, <1>3, <2>2, <2>3 DEF Adopt
<1>4. ASSUME NEW t \in DOMAIN task, Retry(t) PROVE SeriesTyped' /\ SeriesGrows
  <2> DEFINE r == [task[t] EXCEPT !.failed = FALSE]
  <2>1. task' = [task EXCEPT ![t] = r]
    BY <1>4 DEF Retry
  <2>2. r \in TaskRow /\ r.gen = task[t].gen /\ r.plan = task[t].plan
    BY <1>1 DEF TaskRow
  <2> HIDE DEF r
  <2> QED
    BY <1>2, <1>4, <2>1, <2>2 DEF Retry
<1>5. ASSUME NEW w \in Workers, NEW k \in ExecutionRow, execution' = [execution EXCEPT ![w] = k],
             k.step # "idle" => k.task \in DOMAIN task /\ k.stage \in 1 .. 3,
             k.owner => k.step # "idle", k.step \in Looked => k.gen \in GenRow,
             k.step = "write" => k.version \in GenRow,
             content' = content, series' = series, generation' = generation, task' = task, request' = request
      PROVE  SeriesTyped' /\ SeriesGrows
  <2>1. RowsTyped' /\ SeriesGrows
    BY <1>0, <1>5, RowsRemain
  <2>2. execution'[w] = k
    BY <1>5 DEF SeriesTyped
  <2>3. ExecutionTyped(w)'
    BY <1>5, <2>2 DEF ExecutionTyped
  <2> QED
    BY <1>5, <2>1, <2>3, ExecutionStays
<1>6. ASSUME NEW t \in DOMAIN task, NEW w \in Workers, Execute(w, t) PROVE SeriesTyped' /\ SeriesGrows
  <2> DEFINE stage == NextStage(t)
             k == [NoExecution EXCEPT !.step = "generation", !.task = t, !.stage = stage, !.owner = TRUE]
  <2>1. stage \in 1 .. 3
    BY <1>1, <1>6 DEF Execute, Runnable, Stages, NextStage, TaskRow
  <2>2. execution' = [execution EXCEPT ![w] = k]
    BY <1>6 DEF Execute
  <2> HIDE DEF stage
  <2>3. k \in ExecutionRow /\ k.step = "generation" /\ k.task = t /\ k.stage = stage
    <3>1. t \in Nat /\ stage \in 0 .. 3 /\ NoExecution \in ExecutionRow
      BY <1>1, <2>1, NoExecutionTyped
    <3> QED
      BY <3>1 DEF ExecutionRow
  <2> HIDE DEF k
  <2> QED
    BY <1>5, <1>6, <2>1, <2>2, <2>3 DEF Execute, Looked
<1>7. ASSUME NEW w \in Workers, Lapse(w) PROVE SeriesTyped' /\ SeriesGrows
  <2> DEFINE e == execution[w]
             k == [e EXCEPT !.owner = FALSE]
  <2>1. ExecutionTyped(w) /\ e \in ExecutionRow
    BY DEF SeriesTyped, ExecutionTyped
  <2>2. execution' = [execution EXCEPT ![w] = k]
    BY <1>7 DEF Lapse
  <2>3. /\ k \in ExecutionRow /\ k.step = e.step /\ k.task = e.task /\ k.stage = e.stage /\ k.gen = e.gen
        /\ k.version = e.version
    BY <2>1 DEF ExecutionRow
  <2>4. ~k.owner
    BY <2>1, Zenon DEF ExecutionRow
  <2> HIDE DEF k
  <2> QED
    BY <1>5, <1>7, <2>1, <2>2, <2>3, <2>4 DEF Lapse, ExecutionTyped
<1> QED
  BY <1>3, <1>4, <1>6, <1>7 DEF TaskStep

LEMMA ArchiveStepTyped ==
  ASSUME SeriesTyped, ArchiveStep
  PROVE  SeriesTyped' /\ SeriesGrows
<1>0. RowsTyped /\ generation \in Seq(GenRow) /\ series \in [Names -> {"none", "open", "archived"}]
  BY DEF SeriesTyped, RowsTyped
<1>1. ASSUME NEW g \in DOMAIN generation PROVE generation[g] \in GenRow
  BY <1>0
<1>2. ASSUME NEW n \in Names, ArchiveSeries(n) PROVE SeriesTyped' /\ SeriesGrows
  <2>1. /\ series' = [series EXCEPT ![n] = "archived"] /\ content' = content /\ task' = task
        /\ request' = request /\ execution' = execution
    BY <1>2 DEF ArchiveSeries
  <2> DEFINE v(g) == IF generation[g].name = n /\ generation[g].published
                     THEN [generation[g] EXCEPT !.archived = TRUE] ELSE generation[g]
  <2>2. generation' = [g \in DOMAIN generation |-> v(g)]
    BY <1>2 DEF ArchiveSeries
  <2>3. ASSUME NEW g \in DOMAIN generation
        PROVE  /\ v(g) \in GenRow /\ v(g).key = generation[g].key /\ v(g).name = generation[g].name
               /\ v(g).number = generation[g].number /\ v(g).integrity = generation[g].integrity
               /\ v(g).rows = generation[g].rows
    BY <1>1 DEF GenRow
  <2> HIDE DEF v
  <2>4. generation' \in Seq(GenRow) /\ DOMAIN generation' = DOMAIN generation
    <3>1. DOMAIN generation = 1 .. Len(generation) /\ Len(generation) \in Nat
      BY <1>0
    <3>2. generation' \in [1 .. Len(generation) -> GenRow]
      BY <2>2, <2>3, <3>1
    <3> QED
      BY <3>1, <3>2
  <2>5. RowsTyped' /\ SeriesGrows
    BY <1>0, <2>1, <2>2, <2>3, <2>4 DEF RowsTyped, SeriesGrows
  <2> QED
    BY <2>1, <2>5, OthersStayTyped DEF SeriesTyped
<1>3. ASSUME NEW g \in DOMAIN generation, ArchiveVersion(g) PROVE SeriesTyped' /\ SeriesGrows
  <2> DEFINE v == [generation[g] EXCEPT !.archived = TRUE]
  <2>1. /\ generation' = [generation EXCEPT ![g] = v] /\ content' = content /\ series' = series /\ task' = task
        /\ request' = request /\ execution' = execution
    BY <1>3 DEF ArchiveVersion
  <2>2. /\ v \in GenRow /\ v.key = generation[g].key /\ v.name = generation[g].name
        /\ v.number = generation[g].number /\ v.integrity = generation[g].integrity
        /\ v.rows = generation[g].rows
    BY <1>1 DEF GenRow
  <2> HIDE DEF v
  <2>3. RowsTyped' /\ SeriesGrows
    BY <2>1, <2>2, VersionChanges
  <2> QED
    BY <2>1, <2>3, OthersStayTyped DEF SeriesTyped
<1> QED
  BY <1>2, <1>3 DEF ArchiveStep

LEMMA SeriesCases ==
  ASSUME [SeriesNext]_seriesVars
  PROVE  \/ UNCHANGED seriesVars \/ SourceChanges \/ SeriesCrash \/ TaskStep \/ ArchiveStep
         \/ \E c \in Requests : \/ RequestPreview(c) \/ RequestStep(c)
                               \/ \E w \in Wanted, p \in Contents : AskVersion(c, w, p)
         \/ \E w \in Workers : ExecutionStep(w)
BY DEF SeriesNext, TaskStep, ArchiveStep

LEMMA SeriesTypedNext ==
  ASSUME SeriesTyped, ReservationInv, [SeriesNext]_seriesVars
  PROVE  SeriesTyped' /\ SeriesGrows
<1>0. RowsTyped
  BY DEF SeriesTyped
<1>1. CASE UNCHANGED seriesVars
  BY <1>0, <1>1, RowsRemain, OthersStayTyped DEF SeriesTyped, seriesVars
<1>2. CASE SourceChanges
  <2>1. content' \in Contents
    BY <1>0, <1>2, SeriesAssumption DEF SourceChanges, Contents, RowsTyped
  <2>2. RowsTyped' /\ SeriesGrows
    BY <1>0, <1>2, <2>1 DEF SourceChanges, RowsTyped, SeriesGrows
  <2> QED
    BY <1>2, <2>2, OthersStayTyped DEF SeriesTyped, SourceChanges
<1>3. CASE SeriesCrash
  <2>1. RowsTyped' /\ SeriesGrows
    BY <1>0, <1>3, RowsRemain DEF SeriesCrash
  <2>2. \A c \in Requests : RequestTyped(c)'
    BY <1>3, NoRequestTyped DEF SeriesCrash, RequestTyped, Reserving, Linking
  <2>3. \A w \in Workers : ExecutionTyped(w)'
    BY <1>3, NoExecutionTyped DEF SeriesCrash, ExecutionTyped, Looked
  <2> QED
    BY <1>3, <2>1, <2>2, <2>3 DEF SeriesTyped, SeriesCrash
<1> QED
  BY <1>1, <1>2, <1>3, SeriesCases, TaskStepTyped, ArchiveStepTyped, RequestStepTyped, ExecutionStepTyped
-----------------------------------------------------------------------------
(* Reservations.                                                            *)

LEMMA SameLength ==
  ASSUME SeriesTyped, SeriesTyped', DOMAIN generation' = DOMAIN generation
  PROVE  Len(generation') = Len(generation) /\ DOMAIN generation = 1 .. Len(generation)
<1>1. /\ DOMAIN generation = 1 .. Len(generation) /\ Len(generation) \in Nat
      /\ DOMAIN generation' = 1 .. Len(generation') /\ Len(generation') \in Nat
  BY DEF SeriesTyped, RowsTyped
<1> DEFINE m == Len(generation)
           n == Len(generation')
<1>2. m \in Nat /\ n \in Nat /\ 1 .. m = 1 .. n
  BY <1>1
<1> HIDE DEF m, n
<1>3. ~(m < n)
  <2>1. m < n => n \in 1 .. n /\ n \notin 1 .. m
    BY <1>2
  <2> QED
    BY <1>2, <2>1
<1>4. ~(n < m)
  <2>1. n < m => m \in 1 .. m /\ m \notin 1 .. n
    BY <1>2
  <2> QED
    BY <1>2, <2>1
<1>5. m = n
  BY <1>2, <1>3, <1>4
<1> QED
  BY <1>1, <1>5 DEF m, n

LEMMA VersionsSound ==
  ASSUME SeriesTyped, SeriesTyped', SeriesGrows, ReservationInv, DOMAIN generation' = DOMAIN generation
  PROVE  \A g \in DOMAIN generation' :
           generation'[g].number <= Len(generation') /\ series'[generation'[g].name] # "none"
<1> SUFFICES ASSUME NEW g \in DOMAIN generation
             PROVE  generation'[g].number <= Len(generation') /\ series'[generation'[g].name] # "none"
  OBVIOUS
<1>1. /\ generation'[g].name = generation[g].name /\ generation'[g].number = generation[g].number
      /\ Len(generation') = Len(generation)
  BY SameLength DEF SeriesGrows
<1>2. generation[g].name \in Names
  <2>1. generation[g] \in GenRow
    BY DEF SeriesTyped, RowsTyped
  <2> QED
    BY <2>1 DEF GenRow
<1> QED
  BY <1>1, <1>2 DEF ReservationInv, SeriesGrows

\* Of a key, and of a series, there is no less than there was.
LEMMA LostForGood ==
  ASSUME SeriesGrows, NEW k, k.name \in Names
  PROVE  /\ WithKey(k.key) # {} => (WithKey(k.key) # {})'
         /\ series[k.name] # "none" => series'[k.name] # "none"
BY DEF SeriesGrows, WithKey

\* Whoever waits stays sound while no version is inserted.
LEMMA WaitingStaysSound ==
  ASSUME SeriesTyped, SeriesTyped', SeriesGrows, DOMAIN generation' = DOMAIN generation,
         NEW c \in Requests, request'[c] = request[c], ReservationSound(c)
  PROVE  ReservationSound(c)'
<1>1. Len(generation') = Len(generation)
  BY SameLength
<1>2. request[c].step \in Reserving => request[c].name \in Names
  BY DEF SeriesTyped, RequestTyped
<1>3. request[c].step = "conflict" => Lost(c)'
  BY <1>2, LostForGood DEF ReservationSound, Lost, Reserving, WithKey, SeriesGrows
<1>4. NumberFree(c) => NumberFree(c)'
  BY DEF NumberFree, SeriesGrows
<1> QED
  BY <1>1, <1>2, <1>3, <1>4 DEF ReservationSound, Reserving, SeriesGrows

LEMMA ReservationsRemain ==
  ASSUME SeriesTyped, SeriesTyped', SeriesGrows, ReservationInv,
         DOMAIN generation' = DOMAIN generation, request' = request
  PROVE  ReservationInv'
<1>1. \A c \in Requests : ReservationSound(c)'
  BY WaitingStaysSound DEF ReservationInv
<1>2. \A c \in Requests : Holds(c)' <=> Holds(c)
  BY DEF Holds, RequestAt
<1> QED
  BY <1>1, <1>2, VersionsSound DEF ReservationInv

\* One request makes a step that inserts nothing; if it takes the lock, nobody
\* has it.
LEMMA ReservationStep ==
  ASSUME SeriesTyped, SeriesTyped', SeriesGrows, ReservationInv, DOMAIN generation' = DOMAIN generation,
         NEW c \in Requests, NEW k, request' = [request EXCEPT ![c] = k], ReservationSound(c)',
         Holds(c)' => \A d \in Requests : Holds(d) => request[d].name # k.name
  PROVE  ReservationInv'
<1>1. request'[c] = k /\ \A d \in Requests \ {c} : request'[d] = request[d]
  BY DEF SeriesTyped
<1>2. \A d \in Requests : ReservationSound(d)'
  BY <1>1, WaitingStaysSound DEF ReservationInv
<1>3. \A d \in Requests \ {c} : Holds(d)' <=> Holds(d)
  BY <1>1 DEF Holds, RequestAt
<1>4. \A a, b \in Requests : Holds(a)' /\ Holds(b)' /\ request'[a].name = request'[b].name => a = b
  BY <1>1, <1>3 DEF ReservationInv
<1> QED
  BY <1>2, <1>4, VersionsSound DEF ReservationInv

LEMMA InsertSound ==
  ASSUME SeriesTyped, SeriesTyped', SeriesGrows, ReservationInv, NEW c \in Requests, Insert(c)
  PROVE  ReservationInv'
<1> DEFINE k == request[c]
<1> USE DEF RequestAt, RequestGoto
<1>0. /\ ReservationSound(c) /\ RequestTyped(c) /\ k \in RequestRow /\ c \in DOMAIN request /\ k.step = "insert"
      /\ k.name \in Names
  BY DEF SeriesTyped, RequestTyped, ReservationInv, Insert, Reserving
<1>1. CASE Violates(k)
  <2> DEFINE m == [k EXCEPT !.step = "conflict"]
  <2>1. /\ request' = [request EXCEPT ![c] = m] /\ request'[c] = m /\ series' = series /\ generation' = generation
        /\ m.step = "conflict" /\ m.key = k.key /\ m.tries = k.tries /\ m.name = k.name
    BY <1>0, <1>1 DEF Insert, RequestRow
  <2>2. Lost(c)
    <3>1. CASE WithKey(k.key) # {}
      BY <3>1 DEF Lost
    <3>2. CASE ~k.found /\ series[k.name] # "none"
      BY <1>0, <3>2 DEF Lost, ReservationSound
    <3>3. CASE \E g \in DOMAIN generation : generation[g].name = k.name /\ generation[g].number = k.number
      <4>1. ~k.found
        BY <1>0, <3>3 DEF ReservationSound, NumberFree
      <4>2. series[k.name] # "none"
        BY <3>3 DEF ReservationInv
      <4> QED
        BY <1>0, <4>1, <4>2 DEF Lost, ReservationSound
    <3> QED
      BY <1>1, <3>1, <3>2, <3>3 DEF Violates
  <2> HIDE DEF m
  <2>3. ReservationSound(c)' /\ ~Holds(c)'
    BY <2>1, <2>2 DEF ReservationSound, Lost, Holds, WithKey
  <2> QED
    BY <2>1, <2>3, ReservationStep
<1>2. CASE ~Violates(k)
  <2> DEFINE m == [k EXCEPT !.step = "task", !.gen = Len(generation) + 1]
             new == NewGeneration(k)
  <2>1. /\ series' = [series EXCEPT ![k.name] = "open"] /\ series \in [Names -> {"none", "open", "archived"}]
        /\ Len(generation') = Len(generation) + 1 /\ Len(generation) \in Nat
        /\ DOMAIN generation = 1 .. Len(generation) /\ DOMAIN generation' = 1 .. Len(generation) + 1
        /\ \A g \in DOMAIN generation : generation'[g] = generation[g]
        /\ generation'[Len(generation) + 1] = new
    BY <1>2, InsertRows DEF SeriesTyped, RowsTyped
  <2>2. new.name = k.name /\ new.number = k.number /\ new.key = k.key
    BY DEF NewGeneration
  <2>3. request' = [request EXCEPT ![c] = m] /\ request'[c] = m /\ m.step = "task"
        /\ \A d \in Requests \ {c} : request'[d] = request[d]
    BY <1>0, <1>2 DEF Insert, RequestRow, SeriesTyped
  <2>4. k.number \in Nat /\ k.number <= Len(generation) + 1
    BY <1>0 DEF ReservationSound, RequestRow
  <2>5. ASSUME NEW g \in DOMAIN generation'
        PROVE  generation'[g].number <= Len(generation') /\ series'[generation'[g].name] # "none"
    <3>1. CASE g = Len(generation) + 1
      BY <1>0, <2>1, <2>2, <2>4, <3>1
    <3>2. CASE g # Len(generation) + 1
      <4>1. g \in DOMAIN generation
        BY <2>1, <3>2
      <4>2. generation[g] \in GenRow
        BY <4>1 DEF SeriesTyped, RowsTyped
      <4>3. generation[g].number \in Nat /\ generation[g].name \in Names
        BY <4>2 DEF GenRow
      <4> QED
        BY <2>1, <4>1, <4>3 DEF ReservationInv
    <3> QED
      BY <3>1, <3>2
  <2> HIDE DEF m, new
  <2>6. ASSUME NEW d \in Requests \ {c} PROVE ReservationSound(d)'
    <3>1. request'[d] = request[d] /\ ReservationSound(d) /\ RequestTyped(d)
      BY <2>3 DEF ReservationInv, SeriesTyped
    <3>2. request[d].step \in Reserving => request[d].name \in Names
      BY <3>1 DEF RequestTyped
    <3>3. request[d].step = "conflict" => Lost(d)'
      BY <3>1, <3>2, LostForGood DEF ReservationSound, Lost, Reserving, WithKey, SeriesGrows
    <3>4. ASSUME Holds(d) PROVE request[d].name # k.name
      <4>1. k.found => request[d].name # k.name
        BY <1>0, <3>4 DEF ReservationInv, Holds
      <4>2. ~k.found => series[k.name] = "none"
        BY <1>2 DEF Violates
      <4>3. series[request[d].name] # "none"
        BY <3>1, <3>4 DEF ReservationSound, Holds
      <4> QED
        BY <4>1, <4>2, <4>3
    <3>5. ASSUME Holds(d) PROVE NumberFree(d)'
      <4>1. NumberFree(d)
        BY <3>1, <3>5 DEF ReservationSound, Holds
      <4> SUFFICES ASSUME NEW g \in DOMAIN generation', generation'[g].name = request[d].name
                   PROVE  generation'[g].number # request[d].number
        BY <3>1 DEF NumberFree
      <4>2. g # Len(generation) + 1
        BY <2>1, <2>2, <3>4, <3>5
      <4>3. g \in DOMAIN generation
        BY <2>1, <4>2
      <4> QED
        BY <2>1, <4>1, <4>3 DEF NumberFree
    <3>6. request[d].number \in Nat
      BY <3>1 DEF RequestTyped, RequestRow
    <3> QED
      BY <2>1, <3>1, <3>2, <3>3, <3>5, <3>6 DEF ReservationSound, Reserving, Holds, SeriesGrows
  <2>7. ReservationSound(c)' /\ ~Holds(c)'
    BY <2>3 DEF ReservationSound, Holds
  <2>8. \A d \in Requests \ {c} : Holds(d)' <=> Holds(d)
    BY <2>3 DEF Holds
  <2>9. \A a, b \in Requests : Holds(a)' /\ Holds(b)' /\ request'[a].name = request'[b].name => a = b
    BY <2>3, <2>7, <2>8 DEF ReservationInv
  <2> QED
    BY <2>5, <2>6, <2>7, <2>9 DEF ReservationInv
<1> QED
  BY <1>1, <1>2
LEMMA RequestStepSound ==
  ASSUME SeriesTyped, SeriesTyped', SeriesGrows, ReservationInv, NEW c \in Requests,
         \/ RequestPreview(c) \/ RequestStep(c)
         \/ \E w \in Wanted, p \in Contents : AskVersion(c, w, p)
  PROVE  ReservationInv'
<1> DEFINE k == request[c]
<1> USE DEF RequestAt, RequestGoto, Answered
<1>0. ReservationSound(c) /\ RequestTyped(c) /\ k \in RequestRow /\ c \in DOMAIN request
  BY DEF SeriesTyped, RequestTyped, ReservationInv
<1>1. ASSUME NEW m, request' = [request EXCEPT ![c] = m], DOMAIN generation' = DOMAIN generation,
             m.step \notin Reserving \cup {"out"}
      PROVE  ReservationInv'
  <2>1. request'[c] = m
    BY <1>0, <1>1
  <2>2. ReservationSound(c)' /\ ~Holds(c)'
    BY <1>1, <2>1 DEF ReservationSound, Holds, Reserving
  <2> QED
    BY <1>1, <2>2, ReservationStep
<1>2. ASSUME request' = [request EXCEPT ![c] = NoRequest], DOMAIN generation' = DOMAIN generation
      PROVE  ReservationInv'
  BY <1>1, <1>2, NoRequestTyped DEF Reserving
<1>3. CASE RequestPreview(c)
  <2> DEFINE m == [NoRequest EXCEPT !.step = "preview", !.plan = content]
  <2>1. m.step = "preview"
    BY NoRequestTyped DEF RequestRow
  <2>2. request' = [request EXCEPT ![c] = NoRequest] \/ request' = [request EXCEPT ![c] = m]
    BY <1>3 DEF RequestPreview
  <2> HIDE DEF m
  <2> QED
    BY <1>1, <1>2, <1>3, <2>1, <2>2 DEF RequestPreview, Reserving
<1>4. CASE CompareFingerprint(c)
  <2> DEFINE m == [k EXCEPT !.step = "rows"]
  <2>1. m.step = "rows"
    BY <1>0 DEF RequestRow
  <2>2. request' = [request EXCEPT ![c] = NoRequest] \/ request' = [request EXCEPT ![c] = m]
    BY <1>0, <1>4 DEF CompareFingerprint
  <2> HIDE DEF m
  <2> QED
    BY <1>1, <1>2, <1>4, <2>1, <2>2 DEF CompareFingerprint, Reserving
<1>5. CASE PersistPreview(c)
  BY <1>2, <1>5 DEF PersistPreview
<1>6. CASE FindSeries(c)
  <2> DEFINE number == NextNumber(k.name)
             found == [k EXCEPT !.step = "insert", !.found = TRUE, !.number = number]
             first == [k EXCEPT !.step = "insert", !.found = FALSE, !.number = 1]
  <2>0. /\ number \in Nat \ {0} /\ number <= Len(generation) + 1
        /\ \A g \in DOMAIN generation : generation[g].name = k.name => generation[g].number # number
    BY NextNumberFree DEF ReservationInv
  <2>1. generation' = generation /\ series' = series /\ Len(generation) \in Nat
        /\ k.step = "series" /\ (k.tries = 0 \/ (k.tries = 1 /\ series[k.name] # "none"))
    BY <1>0, <1>6 DEF FindSeries, ReservationSound, SeriesTyped, RowsTyped
  <2>2. /\ first.step = "insert" /\ first.number = 1 /\ first.name = k.name /\ first.tries = k.tries
        /\ first.found = FALSE
    BY <1>0 DEF RequestRow
  <2> HIDE DEF number
  <2>3. /\ found.step = "insert" /\ found.number = number /\ found.name = k.name /\ found.tries = k.tries
    BY <1>0 DEF RequestRow
  <2>4. CASE request' = [request EXCEPT ![c] = NoRequest]
    BY <1>2, <2>1, <2>4
  <2>5. CASE series[k.name] = "none" /\ request' = [request EXCEPT ![c] = first]
    <3> HIDE DEF first
    <3>1. request'[c] = first
      BY <1>0, <2>5
    <3>2. ReservationSound(c)'
      BY <2>1, <2>2, <2>5, <3>1 DEF ReservationSound
    <3>3. ~Holds(c)'
      BY <2>2, <3>1 DEF Holds
    <3> QED
      BY <2>1, <2>5, <3>2, <3>3, ReservationStep
  <2>6. CASE series[k.name] = "open" /\ ~Locked(k.name) /\ request' = [request EXCEPT ![c] = found]
    <3>0. found.found
      BY <1>0, Zenon DEF RequestRow
    <3> HIDE DEF found
    <3>1. request'[c] = found
      BY <1>0, <2>6
    <3>2. NumberFree(c)'
      BY <2>0, <2>1, <2>3, <3>1 DEF NumberFree
    <3>3. ReservationSound(c)'
      BY <2>0, <2>1, <2>3, <2>6, <3>0, <3>1, <3>2 DEF ReservationSound
    <3>4. \A d \in Requests : Holds(d) => request[d].name # k.name
      BY <2>6 DEF Holds, Locked
    <3> QED
      BY <2>1, <2>3, <2>6, <3>3, <3>4, ReservationStep
  <2>7. \/ request' = [request EXCEPT ![c] = NoRequest]
        \/ series[k.name] = "none" /\ request' = [request EXCEPT ![c] = first]
        \/ series[k.name] = "open" /\ ~Locked(k.name) /\ request' = [request EXCEPT ![c] = found]
    BY <1>0, <1>6 DEF FindSeries, number
  <2> QED
    BY <2>4, <2>5, <2>6, <2>7
<1>7. CASE Insert(c)
  BY <1>7, InsertSound
<1>8. CASE AfterConflict(c)
  <2> DEFINE again == [k EXCEPT !.step = "series", !.tries = @ + 1]
  <2>0. generation' = generation /\ series' = series /\ k.step = "conflict" /\ Lost(c)
    BY <1>0, <1>8 DEF AfterConflict, ReservationSound
  <2>1. CASE WithKey(k.key) # {}
    <3>1. PICK g \in WithKey(k.key) : request' = [request EXCEPT ![c] = Reserved(k, g)]
      BY <1>8, <2>1 DEF AfterConflict
    <3>2. Reserved(k, g).step = "task"
      BY <1>0, ReservedTyped DEF WithKey
    <3> QED
      BY <1>1, <2>0, <3>1, <3>2 DEF Reserving
  <2>2. CASE WithKey(k.key) = {}
    <3>1. k.tries = 0 /\ series[k.name] # "none"
      BY <2>0, <2>2 DEF Lost
    <3>2. MayRetry(k)
      BY <3>1, SeriesAssumption DEF MayRetry
    <3>3. request' = [request EXCEPT ![c] = again]
      BY <1>8, <2>2, <3>2 DEF AfterConflict
    <3>4. again.step = "series" /\ again.tries = 1 /\ again.name = k.name
      BY <1>0, <3>1 DEF RequestRow
    <3> HIDE DEF again
    <3>5. request'[c] = again
      BY <1>0, <3>3
    <3>6. ReservationSound(c)' /\ ~Holds(c)'
      BY <2>0, <3>1, <3>4, <3>5 DEF ReservationSound, Holds
    <3> QED
      BY <2>0, <3>3, <3>6, ReservationStep
  <2> QED
    BY <2>1, <2>2
<1>9. CASE CreateComposite(c)
  <2>1. generation' = generation
        /\ \/ request' = [request EXCEPT ![c] = NoRequest]
           \/ \E t : request' = [request EXCEPT ![c] = [k EXCEPT !.step = "link", !.task = t]]
    BY <1>0, <1>9 DEF CreateComposite
  <2>2. \A t : [k EXCEPT !.step = "link", !.task = t].step = "link"
    BY <1>0 DEF RequestRow
  <2> QED
    BY <1>1, <1>2, <2>1, <2>2 DEF Reserving
<1>10. CASE LinkComposite(c)
  BY <1>2, <1>10 DEF LinkComposite
<1>11. CASE \E w \in Wanted, p \in Contents : AskVersion(c, w, p)
  <2>1. PICK w \in Wanted, p \in Contents : AskVersion(c, w, p)
    BY <1>11
  <2> DEFINE key == KeyFor(w, p)
             m == [NoRequest EXCEPT !.plan = p, !.key = key, !.name = w.name]
             n == [m EXCEPT !.step = "series"]
  <2>2. /\ generation' = generation /\ series' = series
        /\ \/ request' = [request EXCEPT ![c] = n]
           \/ \E g \in DOMAIN generation : request' = [request EXCEPT ![c] = Reserved(m, g)]
    BY <2>1 DEF AskVersion, WithKey
  <2> HIDE DEF key
  <2>3. n.step = "series" /\ n.tries = 0
    BY NoRequestTyped DEF RequestRow, NoRequest
  <2>4. ASSUME NEW g \in DOMAIN generation PROVE Reserved(m, g).step = "task"
    BY NoRequestTyped DEF RequestRow, Reserved
  <2> HIDE DEF m, n
  <2>5. CASE request' = [request EXCEPT ![c] = n]
    <3>1. request'[c] = n
      BY <1>0, <2>5
    <3>2. ReservationSound(c)' /\ ~Holds(c)'
      BY <2>3, <3>1 DEF ReservationSound, Holds
    <3> QED
      BY <2>2, <2>5, <3>2, ReservationStep
  <2>6. CASE \E g \in DOMAIN generation : request' = [request EXCEPT ![c] = Reserved(m, g)]
    BY <1>1, <2>2, <2>4, <2>6 DEF Reserving
  <2> QED
    BY <2>2, <2>5, <2>6
<1> QED
  BY <1>3, <1>4, <1>5, <1>6, <1>7, <1>8, <1>9, <1>10, <1>11 DEF RequestStep

LEMMA OtherStepsInsertNothing ==
  ASSUME SeriesTyped,
         \/ UNCHANGED seriesVars \/ SourceChanges \/ TaskStep \/ ArchiveStep
         \/ \E w \in Workers : ExecutionStep(w)
  PROVE  DOMAIN generation' = DOMAIN generation /\ request' = request
<1>1. ASSUME NEW w \in Workers, ExecutionStep(w) PROVE DOMAIN generation' = DOMAIN generation /\ request' = request
  BY <1>1 DEF ExecutionStep, ReadGeneration, ReadVersion, ReadSeries, WriteRows, WriteAudit, Publish, Succeed, Fail
<1>2. CASE TaskStep
  BY <1>2 DEF TaskStep, Adopt, Retry, Execute, Lapse
<1>3. CASE ArchiveStep
  BY <1>3 DEF ArchiveStep, ArchiveSeries, ArchiveVersion
<1>4. CASE UNCHANGED seriesVars \/ SourceChanges
  BY <1>4 DEF seriesVars, SourceChanges
<1> QED
  BY <1>1, <1>2, <1>3, <1>4

LEMMA ReservationNext ==
  SeriesTyped /\ ReservationInv /\ [SeriesNext]_seriesVars => SeriesTyped' /\ ReservationInv'
<1> SUFFICES ASSUME SeriesTyped, ReservationInv, [SeriesNext]_seriesVars PROVE SeriesTyped' /\ ReservationInv'
  OBVIOUS
<1>1. SeriesTyped' /\ SeriesGrows
  BY SeriesTypedNext
<1>2. CASE SeriesCrash
  <2>1. /\ generation' = generation /\ request' = [c \in Requests |-> NoRequest]
    BY <1>2 DEF SeriesCrash
  <2>2. \A c \in Requests : ReservationSound(c)' /\ ~Holds(c)'
    BY <2>1, NoRequestTyped DEF ReservationSound, Holds, RequestAt
  <2> QED
    BY <1>1, <2>1, <2>2, VersionsSound DEF ReservationInv
<1>3. CASE \/ UNCHANGED seriesVars \/ SourceChanges \/ TaskStep \/ ArchiveStep
           \/ \E w \in Workers : ExecutionStep(w)
  BY <1>1, <1>3, OtherStepsInsertNothing, ReservationsRemain
<1>4. CASE \E c \in Requests : \/ RequestPreview(c) \/ RequestStep(c)
                              \/ \E w \in Wanted, p \in Contents : AskVersion(c, w, p)
  BY <1>1, <1>4, RequestStepSound
<1> QED
  BY <1>1, <1>2, <1>3, <1>4, SeriesCases

LEMMA SeriesInitSound == SeriesInit => SeriesTyped /\ ReservationInv /\ PublishInv /\ OneAttempt
<1> SUFFICES ASSUME SeriesInit PROVE SeriesTyped /\ ReservationInv /\ PublishInv /\ OneAttempt
  OBVIOUS
<1>1. /\ content \in Contents /\ series = [n \in Names |-> "none"] /\ generation = <<>> /\ task = <<>>
      /\ request = [c \in Requests |-> NoRequest] /\ execution = [w \in Workers |-> NoExecution]
  BY DEF SeriesInit
<1>2. generation \in Seq(GenRow) /\ task \in Seq(TaskRow) /\ DOMAIN generation = {} /\ DOMAIN task = {}
  BY <1>1
<1>3. RowsTyped
  BY <1>1, <1>2 DEF RowsTyped
<1>4. \A c \in Requests : RequestTyped(c) /\ ReservationSound(c) /\ ~Holds(c)
  BY <1>1, NoRequestTyped DEF RequestTyped, ReservationSound, Holds, RequestAt, Reserving, Linking
<1>5. \A w \in Workers : ExecutionTyped(w) /\ PublishSound(w)
  BY <1>1, NoExecutionTyped DEF ExecutionTyped, PublishSound, Looked
<1> QED
  BY <1>1, <1>2, <1>3, <1>4, <1>5 DEF SeriesTyped, ReservationInv, PublishInv, PublishedAsAudited, OneAttempt
-----------------------------------------------------------------------------
(* Publication.                                                             *)

\* Who is published in the next state was so with the same K-lines.
PublicationsRemain ==
  \A g \in DOMAIN generation' : generation'[g].published =>
    g \in DOMAIN generation /\ generation[g].published /\ generation'[g].klines = generation[g].klines

LEMMA PublicationsStaySound ==
  ASSUME SeriesGrows, PublishedAsAudited, PublicationsRemain
  PROVE  PublishedAsAudited'
BY DEF SeriesGrows, PublishedAsAudited, PublicationsRemain

LEMMA ExecutionStaysSound ==
  ASSUME SeriesTyped, SeriesGrows, NEW w \in Workers, PublishSound(w), execution'[w] = execution[w]
  PROVE  PublishSound(w)'
<1>1. CASE execution[w].step = "idle"
  BY <1>1 DEF PublishSound
<1>2. CASE execution[w].step # "idle"
  <2>1. execution[w].task \in DOMAIN task /\ GenOf(w) \in DOMAIN generation
    BY <1>2, TaskRowOf
  <2>2. GenOf(w)' = GenOf(w)
    BY <2>1 DEF GenOf, Doing, SeriesGrows
  <2> QED
    BY <2>1, <2>2 DEF PublishSound, SeriesGrows
<1> QED
  BY <1>1, <1>2

\* A worker that ends its execution leaves a version that was published before,
\* or publishes what it has read.
LEMMA SucceedPublishes ==
  ASSUME SeriesTyped, SeriesGrows, PublishInv, NEW w \in Workers, execution[w].step # "idle",
         NEW g, g \in GenRow, Succeed(w, g),
         g.published => \/ generation[GenOf(w)].published /\ g.klines = generation[GenOf(w)].klines
                        \/ g.integrity = "valid" /\ g.klines = g.rows
  PROVE  PublishedAsAudited'
<1>0. GenOf(w) \in DOMAIN generation
  BY TaskRowOf
<1> DEFINE h == [g EXCEPT !.results = @ \cup {execution[w].stage}]
<1>1. h.published = g.published /\ h.klines = g.klines /\ h.rows = g.rows /\ h.integrity = g.integrity
  BY DEF GenRow
<1>2. generation' = [generation EXCEPT ![GenOf(w)] = h] \/ generation' = [generation EXCEPT ![GenOf(w)] = g]
  BY DEF Succeed
<1> HIDE DEF h
<1>3. /\ DOMAIN generation' = DOMAIN generation
      /\ \A i \in DOMAIN generation \ {GenOf(w)} : generation'[i] = generation[i]
      /\ generation'[GenOf(w)] = h \/ generation'[GenOf(w)] = g
  BY <1>0, <1>2
<1>4. ASSUME NEW i \in DOMAIN generation, i # GenOf(w), generation'[i].published
      PROVE  generation'[i].integrity = "valid" /\ generation'[i].klines = generation'[i].rows
  BY <1>3, <1>4 DEF PublishInv, PublishedAsAudited
<1>5. ASSUME generation'[GenOf(w)].published
      PROVE  generation'[GenOf(w)].integrity = "valid" /\ generation'[GenOf(w)].klines = generation'[GenOf(w)].rows
  BY <1>0, <1>1, <1>3, <1>5 DEF PublishInv, PublishedAsAudited, SeriesGrows
<1> QED
  BY <1>3, <1>4, <1>5 DEF PublishedAsAudited

LEMMA ExecutionStepPublishes ==
  ASSUME SeriesTyped, SeriesTyped', SeriesGrows, PublishInv, NEW w \in Workers, ExecutionStep(w)
  PROVE  PublishInv'
<1> DEFINE v == generation[GenOf(w)]
<1>0. execution[w].step # "idle" /\ w \in DOMAIN execution /\ ExecutionTyped(w) /\ PublishSound(w)
  BY DEF SeriesTyped, PublishInv, ExecutionStep, ReadGeneration, ReadVersion, ReadSeries, WriteRows, WriteAudit,
         Publish, Executes
<1>1. v \in GenRow /\ GenOf(w) \in DOMAIN generation /\ execution[w].task \in DOMAIN task
  BY <1>0, TaskRowOf
<1>2. ASSUME PublishedAsAudited', PublishSound(w)', NEW k, execution' = [execution EXCEPT ![w] = k] PROVE PublishInv'
  <2>1. \A u \in Workers \ {w} : execution'[u] = execution[u]
    BY <1>2 DEF SeriesTyped
  <2> QED
    BY <1>2, <2>1, ExecutionStaysSound DEF PublishInv
<1>3. ASSUME execution' = [execution EXCEPT ![w] = NoExecution] PROVE PublishSound(w)'
  <2>1. execution'[w] = NoExecution
    BY <1>0, <1>3
  <2> QED
    BY <2>1, NoExecutionTyped DEF PublishSound
<1>4. ASSUME generation' = generation PROVE PublishedAsAudited'
  BY <1>4 DEF PublishInv, PublishedAsAudited
<1>5. ASSUME Fail(w) PROVE PublishInv'
  BY <1>2, <1>3, <1>4, <1>5 DEF Fail
<1>6. ASSUME NEW g, g \in GenRow, Succeed(w, g),
             g.published => \/ v.published /\ g.klines = v.klines
                            \/ g.integrity = "valid" /\ g.klines = g.rows
      PROVE  PublishInv'
  <2>1. PublishedAsAudited'
    BY <1>0, <1>6, SucceedPublishes
  <2> QED
    BY <1>2, <1>3, <1>6, <2>1 DEF Succeed
<1>7. ASSUME task' = task, generation' = generation, NEW k, execution' = [execution EXCEPT ![w] = k],
             k.task = execution[w].task, k.stage = execution[w].stage,
             k.step = "write" => k.stage = 3 /\ k.version.rows = v.rows,
             k.step \in {"work", "write"} /\ k.stage = 3 => v.integrity = "valid"
      PROVE  PublishInv'
  <2>1. execution'[w] = k
    BY <1>0, <1>7
  <2>2. GenOf(w)' = GenOf(w)
    BY <1>7, <2>1 DEF GenOf, Doing
  <2>3. PublishSound(w)'
    BY <1>7, <2>1, <2>2 DEF PublishSound
  <2> QED
    BY <1>2, <1>4, <1>7, <2>3
<1>8. CASE ReadGeneration(w)
  <2> DEFINE k == [execution[w] EXCEPT !.step = "version", !.gen = v]
  <2>1. Fail(w) \/ (execution' = [execution EXCEPT ![w] = k] /\ task' = task /\ generation' = generation)
    BY <1>0, <1>8 DEF ReadGeneration
  <2>2. k.task = execution[w].task /\ k.stage = execution[w].stage /\ k.step = "version"
    BY <1>0 DEF ExecutionTyped, ExecutionRow
  <2> HIDE DEF k
  <2> QED
    BY <1>5, <1>7, <2>1, <2>2
<1>9. CASE ReadVersion(w)
  <2> DEFINE k == [execution[w] EXCEPT !.step = "work", !.version = v]
  <2>1. \/ Fail(w) \/ Succeed(w, v)
        \/ /\ execution' = [execution EXCEPT ![w] = k] /\ task' = task /\ generation' = generation
           /\ StageVerdict(Stages[execution[w].stage], execution[w].gen, v) \notin {"done", "stale"}
    BY <1>0, <1>9 DEF ReadVersion
  <2>2. k.task = execution[w].task /\ k.stage = execution[w].stage /\ k.step = "work"
    BY <1>0 DEF ExecutionTyped, ExecutionRow
  <2>3. execution[w].stage = 3 /\ StageVerdict(Stages[execution[w].stage], execution[w].gen, v) \notin {"done", "stale"}
          => v.integrity = "valid"
    BY DEF StageVerdict, Stages
  <2> HIDE DEF k
  <2> QED
    BY <1>1, <1>5, <1>6, <1>7, <2>1, <2>2, <2>3
<1>10. CASE ReadSeries(w)
  <2> DEFINE k == [execution[w] EXCEPT !.step = "write", !.version = v]
  <2>1. \/ Fail(w)
        \/ execution' = [execution EXCEPT ![w] = k] /\ task' = task /\ generation' = generation
    BY <1>0, <1>10 DEF ReadSeries
  <2>2. k.task = execution[w].task /\ k.stage = execution[w].stage /\ k.step = "write" /\ k.version = v
    BY <1>0 DEF ExecutionTyped, ExecutionRow
  <2>3. execution[w].stage = 3 /\ v.integrity = "valid"
    <3>1. execution[w].step = "work" /\ Stages[execution[w].stage] = "publish" /\ execution[w].stage \in 1 .. 3
      BY <1>0, <1>10 DEF ReadSeries, Executes, ExecutionTyped
    <3>2. execution[w].stage = 3
      BY <3>1 DEF Stages
    <3> QED
      BY <1>0, <3>1, <3>2 DEF PublishSound
  <2> HIDE DEF k
  <2> QED
    BY <1>5, <1>7, <2>1, <2>2, <2>3
<1>11. CASE WriteRows(w)
  <2> DEFINE n == v.rows + 1
             g == [v EXCEPT !.rows = n, !.expanded = TRUE]
  <2>1. Fail(w) \/ (Expandable(v) /\ Succeed(w, g))
    BY <1>1, <1>11 DEF WriteRows, GenRow
  <2>2. n \in Nat
    BY <1>1 DEF GenRow
  <2> HIDE DEF n
  <2>3. g \in GenRow /\ g.published = v.published
    BY <1>1, <2>2 DEF GenRow
  <2> HIDE DEF g
  <2> QED
    BY <1>5, <1>6, <2>1, <2>3 DEF Expandable
<1>12. CASE WriteAudit(w)
  <2> DEFINE integrity == IF v.published THEN v.integrity ELSE "valid"
             g == [v EXCEPT !.integrity = integrity, !.checked = TRUE]
  <2>1. Succeed(w, g)
    BY <1>1, <1>12 DEF WriteAudit, GenRow
  <2>2. integrity \in {"pending", "valid"}
    BY <1>1 DEF GenRow
  <2> HIDE DEF integrity
  <2>3. g \in GenRow /\ g.published = v.published /\ g.klines = v.klines
    BY <1>1, <2>2 DEF GenRow
  <2> HIDE DEF g
  <2> QED
    BY <1>6, <2>1, <2>3
<1>13. CASE Publish(w)
  <2> DEFINE g == [v EXCEPT !.published = TRUE, !.klines = execution[w].version.rows]
  <2>1. Fail(w) \/ (v.integrity = "valid" /\ Succeed(w, g))
    BY <1>13 DEF Publish
  <2>2. execution[w].version.rows = v.rows /\ v.rows \in Nat
    BY <1>0, <1>1, <1>13 DEF Publish, Executes, PublishSound, GenRow
  <2>3. g \in GenRow /\ g.klines = v.rows /\ g.rows = v.rows /\ g.integrity = v.integrity
    BY <1>1, <2>2 DEF GenRow
  <2> HIDE DEF g
  <2> QED
    BY <1>5, <1>6, <2>1, <2>3
<1> QED
  BY <1>8, <1>9, <1>10, <1>11, <1>12, <1>13 DEF ExecutionStep

\* The other steps publish nothing.
LEMMA OtherStepsPublishNothing ==
  ASSUME SeriesTyped, SeriesGrows,
         \/ UNCHANGED seriesVars \/ SourceChanges \/ SeriesCrash \/ TaskStep \/ ArchiveStep
         \/ \E c \in Requests : \/ RequestPreview(c) \/ RequestStep(c)
                               \/ \E w \in Wanted, p \in Contents : AskVersion(c, w, p)
  PROVE  PublicationsRemain
<1>0. generation \in Seq(GenRow)
  BY DEF SeriesTyped, RowsTyped
<1>1. CASE generation' = generation
  BY <1>1 DEF PublicationsRemain
<1>2. ASSUME NEW g \in DOMAIN generation, ArchiveVersion(g) PROVE PublicationsRemain
  <2>1. /\ [generation[g] EXCEPT !.archived = TRUE].published = generation[g].published
        /\ [generation[g] EXCEPT !.archived = TRUE].klines = generation[g].klines
    BY <1>0 DEF GenRow
  <2> QED
    BY <1>2, <2>1 DEF ArchiveVersion, PublicationsRemain
<1>3. ASSUME NEW n \in Names, ArchiveSeries(n) PROVE PublicationsRemain
  <2>1. ASSUME NEW g \in DOMAIN generation
        PROVE  /\ [generation[g] EXCEPT !.archived = TRUE].published = generation[g].published
               /\ [generation[g] EXCEPT !.archived = TRUE].klines = generation[g].klines
    BY <1>0 DEF GenRow
  <2> QED
    BY <1>3, <2>1 DEF ArchiveSeries, PublicationsRemain
<1>4. ASSUME NEW c \in Requests, LinkComposite(c) PROVE PublicationsRemain
  <2> DEFINE k == request[c]
             v == generation[k.gen]
             t == IF v.task = 0 THEN k.task ELSE v.task
             g == [v EXCEPT !.task = t, !.versionTask = k.task]
  <2>1. k.gen \in DOMAIN generation
    BY <1>4 DEF LinkComposite, RequestAt, SeriesTyped, RequestTyped, Linking
  <2>2. v \in GenRow
    BY <1>0, <2>1
  <2>3. generation' = [generation EXCEPT ![k.gen] = g]
    BY <1>4, <2>1, <2>2 DEF LinkComposite, GenRow
  <2> HIDE DEF t
  <2>4. g.published = v.published /\ g.klines = v.klines
    BY <2>2 DEF GenRow
  <2> HIDE DEF g
  <2> QED
    BY <2>1, <2>3, <2>4 DEF PublicationsRemain
<1>5. ASSUME NEW c \in Requests, Insert(c) PROVE PublicationsRemain
  <2>1. CASE Violates(request[c])
    BY <1>1, <1>5, <2>1 DEF Insert
  <2>2. CASE ~Violates(request[c])
    <3>1. /\ DOMAIN generation = 1 .. Len(generation) /\ DOMAIN generation' = 1 .. Len(generation) + 1
          /\ \A g \in DOMAIN generation : generation'[g] = generation[g] /\ Len(generation) \in Nat
          /\ generation'[Len(generation) + 1] = NewGeneration(request[c]) /\ NewGeneration(request[c]) \in GenRow
      BY <1>0, <1>5, <2>2, InsertRows
    <3>2. ~NewGeneration(request[c]).published
      BY Zenon DEF NewGeneration
    <3>3. \A g \in DOMAIN generation' : g \in DOMAIN generation \/ g = Len(generation) + 1
      BY <1>0, <3>1
    <3> QED
      BY <3>1, <3>2, <3>3 DEF PublicationsRemain
  <2> QED
    BY <2>1, <2>2
<1>6. CASE UNCHANGED seriesVars \/ SourceChanges \/ SeriesCrash \/ TaskStep
  BY <1>1, <1>6 DEF seriesVars, SourceChanges, SeriesCrash, TaskStep, Adopt, Retry, Execute, Lapse
<1>7. ASSUME NEW c \in Requests, \/ RequestPreview(c) \/ CompareFingerprint(c) \/ PersistPreview(c)
                                 \/ FindSeries(c) \/ AfterConflict(c) \/ CreateComposite(c)
                                 \/ \E w \in Wanted, p \in Contents : AskVersion(c, w, p)
      PROVE  PublicationsRemain
  BY <1>1, <1>7 DEF RequestPreview, CompareFingerprint, PersistPreview, FindSeries, AfterConflict, CreateComposite,
                    AskVersion
<1> QED
  BY <1>2, <1>3, <1>4, <1>5, <1>6, <1>7 DEF ArchiveStep, RequestStep

LEMMA OtherStepsExecuteNothing ==
  ASSUME SeriesTyped, PublishInv, SeriesGrows,
         \/ UNCHANGED seriesVars \/ SourceChanges \/ SeriesCrash \/ TaskStep \/ ArchiveStep
         \/ \E c \in Requests : \/ RequestPreview(c) \/ RequestStep(c)
                               \/ \E w \in Wanted, p \in Contents : AskVersion(c, w, p)
  PROVE  \A w \in Workers : PublishSound(w)'
<1>1. ASSUME execution' = execution PROVE \A w \in Workers : PublishSound(w)'
  BY <1>1, ExecutionStaysSound DEF PublishInv
<1>2. ASSUME NEW w \in Workers, NEW k, execution' = [execution EXCEPT ![w] = k],
             k.step = "generation" \/ (k.step = execution[w].step /\ k.stage = execution[w].stage
                                        /\ k.task = execution[w].task /\ k.version = execution[w].version)
      PROVE  \A u \in Workers : PublishSound(u)'
  <2>1. execution'[w] = k /\ \A u \in Workers \ {w} : execution'[u] = execution[u]
    BY <1>2 DEF SeriesTyped
  <2>2. CASE k.step \in {"generation", "idle"}
    BY <2>1, <2>2, ExecutionStaysSound DEF PublishInv, PublishSound
  <2>3. CASE k.step \notin {"generation", "idle"}
    <3>1. execution[w].task \in DOMAIN task /\ GenOf(w) \in DOMAIN generation
      BY <1>2, <2>3, TaskRowOf
    <3>2. GenOf(w)' = GenOf(w)
      BY <1>2, <2>1, <2>3, <3>1 DEF GenOf, Doing, SeriesGrows
    <3>3. PublishSound(w)'
      BY <1>2, <2>1, <2>3, <3>1, <3>2 DEF PublishInv, PublishSound, SeriesGrows
    <3> QED
      BY <2>1, <3>3, ExecutionStaysSound DEF PublishInv
  <2> QED
    BY <2>2, <2>3
<1>3. ASSUME NEW w \in Workers, Lapse(w) PROVE \A u \in Workers : PublishSound(u)'
  <2> DEFINE k == [execution[w] EXCEPT !.owner = FALSE]
  <2>1. execution' = [execution EXCEPT ![w] = k]
    BY <1>3 DEF Lapse
  <2>2. execution[w] \in ExecutionRow
    BY DEF SeriesTyped, ExecutionTyped
  <2>3. k.step = execution[w].step /\ k.stage = execution[w].stage /\ k.task = execution[w].task
        /\ k.version = execution[w].version
    BY <2>2 DEF ExecutionRow
  <2> HIDE DEF k
  <2> QED
    BY <1>2, <2>1, <2>3
<1>4. ASSUME NEW t \in DOMAIN task, NEW w \in Workers, Execute(w, t) PROVE \A u \in Workers : PublishSound(u)'
  <2> DEFINE stage == NextStage(t)
             k == [NoExecution EXCEPT !.step = "generation", !.task = t, !.stage = stage, !.owner = TRUE]
  <2>1. execution' = [execution EXCEPT ![w] = k]
    BY <1>4 DEF Execute
  <2> HIDE DEF stage
  <2>2. k.step = "generation"
    BY NoExecutionTyped DEF ExecutionRow
  <2> HIDE DEF k
  <2> QED
    BY <1>2, <2>1, <2>2
<1>5. CASE SeriesCrash
  BY <1>5, NoExecutionTyped DEF SeriesCrash, PublishSound
<1>6. CASE TaskStep
  BY <1>1, <1>3, <1>4, <1>6 DEF TaskStep, Adopt, Retry
<1>7. CASE \E c \in Requests : \/ RequestPreview(c) \/ RequestStep(c)
                              \/ \E w \in Wanted, p \in Contents : AskVersion(c, w, p)
  BY ZenonT(60), <1>1, <1>7 DEF RequestStep, RequestPreview, CompareFingerprint, PersistPreview, FindSeries, Insert,
                    AfterConflict, CreateComposite, LinkComposite, AskVersion
<1>8. CASE UNCHANGED seriesVars \/ SourceChanges \/ ArchiveStep
  BY <1>1, <1>8 DEF seriesVars, SourceChanges, ArchiveStep, ArchiveSeries, ArchiveVersion
<1> QED
  BY <1>5, <1>6, <1>7, <1>8

LEMMA PublishNext ==
  SeriesTyped /\ ReservationInv /\ PublishInv /\ [SeriesNext]_seriesVars => PublishInv'
<1> SUFFICES ASSUME SeriesTyped, ReservationInv, PublishInv, [SeriesNext]_seriesVars PROVE PublishInv'
  OBVIOUS
<1>1. SeriesTyped' /\ SeriesGrows
  BY SeriesTypedNext
<1>2. CASE \E w \in Workers : ExecutionStep(w)
  BY <1>1, <1>2, ExecutionStepPublishes
<1>3. CASE \/ UNCHANGED seriesVars \/ SourceChanges \/ SeriesCrash \/ TaskStep \/ ArchiveStep
           \/ \E c \in Requests : \/ RequestPreview(c) \/ RequestStep(c)
                                 \/ \E w \in Wanted, p \in Contents : AskVersion(c, w, p)
  BY <1>1, <1>3, OtherStepsPublishNothing, OtherStepsExecuteNothing, PublicationsStaySound DEF PublishInv
<1> QED
  BY <1>2, <1>3, SeriesCases
-----------------------------------------------------------------------------
(* Attempts, and the theorems about versions.                               *)

LEMMA OneAttemptNext ==
  SeriesTyped /\ ReservationInv /\ OneAttempt /\ [SeriesNext]_seriesVars => OneAttempt'
<1> SUFFICES ASSUME SeriesTyped, ReservationInv, OneAttempt, [SeriesNext]_seriesVars PROVE OneAttempt'
  OBVIOUS
<1>1. SeriesGrows /\ task \in Seq(TaskRow)
  BY SeriesTypedNext DEF SeriesTyped, RowsTyped
<1>2. CASE DOMAIN task' = DOMAIN task
  BY <1>1, <1>2 DEF OneAttempt, SeriesGrows
<1>3. ASSUME NEW c \in Requests, CreateComposite(c) PROVE OneAttempt'
  <2> DEFINE k == request[c]
             new == NewTask(k.gen, k.plan)
  <2>1. CASE task' = task
    BY <1>2, <2>1
  <2>2. CASE SameTask(k.gen, k.plan) = {} /\ task' = Append(task, new)
    <3>1. /\ DOMAIN task = 1 .. Len(task) /\ DOMAIN task' = 1 .. Len(task) + 1 /\ Len(task) \in Nat
          /\ \A t \in DOMAIN task : task'[t] = task[t]
          /\ task'[Len(task) + 1] = new
      BY <1>1, <2>2
    <3>2. new.gen = k.gen /\ new.plan = k.plan
      BY DEF NewTask
    <3>3. \A t \in DOMAIN task : ~(task[t].gen = new.gen /\ task[t].plan = new.plan)
      BY <2>2, <3>2 DEF SameTask
    <3> HIDE DEF new
    <3> SUFFICES ASSUME NEW t \in DOMAIN task', NEW u \in DOMAIN task',
                        task'[t].gen = task'[u].gen, task'[t].plan = task'[u].plan
                 PROVE  t = u
      BY DEF OneAttempt
    <3>4. (t \in DOMAIN task \/ t = Len(task) + 1) /\ (u \in DOMAIN task \/ u = Len(task) + 1)
      BY <3>1
    <3> QED
      BY <3>1, <3>3, <3>4 DEF OneAttempt
  <2> QED
    BY <1>3, <2>1, <2>2 DEF CreateComposite
<1>4. ASSUME NEW w \in Workers, ExecutionStep(w) PROVE DOMAIN task' = DOMAIN task
  BY <1>4 DEF ExecutionStep, ReadGeneration, ReadVersion, ReadSeries, WriteRows, WriteAudit, Publish, Succeed, Fail
<1>5. CASE TaskStep \/ ArchiveStep \/ UNCHANGED seriesVars \/ SourceChanges \/ SeriesCrash
  <2>1. DOMAIN task' = DOMAIN task
    BY <1>5 DEF TaskStep, Adopt, Retry, Execute, Lapse, ArchiveStep, ArchiveSeries, ArchiveVersion, seriesVars,
                SourceChanges, SeriesCrash
  <2> QED
    BY <1>2, <2>1
<1>6. ASSUME NEW c \in Requests, \/ RequestPreview(c) \/ CompareFingerprint(c) \/ PersistPreview(c)
                                 \/ FindSeries(c) \/ Insert(c) \/ AfterConflict(c) \/ LinkComposite(c)
                                 \/ \E w \in Wanted, p \in Contents : AskVersion(c, w, p)
      PROVE  task' = task
  BY <1>6 DEF RequestPreview, CompareFingerprint, PersistPreview, FindSeries, Insert, AfterConflict, LinkComposite,
              AskVersion
<1> QED
  BY <1>2, <1>3, <1>4, <1>5, <1>6, SeriesCases DEF RequestStep

LEMMA SeriesInvariant == SeriesSpec => [](SeriesTyped /\ ReservationInv /\ PublishInv /\ OneAttempt)
BY SeriesInitSound, ReservationNext, PublishNext, OneAttemptNext, PTL DEF SeriesSpec

\* No reservation runs out of tries, whatever requests race for a series or a key.
THEOREM TriesAreEnough == SeriesSpec => []TriesSuffice
<1>1. ReservationInv => TriesSuffice
  BY DEF ReservationInv, ReservationSound, TriesSuffice, RequestAt
<1> QED
  BY <1>1, SeriesInvariant, PTL

\* There is one composite task for a generation and a plan, over repeated and
\* interrupted requests.
THEOREM AttemptsAreUnique == SeriesSpec => []OneAttempt
BY SeriesInvariant, PTL

\* What is published was audited and is served as it was audited.
THEOREM PublicationsAreAudited == SeriesSpec => []PublishedAsAudited
<1>1. PublishInv => PublishedAsAudited
  BY DEF PublishInv
<1> QED
  BY <1>1, SeriesInvariant, PTL

\* The rows of an audited version do not change, whichever executions whose lease
\* has lapsed are still under way.
THEOREM AuditedRowsAreFrozen == SeriesSpec => AuditedIsFrozen
<1>1. SeriesTyped /\ ReservationInv /\ [SeriesNext]_seriesVars =>
        [\A g \in DOMAIN generation :
           generation[g].integrity = "valid" => generation'[g].rows = generation[g].rows]_seriesVars
  BY SeriesTypedNext DEF SeriesGrows
<1> QED
  BY <1>1, SeriesInvariant, PTL DEF SeriesSpec, AuditedIsFrozen
-----------------------------------------------------------------------------
(* Tests on perturbed prices.  A run belongs to one batch for good, and its *)
(* result, once stored, stays.  So the runs of other batches that had a     *)
(* result when a batch was planned and the runs of the batch that have one  *)
(* when its task has ended are different datasets of its manifest; as many  *)
(* as were planned of them are all of them.                                 *)

RunRow == [status : {"none", "pending", "completed", "failed", "cancelled"}, batch : Nat, result : BOOLEAN]
BatchRow == [manifest : SUBSET Datasets, linked : BOOLEAN, cancel : BOOLEAN,
             status : {"running", "completed", "cancelled", "failed", "partially_completed"},
             planned : Nat, hits : Nat]

WithResult(m) == {d \in m : testRun[d].result}
FromOthers(b) == {d \in WithResult(batch[b].manifest) : testRun[d].batch # b}
OwnResults(b) == {d \in RunsOf(b) : testRun[d].result}

RunSound(d) ==
  /\ RunIs(d, "none") => workItem[d] = "none" /\ testRun[d].batch = 0 /\ ~testRun[d].result
  /\ ~RunIs(d, "none") => testRun[d].batch \in DOMAIN batch /\ d \in batch[testRun[d].batch].manifest
  /\ RunIs(d, "completed") => testRun[d].result
  /\ exec[d] # "idle" => workItem[d] = "running"
  /\ exec[d] = "saved" \/ workItem[d] = "completed" => RunIs(d, "completed")

BatchSound(b) ==
  /\ batch[b].planned = Cardinality(batch[b].manifest)
  /\ batch[b].hits <= Cardinality(FromOthers(b))

TestsTyped ==
  /\ testRun \in [Datasets -> RunRow] /\ batch \in Seq(BatchRow)
  /\ workItem \in [Datasets -> {"none", "pending", "running", "completed", "failed", "cancelled"}]
  /\ exec \in [Datasets -> {"idle", "backtest", "save", "saved", "failing"}]
  /\ DOMAIN visit = Visits

VisitShape(k) ==
  DOMAIN k = {"op", "step", "manifest", "hits", "at", "new", "todo", "ended", "completed", "failed", "seen",
              "batches", "planned"}

\* A plan counts results, a count those of its batch; runs that were reserved wait
\* for their items.
VisitSound(c) ==
  LET k == visit[c] IN
  /\ VisitShape(k)
  /\ k.step \in {"sync", "count", "write"} => k.todo \subseteq DOMAIN batch
  /\ k.step \in {"mark", "link", "count", "write"} => k.at \in DOMAIN batch
  /\ k.step = "reserve" =>
       k.manifest \subseteq Datasets /\ k.hits \in Nat /\ k.hits <= Cardinality(WithResult(k.manifest))
  /\ k.step = "task" =>
       /\ k.new \subseteq Datasets /\ k.at \in DOMAIN batch
       /\ \A d \in k.new : workItem[d] = "none" /\ ~RunIs(d, "none")
  /\ k.step = "write" => k.completed \in Nat /\ k.completed <= Cardinality(OwnResults(k.at))

ReservedOnce ==
  \A c, e \in Visits : VisitAt(c, "task") /\ VisitAt(e, "task") /\ c # e => visit[c].new \cap visit[e].new = {}

TestsInv ==
  /\ TestsTyped /\ ReservedOnce
  /\ \A d \in Datasets : RunSound(d)
  /\ \A b \in DOMAIN batch : BatchSound(b)
  /\ \A c \in Visits : VisitSound(c)
\* A run keeps its batch and its result, a batch its plan.
TestsGrow ==
  /\ DOMAIN batch \subseteq DOMAIN batch'
  /\ \A b \in DOMAIN batch : /\ batch'[b].manifest = batch[b].manifest
                             /\ batch'[b].planned = batch[b].planned /\ batch'[b].hits = batch[b].hits
  /\ \A d \in Datasets : ~RunIs(d, "none") => testRun'[d].status # "none" /\ testRun'[d].batch = testRun[d].batch
  /\ \A d \in Datasets : testRun[d].result => testRun'[d].result

LEMMA DatasetsFinite == IsFiniteSet(Datasets)
BY VariantsAssumption, FS_Singleton, FS_Union DEF Datasets

LEMMA CountsGrow ==
  ASSUME NEW T \in SUBSET Datasets, NEW S \in SUBSET T
  PROVE  Cardinality(S) \in Nat /\ Cardinality(T) \in Nat /\ Cardinality(S) <= Cardinality(T)
<1>1. IsFiniteSet(T) /\ IsFiniteSet(S)
  BY DatasetsFinite, FS_Subset
<1> QED
  BY <1>1, FS_Subset, FS_CardinalityType

LEMMA BatchRows ==
  ASSUME TestsTyped, NEW b \in DOMAIN batch
  PROVE  /\ batch[b] \in BatchRow /\ batch[b].manifest \subseteq Datasets /\ b \in Nat \ {0}
         /\ batch[b].planned \in Nat /\ batch[b].hits \in Nat
<1>1. batch[b] \in BatchRow /\ b \in Nat \ {0}
  BY DEF TestsTyped
<1> QED
  BY <1>1 DEF BatchRow

LEMMA BatchesStaySound ==
  ASSUME TestsInv, TestsGrow
  PROVE  \A b \in DOMAIN batch : BatchSound(b)'
<1> SUFFICES ASSUME NEW b \in DOMAIN batch PROVE BatchSound(b)'
  OBVIOUS
<1>1. batch[b].manifest \subseteq Datasets /\ batch[b].hits \in Nat /\ BatchSound(b)
  BY BatchRows DEF TestsInv
<1>2. FromOthers(b) \subseteq FromOthers(b)'
  <2> SUFFICES ASSUME NEW d \in FromOthers(b) PROVE d \in FromOthers(b)'
    OBVIOUS
  <2>1. d \in batch[b].manifest /\ testRun[d].result /\ testRun[d].batch # b /\ d \in Datasets /\ RunSound(d)
    BY <1>1 DEF FromOthers, WithResult, TestsInv
  <2> QED
    BY <2>1 DEF FromOthers, WithResult, TestsGrow, RunSound
<1>3. FromOthers(b)' \subseteq Datasets
  BY <1>1 DEF FromOthers, WithResult, TestsGrow
<1>4. /\ Cardinality(FromOthers(b)) \in Nat /\ Cardinality(FromOthers(b)') \in Nat
      /\ Cardinality(FromOthers(b)) <= Cardinality(FromOthers(b)')
  BY <1>2, <1>3, CountsGrow
<1>5. Cardinality(FromOthers(b))' = Cardinality(FromOthers(b)')
  OBVIOUS
<1> QED
  BY <1>1, <1>4, <1>5 DEF BatchSound, TestsGrow

\* A visit that makes no step keeps what it knows.
LEMMA VisitStaysSound ==
  ASSUME TestsInv, TestsGrow, NEW c \in Visits, visit'[c] = visit[c],
         VisitAt(c, "task") => \A d \in visit[c].new : workItem'[d] = "none"
  PROVE  VisitSound(c)'
<1> DEFINE k == visit[c]
<1>0. VisitSound(c)
  BY DEF TestsInv
<1>1. ASSUME k.step = "reserve" PROVE k.hits <= Cardinality(WithResult(k.manifest))'
  <2>1. k.manifest \subseteq Datasets /\ k.hits \in Nat /\ k.hits <= Cardinality(WithResult(k.manifest))
    BY <1>0, <1>1 DEF VisitSound
  <2> DEFINE now == WithResult(k.manifest)
             then == {d \in k.manifest : testRun'[d].result}
  <2>2. now \subseteq then /\ then \subseteq Datasets
    BY <2>1 DEF WithResult, TestsGrow
  <2>3. Cardinality(now) \in Nat /\ Cardinality(then) \in Nat /\ Cardinality(now) <= Cardinality(then)
    BY <2>2, CountsGrow
  <2>4. Cardinality(WithResult(k.manifest))' = Cardinality(then)
    BY DEF WithResult
  <2> HIDE DEF now, then
  <2>5. k.hits <= Cardinality(now)
    BY <2>1 DEF now
  <2> QED
    BY <2>1, <2>3, <2>4, <2>5
<1>2. ASSUME k.step = "write" PROVE k.completed <= Cardinality(OwnResults(k.at))'
  <2>1. k.completed \in Nat /\ k.completed <= Cardinality(OwnResults(k.at)) /\ k.at \in DOMAIN batch
    BY <1>0, <1>2 DEF VisitSound
  <2> DEFINE now == OwnResults(k.at)
             then == {d \in Datasets : testRun'[d].batch = k.at /\ testRun'[d].result}
  <2>2. now \subseteq then /\ then \subseteq Datasets
    <3> SUFFICES ASSUME NEW d \in now PROVE d \in then
      OBVIOUS
    <3>1. d \in Datasets /\ testRun[d].batch = k.at /\ testRun[d].result /\ RunSound(d)
      BY DEF OwnResults, RunsOf, TestsInv
    <3> QED
      BY <3>1 DEF TestsGrow, RunSound
  <2>3. Cardinality(now) \in Nat /\ Cardinality(then) \in Nat /\ Cardinality(now) <= Cardinality(then)
    BY <2>2, CountsGrow
  <2>4. Cardinality(OwnResults(k.at))' = Cardinality(then)
    <3>1. OwnResults(k.at)' = then
      BY DEF OwnResults, RunsOf
    <3> QED
      BY <3>1
  <2> HIDE DEF now, then
  <2>5. k.completed <= Cardinality(now)
    BY <2>1 DEF now
  <2> QED
    BY <2>1, <2>3, <2>4, <2>5
<1>3. k.step = "task" => k.new \subseteq Datasets /\ \A d \in k.new : testRun'[d].status # "none"
  BY <1>0 DEF VisitSound, TestsGrow
<1>4. k.step = "reserve" => k.hits <= (Cardinality(WithResult(visit[c].manifest)))'
  BY <1>1
<1>5. k.step = "write" => k.completed <= (Cardinality(OwnResults(visit[c].at)))'
  BY <1>2
<1> QED
  BY <1>0, <1>3, <1>4, <1>5 DEF VisitSound, TestsGrow, VisitAt, RunIs, VisitShape
\* One visit makes a step that leaves runs and items alone and reserves nothing.
LEMMA VisitStep ==
  ASSUME TestsInv, testRun' = testRun, workItem' = workItem, exec' = exec, TestsGrow,
         batch' \in Seq(BatchRow), DOMAIN batch' = DOMAIN batch,
         NEW c \in Visits, NEW k, visit' = [visit EXCEPT ![c] = k], VisitSound(c)', k.step # "task"
  PROVE  TestsInv'
<1>1. visit'[c] = k /\ DOMAIN visit' = Visits /\ \A e \in Visits \ {c} : visit'[e] = visit[e]
  BY DEF TestsInv, TestsTyped
<1>2. ASSUME NEW e \in Visits \ {c} PROVE VisitSound(e)'
  <2>1. VisitAt(e, "task") => \A d \in visit[e].new : workItem'[d] = "none"
    BY DEF TestsInv, VisitSound, VisitAt
  <2> QED
    BY <1>1, <2>1, VisitStaysSound
<1>3. TestsTyped'
  BY <1>1 DEF TestsInv, TestsTyped
<1>4. \A d \in Datasets : RunSound(d)'
  <2> SUFFICES ASSUME NEW d \in Datasets PROVE RunSound(d)'
    OBVIOUS
  <2>1. RunSound(d)
    BY DEF TestsInv
  <2> QED
    BY <2>1 DEF RunSound, RunIs, TestsGrow
<1>5. ReservedOnce'
  BY <1>1 DEF TestsInv, ReservedOnce, VisitAt
<1> QED
  BY <1>1, <1>2, <1>3, <1>4, <1>5, BatchesStaySound DEF TestsInv

LEMMA NothingChanges ==
  ASSUME TestsInv, testRun' = testRun, batch' = batch
  PROVE  TestsGrow /\ batch' \in Seq(BatchRow) /\ DOMAIN batch' = DOMAIN batch
BY DEF TestsGrow, RunIs, TestsInv, TestsTyped

\* Only the visit changes.
LEMMA VisitOnly ==
  ASSUME TestsInv, testRun' = testRun, batch' = batch, workItem' = workItem, exec' = exec,
         NEW c \in Visits, NEW k, visit' = [visit EXCEPT ![c] = k], VisitShape(k),
         k.step \notin {"task", "reserve", "write"},
         k.step \in {"sync", "count"} => k.todo \subseteq DOMAIN batch,
         k.step \in {"mark", "link", "count"} => k.at \in DOMAIN batch
  PROVE  TestsInv'
<1>1. visit'[c] = k
  BY DEF TestsInv, TestsTyped
<1>2. VisitSound(c)'
  BY <1>1 DEF VisitSound, VisitShape
<1> QED
  BY <1>2, NothingChanges, VisitStep

LEMMA NoVisitShape == VisitShape(NoVisit) /\ NoVisit.step = "idle"
BY DEF VisitShape, NoVisit

\* The status of a batch changes, or its link.
LEMMA BatchChanges ==
  ASSUME TestsInv, testRun' = testRun, NEW b \in DOMAIN batch, NEW r \in BatchRow,
         batch' = [batch EXCEPT ![b] = r],
         r.manifest = batch[b].manifest, r.planned = batch[b].planned, r.hits = batch[b].hits
  PROVE  TestsGrow /\ batch' \in Seq(BatchRow) /\ DOMAIN batch' = DOMAIN batch
<1>1. batch \in Seq(BatchRow)
  BY DEF TestsInv, TestsTyped
<1>2. batch' \in Seq(BatchRow) /\ DOMAIN batch' = DOMAIN batch
  BY <1>1, SeqExcept
<1> QED
  BY <1>2 DEF TestsGrow, RunIs

LEMMA StatusTyped ==
  ASSUME NEW k
  PROVE  StatusFor(k) \in {"completed", "cancelled", "failed", "partially_completed"}
BY DEF StatusFor

LEMMA VisitSteps ==
  ASSUME TestsInv, NEW c \in Visits,
         \/ GetTest(c) \/ MarkCompleted(c) \/ LinkTask(c) \/ GetStep(c)
         \/ \E m \in Manifests : Plan(c, m)
  PROVE  TestsInv'
<1> DEFINE k == visit[c]
<1> USE DEF VisitAt, VisitGoto, VisitEnds
<1>0. VisitSound(c) /\ VisitShape(k) /\ c \in DOMAIN visit /\ TestsTyped
  BY DEF TestsInv, VisitSound, TestsTyped
<1>a. ASSUME testRun' = testRun, batch' = batch, workItem' = workItem, exec' = exec,
             visit' = [visit EXCEPT ![c] = NoVisit]
      PROVE  TestsInv'
  BY <1>a, NoVisitShape, VisitOnly
<1>b. ASSUME testRun' = testRun, batch' = batch, workItem' = workItem, exec' = exec,
             NEW step, step \in {"runs", "batches", "look", "create", "error"},
             visit' = [visit EXCEPT ![c].step = step]
      PROVE  TestsInv'
  <2>1. visit' = [visit EXCEPT ![c] = [k EXCEPT !.step = step]]
    BY <1>0, <1>b
  <2>2. VisitShape([k EXCEPT !.step = step]) /\ [k EXCEPT !.step = step].step = step
    BY <1>0 DEF VisitShape
  <2> QED
    BY <1>b, <2>1, <2>2, VisitOnly
<1>1. CASE GetTest(c)
  <2>1. PICK open \in SUBSET DOMAIN batch :
          visit' = [visit EXCEPT ![c] = [NoVisit EXCEPT !.op = "get", !.step = "sync", !.todo = open]]
    BY <1>1 DEF GetTest
  <2> DEFINE m == [NoVisit EXCEPT !.op = "get", !.step = "sync", !.todo = open]
  <2>2. VisitShape(m) /\ m.step = "sync" /\ m.todo = open
    BY NoVisitShape DEF VisitShape
  <2> HIDE DEF m
  <2> QED
    BY <1>1, <2>1, <2>2, VisitOnly DEF GetTest, m
<1>2. CASE \E m \in Manifests : Plan(c, m)
  <2>1. PICK m \in Manifests : Plan(c, m)
    BY <1>2
  <2> DEFINE hits == Cardinality({d \in m : RunIs(d, "completed")})
             p == [NoVisit EXCEPT !.op = "start", !.step = "reserve", !.manifest = m, !.hits = hits]
  <2>2. visit' = [visit EXCEPT ![c] = p] /\ testRun' = testRun /\ batch' = batch /\ workItem' = workItem
        /\ exec' = exec
    BY <2>1 DEF Plan
  <2>3. m \subseteq Datasets
    BY DEF Manifests, Datasets
  <2>4. {d \in m : RunIs(d, "completed")} \subseteq WithResult(m) /\ WithResult(m) \subseteq Datasets
    BY <2>3 DEF WithResult, TestsInv, RunSound
  <2>5. hits \in Nat /\ hits <= Cardinality(WithResult(m))
    BY <2>4, CountsGrow
  <2> HIDE DEF hits
  <2>6. VisitShape(p) /\ p.step = "reserve" /\ p.manifest = m /\ p.hits = hits
    BY NoVisitShape DEF VisitShape
  <2> HIDE DEF p
  <2>7. visit'[c] = p
    BY <1>0, <2>2
  <2>8. WithResult(m)' = WithResult(m)
    BY <2>2 DEF WithResult
  <2>9. VisitSound(c)'
    BY <2>3, <2>5, <2>6, <2>7, <2>8 DEF VisitSound, VisitShape
  <2> QED
    BY <2>2, <2>6, <2>9, NothingChanges, VisitStep
<1>3. CASE MarkCompleted(c)
  <2> DEFINE b == k.at
             r == [batch[b] EXCEPT !.status = "completed"]
             m == [k EXCEPT !.step = "runs"]
  <2>1. b \in DOMAIN batch
    BY <1>0, <1>3 DEF MarkCompleted, VisitSound
  <2>2. batch[b] \in BatchRow
    BY <1>0, <2>1, BatchRows
  <2>3. r \in BatchRow /\ r.manifest = batch[b].manifest /\ r.planned = batch[b].planned /\ r.hits = batch[b].hits
    BY <2>2 DEF BatchRow
  <2>4. batch' = [batch EXCEPT ![b] = r] /\ visit' = [visit EXCEPT ![c] = m] /\ testRun' = testRun
        /\ workItem' = workItem /\ exec' = exec
    BY <1>0, <1>3, <2>1 DEF MarkCompleted
  <2>5. VisitShape(m) /\ m.step = "runs"
    BY <1>0 DEF VisitShape
  <2> HIDE DEF r, m
  <2>6. visit'[c] = m
    BY <1>0, <2>4
  <2>7. VisitSound(c)'
    BY <2>5, <2>6 DEF VisitSound, VisitShape
  <2>8. TestsGrow /\ batch' \in Seq(BatchRow) /\ DOMAIN batch' = DOMAIN batch
    BY <2>1, <2>3, <2>4, BatchChanges
  <2> QED
    BY <2>4, <2>5, <2>7, <2>8, VisitStep
<1>4. CASE LinkTask(c)
  <2> DEFINE b == k.at
             r == [batch[b] EXCEPT !.linked = TRUE]
  <2>1. b \in DOMAIN batch
    BY <1>0, <1>4 DEF LinkTask, VisitSound
  <2>2. batch[b] \in BatchRow
    BY <1>0, <2>1, BatchRows
  <2>3. r \in BatchRow /\ r.manifest = batch[b].manifest /\ r.planned = batch[b].planned /\ r.hits = batch[b].hits
    BY <2>2 DEF BatchRow
  <2>4. batch' = [batch EXCEPT ![b] = r] /\ visit' = [visit EXCEPT ![c] = NoVisit] /\ testRun' = testRun
        /\ workItem' = workItem /\ exec' = exec
    BY <1>0, <1>4, <2>1 DEF LinkTask
  <2> HIDE DEF r
  <2>6. visit'[c] = NoVisit
    BY <1>0, <2>4
  <2>7. VisitSound(c)'
    BY <2>6, NoVisitShape DEF VisitSound, VisitShape
  <2>8. TestsGrow /\ batch' \in Seq(BatchRow) /\ DOMAIN batch' = DOMAIN batch
    BY <2>1, <2>3, <2>4, BatchChanges
  <2> QED
    BY <2>4, <2>7, <2>8, NoVisitShape, VisitStep
<1>5. ASSUME NEW b \in DOMAIN batch, ReadTask(c, b) PROVE TestsInv'
  <2> DEFINE m == [k EXCEPT !.todo = @ \ {b}]
             n == [m EXCEPT !.step = "count", !.at = b, !.ended = TaskStatus(b)]
  <2>1. VisitShape(m) /\ m.step = "sync" /\ m.todo = k.todo \ {b}
    BY <1>0, <1>5 DEF VisitShape, ReadTask
  <2>2. visit' = [visit EXCEPT ![c] = m] \/ visit' = [visit EXCEPT ![c] = n]
    BY <1>5 DEF ReadTask
  <2> HIDE DEF m
  <2>3. VisitShape(n) /\ n.step = "count" /\ n.todo = m.todo /\ n.at = b
    BY <2>1 DEF VisitShape
  <2>4. k.todo \subseteq DOMAIN batch
    BY <1>0, <1>5 DEF ReadTask, VisitSound
  <2> HIDE DEF n
  <2> QED
    BY <1>5, <2>1, <2>2, <2>3, <2>4, VisitOnly DEF ReadTask
<1>6. CASE CountRuns(c)
  <2> DEFINE done == Cardinality(RunsCompleted(k.at))
             broken == Cardinality(RunsBroken(k.at))
             m == [k EXCEPT !.step = "write", !.completed = done, !.failed = broken]
  <2>1. visit' = [visit EXCEPT ![c] = m] /\ testRun' = testRun /\ batch' = batch /\ workItem' = workItem
        /\ exec' = exec /\ k.at \in DOMAIN batch /\ k.todo \subseteq DOMAIN batch
    BY <1>0, <1>6 DEF CountRuns, VisitSound
  <2>2. RunsCompleted(k.at) \subseteq OwnResults(k.at) /\ OwnResults(k.at) \subseteq Datasets
    BY DEF RunsCompleted, RunsOf, OwnResults, TestsInv, RunSound
  <2>3. done \in Nat /\ done <= Cardinality(OwnResults(k.at))
    BY <2>2, CountsGrow
  <2> HIDE DEF done, broken
  <2>4. VisitShape(m) /\ m.step = "write" /\ m.completed = done /\ m.at = k.at /\ m.todo = k.todo
    BY <1>0 DEF VisitShape
  <2> HIDE DEF m
  <2>5. visit'[c] = m
    BY <1>0, <2>1
  <2>6. (Cardinality(OwnResults(visit[c].at)))' = Cardinality(OwnResults(k.at))
    <3>1. (OwnResults(visit[c].at))' = OwnResults(k.at)
      BY <2>1, <2>4, <2>5 DEF OwnResults, RunsOf
    <3> QED
      BY <3>1
  <2>7. VisitSound(c)'
    BY <2>1, <2>3, <2>4, <2>5, <2>6 DEF VisitSound, VisitShape
  <2> QED
    BY <2>1, <2>4, <2>7, NothingChanges, VisitStep
<1>7. CASE WriteBatch(c)
  <2> DEFINE b == k.at
             status == StatusFor(k)
             r == [batch[b] EXCEPT !.status = status]
             m == [NoVisit EXCEPT !.op = "get", !.step = "sync", !.todo = k.todo]
  <2>1. b \in DOMAIN batch /\ k.todo \subseteq DOMAIN batch
    BY <1>0, <1>7 DEF WriteBatch, VisitSound
  <2>2. batch[b] \in BatchRow
    BY <1>0, <2>1, BatchRows
  <2>4. batch' = [batch EXCEPT ![b] = r] /\ visit' = [visit EXCEPT ![c] = m] /\ testRun' = testRun
        /\ workItem' = workItem /\ exec' = exec
    BY <1>0, <1>7, <2>1 DEF WriteBatch
  <2>3. r \in BatchRow /\ r.manifest = batch[b].manifest /\ r.planned = batch[b].planned /\ r.hits = batch[b].hits
    <3>1. status \in {"running", "completed", "cancelled", "failed", "partially_completed"}
      BY StatusTyped
    <3> HIDE DEF status
    <3> QED
      BY <2>2, <3>1 DEF BatchRow
  <2>5. VisitShape(m) /\ m.step = "sync" /\ m.todo = k.todo
    BY NoVisitShape DEF VisitShape
  <2> HIDE DEF r, m
  <2>6. visit'[c] = m
    BY <1>0, <2>4
  <2>8. TestsGrow /\ batch' \in Seq(BatchRow) /\ DOMAIN batch' = DOMAIN batch
    BY <2>1, <2>3, <2>4, BatchChanges
  <2>7. VisitSound(c)'
    BY <2>1, <2>5, <2>6, <2>8 DEF VisitSound, VisitShape
  <2> QED
    BY <2>4, <2>5, <2>7, <2>8, VisitStep
<1>8. CASE CountActive(c)
  BY <1>8, <1>a, <1>b DEF CountActive
<1>9. CASE ReadRuns(c)
  <2> DEFINE m(seen) == [NoVisit EXCEPT !.op = k.op, !.step = "batches", !.seen = seen]
  <2>1. PICK seen : visit' = [visit EXCEPT ![c] = NoVisit] \/ visit' = [visit EXCEPT ![c] = m(seen)]
    BY <1>9 DEF ReadRuns
  <2>2. VisitShape(m(seen)) /\ m(seen).step = "batches"
    BY NoVisitShape DEF VisitShape
  <2> HIDE DEF m
  <2> QED
    BY <1>9, <1>a, <2>1, <2>2, VisitOnly DEF ReadRuns
<1>10. CASE ReadBatches(c)
  <2>1. PICK n, p : visit' = [visit EXCEPT ![c].step = "look", ![c].batches = n, ![c].planned = p]
    BY <1>10 DEF ReadBatches
  <2> DEFINE m == [k EXCEPT !.step = "look", !.batches = n, !.planned = p]
  <2>2. visit' = [visit EXCEPT ![c] = m]
    BY <1>0, <2>1
  <2>3. VisitShape(m) /\ m.step = "look"
    BY <1>0 DEF VisitShape
  <2> HIDE DEF m
  <2> QED
    BY <1>10, <2>2, <2>3, VisitOnly DEF ReadBatches
<1>11. CASE LookUp(c)
  BY <1>11, <1>a, <1>b DEF LookUp
<1>12. CASE CreateSnapshot(c)
  BY <1>12, <1>a, <1>b DEF CreateSnapshot
<1>13. CASE AnswerError(c)
  BY <1>13, <1>a DEF AnswerError
<1> QED
  BY <1>1, <1>2, <1>3, <1>4, <1>5, <1>6, <1>7, <1>8, <1>9, <1>10, <1>11, <1>12, <1>13 DEF GetStep
\* A batch and the runs that it adds.
LEMMA ReserveBatchSound ==
  ASSUME TestsInv, NEW c \in Visits, ReserveBatch(c)
  PROVE  TestsInv'
<1> DEFINE k == visit[c]
<1> USE DEF VisitAt, VisitGoto
<1>0. VisitSound(c) /\ VisitShape(k) /\ c \in DOMAIN visit /\ TestsTyped /\ batch \in Seq(BatchRow)
  BY DEF TestsInv, VisitSound, TestsTyped
<1>1. CASE BatchWith(k.manifest) # {}
  <2>1. PICK o \in BatchWith(k.manifest) : visit' = [visit EXCEPT ![c].step = "mark", ![c].at = o]
    BY <1>1 DEF ReserveBatch
  <2> DEFINE m == [k EXCEPT !.step = "mark", !.at = o]
  <2>2. visit' = [visit EXCEPT ![c] = m] /\ o \in DOMAIN batch
    BY <1>0, <2>1 DEF BatchWith
  <2>3. VisitShape(m) /\ m.step = "mark" /\ m.at = o
    BY <1>0 DEF VisitShape
  <2> HIDE DEF m
  <2> QED
    BY <1>1, <2>2, <2>3, VisitOnly DEF ReserveBatch
<1>2. CASE BatchWith(k.manifest) = {}
  <2>0. PICK b : b = Len(batch) + 1
    OBVIOUS
  <2> DEFINE new == {d \in k.manifest : RunIs(d, "none")}
             row == NewBatch(k)
             step == IF new = {} THEN "mark" ELSE "task"
             m == [k EXCEPT !.step = step, !.at = b, !.new = new]
  <2>1. /\ batch' = Append(batch, row) /\ workItem' = workItem /\ exec' = exec
        /\ testRun' = [d \in Datasets |-> IF d \in new THEN [testRun[d] EXCEPT !.status = "pending", !.batch = b]
                                         ELSE testRun[d]]
        /\ visit' = [visit EXCEPT ![c] = m]
    BY <1>0, <1>2, <2>0 DEF ReserveBatch
  <2>2. k.manifest \subseteq Datasets /\ k.hits \in Nat /\ k.hits <= Cardinality(WithResult(k.manifest))
    BY <1>0, <1>2 DEF ReserveBatch, VisitSound
  <2>3. row \in BatchRow /\ row.manifest = k.manifest /\ row.planned = Cardinality(k.manifest) /\ row.hits = k.hits
    <3> DEFINE n == Cardinality(k.manifest)
    <3>1. n \in Nat
      BY <2>2, CountsGrow
    <3>2. row = [manifest |-> k.manifest, linked |-> FALSE, cancel |-> FALSE, status |-> "running",
                 planned |-> n, hits |-> k.hits]
      BY DEF NewBatch
    <3> HIDE DEF n, row
    <3>3. row \in BatchRow /\ row.manifest = k.manifest /\ row.planned = n /\ row.hits = k.hits
      BY <2>2, <3>1, <3>2 DEF BatchRow
    <3> QED
      BY <3>3 DEF n
  <2> HIDE DEF row
  <2>4. /\ batch' \in Seq(BatchRow) /\ b \in Nat \ {0} /\ DOMAIN batch = 1 .. Len(batch)
        /\ DOMAIN batch' = 1 .. b /\ (\A i \in DOMAIN batch : batch'[i] = batch[i]) /\ batch'[b] = row
    <3>1. batch' = Append(batch, row) /\ row \in BatchRow /\ batch \in Seq(BatchRow)
      BY <1>0, <2>1, <2>3
    <3> HIDE DEF m, step, new
    <3>2. /\ batch' \in Seq(BatchRow) /\ DOMAIN batch = 1 .. Len(batch)
          /\ DOMAIN batch' = 1 .. Len(batch) + 1 /\ (\A i \in DOMAIN batch : batch'[i] = batch[i])
          /\ batch'[Len(batch) + 1] = row /\ Len(batch) \in Nat
      BY <3>1, SeqAppend
    <3> QED
      BY <2>0, <3>2
  <2>5. DOMAIN batch \subseteq DOMAIN batch' /\ b \in DOMAIN batch' /\ b \notin DOMAIN batch
        /\ \A i \in DOMAIN batch' : i \in DOMAIN batch \/ i = b
    <3>1. Len(batch) \in Nat
      BY <1>0
    <3> HIDE DEF m
    <3> QED
      BY <2>0, <2>4, <3>1
  <2>6. \A d \in Datasets : testRun[d] \in RunRow /\ RunSound(d)
    BY <1>0 DEF TestsTyped, TestsInv
  <2>7. ASSUME NEW d \in Datasets
        PROVE  /\ testRun'[d] \in RunRow /\ testRun'[d].result = testRun[d].result
               /\ d \in new => testRun'[d].status = "pending" /\ testRun'[d].batch = b
               /\ d \notin new => testRun'[d] = testRun[d]
    BY <2>1, <2>4, <2>6 DEF RunRow
  <2>8. new \subseteq Datasets /\ \A d \in new : testRun[d].status = "none"
    BY <2>2 DEF RunIs
  <2>9. TestsGrow
    <3>1. ASSUME NEW d \in Datasets, ~RunIs(d, "none")
          PROVE  testRun'[d].status # "none" /\ testRun'[d].batch = testRun[d].batch
      BY <2>7, <2>8, <3>1 DEF RunIs
    <3> HIDE DEF new, m
    <3> QED
      BY <2>4, <2>5, <2>7, <3>1 DEF TestsGrow
  <2>10. VisitShape(m) /\ m.step = step /\ m.at = b /\ m.new = new
    <3> HIDE DEF step, new
    <3> QED
      BY <1>0 DEF VisitShape
  <2> HIDE DEF m
  <2>11. visit'[c] = m /\ DOMAIN visit' = Visits /\ \A e \in Visits \ {c} : visit'[e] = visit[e]
    BY <1>0, <2>1 DEF TestsTyped
  <2>12. ASSUME NEW d \in Datasets PROVE RunSound(d)'
    <3>1. CASE d \in new
      <4>1. workItem[d] = "none" /\ exec[d] = "idle" /\ ~testRun[d].result
        BY <2>6, <2>8, <3>1 DEF RunSound, RunIs
      <4>2. d \in batch'[b].manifest
        BY <2>3, <2>4, <3>1
      <4> HIDE DEF new
      <4> QED
        BY <2>1, <2>5, <2>7, <3>1, <4>1, <4>2 DEF RunSound, RunIs
    <3>2. CASE d \notin new
      <4>1. testRun'[d] = testRun[d] /\ RunSound(d)
        BY <2>6, <2>7, <3>2
      <4> HIDE DEF new
      <4> QED
        BY <2>1, <2>4, <2>5, <4>1 DEF RunSound, RunIs
    <3> QED
      BY <3>1, <3>2
  <2>13. BatchSound(b)'
    <3>1. WithResult(k.manifest) \subseteq FromOthers(b)'
      <4> SUFFICES ASSUME NEW d \in WithResult(k.manifest) PROVE d \in FromOthers(b)'
        OBVIOUS
      <4>1. d \in k.manifest /\ d \in Datasets /\ testRun[d].result
        BY <2>2 DEF WithResult
      <4>2. testRun[d].batch \in DOMAIN batch /\ d \notin new
        BY <2>6, <2>8, <4>1 DEF RunSound, RunIs
      <4>3. testRun'[d].result /\ testRun'[d].batch # b /\ batch'[b].manifest = k.manifest
        BY <2>3, <2>4, <2>5, <2>7, <4>1, <4>2
      <4> QED
        BY <4>1, <4>3 DEF FromOthers, WithResult
    <3>2. FromOthers(b)' \subseteq Datasets
      BY <2>2, <2>3, <2>4 DEF FromOthers, WithResult
    <3>3. /\ Cardinality(WithResult(k.manifest)) \in Nat /\ Cardinality(FromOthers(b)') \in Nat
          /\ Cardinality(WithResult(k.manifest)) <= Cardinality(FromOthers(b)')
      BY <3>1, <3>2, CountsGrow
    <3> QED
      BY <2>2, <2>3, <2>4, <3>3 DEF BatchSound
  <2>14. \A i \in DOMAIN batch' : BatchSound(i)'
    BY <2>5, <2>9, <2>13, BatchesStaySound
  <2>15. VisitSound(c)'
    <3>1. \A d \in new : workItem'[d] = "none" /\ testRun'[d].status # "none"
      BY <2>1, <2>6, <2>7, <2>8 DEF RunSound, RunIs
    <3> HIDE DEF new
    <3> QED
      BY <2>5, <2>8, <2>10, <2>11, <3>1 DEF VisitSound, VisitShape, RunIs
  <2>16. ASSUME NEW e \in Visits \ {c} PROVE VisitSound(e)'
    <3>1. VisitAt(e, "task") => \A d \in visit[e].new : workItem'[d] = "none"
      BY <2>1 DEF TestsInv, VisitSound
    <3> QED
      BY <2>9, <2>11, <3>1, VisitStaysSound
  <2>17. ReservedOnce'
    <3>1. ASSUME NEW e \in Visits \ {c}, VisitAt(e, "task") PROVE visit[e].new \cap new = {}
      <4>1. \A d \in visit[e].new : ~RunIs(d, "none")
        BY <3>1 DEF TestsInv, VisitSound
      <4> QED
        BY <2>8, <4>1 DEF RunIs
    <3> HIDE DEF new, step
    <3> SUFFICES ASSUME NEW a \in Visits, NEW e \in Visits, visit'[a].step = "task", visit'[e].step = "task", a # e
                 PROVE  visit'[a].new \cap visit'[e].new = {}
      BY DEF ReservedOnce
    <3>2. CASE a = c
      BY <2>10, <2>11, <3>1, <3>2
    <3>3. CASE e = c
      BY <2>10, <2>11, <3>1, <3>3
    <3>4. CASE a # c /\ e # c
      BY <2>11, <3>4 DEF TestsInv, ReservedOnce
    <3> QED
      BY <3>2, <3>3, <3>4
  <2>18. TestsTyped'
    <3>1. testRun' \in [Datasets -> RunRow]
      BY <2>1, <2>7
    <3> QED
      BY <1>0, <2>1, <2>4, <2>11, <3>1 DEF TestsTyped
  <2> QED
    BY <2>12, <2>14, <2>15, <2>16, <2>17, <2>18 DEF TestsInv
<1> QED
  BY <1>1, <1>2

\* The items of a batch are created.
LEMMA CreateTaskSound ==
  ASSUME TestsInv, NEW c \in Visits, CreateTask(c)
  PROVE  TestsInv'
<1> DEFINE k == visit[c]
           m == [k EXCEPT !.step = "link"]
<1> USE DEF VisitAt, VisitGoto, VisitEnds
<1>0. VisitSound(c) /\ VisitShape(k) /\ c \in DOMAIN visit /\ TestsTyped /\ testRun' = testRun /\ batch' = batch
      /\ exec' = exec /\ k.step = "task"
  BY DEF TestsInv, VisitSound, TestsTyped, CreateTask
<1>1. CASE workItem' = workItem /\ visit' = [visit EXCEPT ![c] = NoVisit]
  BY <1>0, <1>1, NoVisitShape, VisitOnly
<1>2. CASE workItem' = [d \in Datasets |-> IF d \in k.new THEN "pending" ELSE workItem[d]]
           /\ visit' = [visit EXCEPT ![c] = m]
  <2>1. visit'[c] = m /\ DOMAIN visit' = Visits /\ \A e \in Visits \ {c} : visit'[e] = visit[e]
    BY <1>0, <1>2 DEF TestsTyped
  <2>2. VisitShape(m) /\ m.step = "link" /\ m.at = k.at
    BY <1>0 DEF VisitShape
  <2> HIDE DEF m
  <2>3. k.at \in DOMAIN batch /\ \A d \in k.new : workItem[d] = "none" /\ ~RunIs(d, "none")
    BY <1>0 DEF VisitSound
  <2>4. VisitSound(c)'
    BY <1>0, <2>1, <2>2, <2>3 DEF VisitSound, VisitShape
  <2>5. TestsGrow /\ batch' \in Seq(BatchRow) /\ DOMAIN batch' = DOMAIN batch
    BY <1>0, NothingChanges
  <2>6. ASSUME NEW e \in Visits \ {c} PROVE VisitSound(e)'
    <3>1. ASSUME visit[e].step = "task", NEW d \in visit[e].new PROVE workItem'[d] = "none"
      <4>1. d \in Datasets /\ workItem[d] = "none"
        BY <3>1 DEF TestsInv, VisitSound
      <4>2. d \notin k.new
        BY <1>0, <3>1 DEF TestsInv, ReservedOnce
      <4> QED
        BY <1>2, <4>1, <4>2
    <3> QED
      BY <2>1, <2>5, <3>1, VisitStaysSound
  <2>7. ASSUME NEW d \in Datasets PROVE RunSound(d)'
    <3>1. RunSound(d) /\ workItem'[d] = IF d \in k.new THEN "pending" ELSE workItem[d]
      BY <1>2 DEF TestsInv
    <3>2. CASE d \in k.new
      BY <1>0, <2>3, <3>1, <3>2 DEF RunSound, RunIs
    <3>3. CASE d \notin k.new
      BY <1>0, <3>1, <3>3 DEF RunSound, RunIs
    <3> QED
      BY <3>2, <3>3
  <2>8. ReservedOnce'
    BY <2>1, <2>2 DEF TestsInv, ReservedOnce
  <2>9. TestsTyped'
    BY <1>0, <1>2, <2>1 DEF TestsTyped
  <2> QED
    BY <1>0, <2>4, <2>5, <2>6, <2>7, <2>8, <2>9, BatchesStaySound DEF TestsInv
<1> QED
  BY <1>0, <1>1, <1>2 DEF CreateTask

\* Items are worked on: every visit goes on, or ends with the server.
LEMMA ItemsStep ==
  ASSUME TestsInv, TestsGrow, testRun' \in [Datasets -> RunRow],
         workItem' \in [Datasets -> {"none", "pending", "running", "completed", "failed", "cancelled"}],
         exec' \in [Datasets -> {"idle", "backtest", "save", "saved", "failing"}],
         batch' \in Seq(BatchRow), DOMAIN batch' = DOMAIN batch,
         visit' = visit \/ visit' = [c \in Visits |-> NoVisit],
         \A d \in Datasets : RunSound(d)' /\ (workItem[d] = "none" => workItem'[d] = "none")
  PROVE  TestsInv'
<1>1. ASSUME NEW c \in Visits PROVE VisitSound(c)'
  <2>1. CASE visit' = visit
    <3>1. VisitAt(c, "task") => \A d \in visit[c].new : workItem'[d] = "none"
      BY DEF TestsInv, VisitSound, VisitAt
    <3> QED
      BY <2>1, <3>1, VisitStaysSound
  <2>2. CASE visit' = [e \in Visits |-> NoVisit]
    <3>1. visit'[c] = NoVisit
      BY <2>2
    <3> QED
      BY <3>1, NoVisitShape DEF VisitSound, VisitShape
  <2> QED
    BY <2>1, <2>2
<1>2. ReservedOnce'
  BY NoVisitShape DEF TestsInv, ReservedOnce, VisitAt
<1>3. TestsTyped'
  BY DEF TestsInv, TestsTyped
<1> QED
  BY <1>1, <1>2, <1>3, BatchesStaySound DEF TestsInv

\* The execution of an item moves on, with the row of its run.
LEMMA RunStep ==
  ASSUME TestsInv, NEW d \in Datasets, workItem[d] # "none", batch' = batch, visit' = visit,
         NEW r \in RunRow, testRun' = [testRun EXCEPT ![d] = r],
         r.batch = testRun[d].batch, r.status # "none", testRun[d].result => r.result, r.status = "completed" => r.result,
         NEW i \in {"pending", "running", "completed", "failed", "cancelled"}, workItem' = [workItem EXCEPT ![d] = i],
         NEW x \in {"idle", "backtest", "save", "saved", "failing"}, exec' = [exec EXCEPT ![d] = x],
         x # "idle" => i = "running", x = "saved" \/ i = "completed" => r.status = "completed"
  PROVE  TestsInv'
<1>1. TestsTyped /\ (\A e \in Datasets : RunSound(e)) /\ ~RunIs(d, "none")
  BY DEF TestsInv, RunSound
<1>2. testRun'[d] = r /\ workItem'[d] = i /\ exec'[d] = x
  BY <1>1 DEF TestsTyped
<1>3. \A e \in Datasets \ {d} : testRun'[e] = testRun[e] /\ workItem'[e] = workItem[e] /\ exec'[e] = exec[e]
  BY <1>1 DEF TestsTyped
<1>4. TestsGrow
  BY <1>2, <1>3 DEF TestsGrow, RunIs
<1>5. RunSound(d)'
  BY <1>1, <1>2 DEF RunSound, RunIs
<1>6. ASSUME NEW e \in Datasets \ {d} PROVE RunSound(e)' /\ (workItem[e] = "none" => workItem'[e] = "none")
  BY <1>1, <1>3 DEF RunSound, RunIs
<1>7. \A e \in Datasets : RunSound(e)' /\ (workItem[e] = "none" => workItem'[e] = "none")
  BY <1>5, <1>6
<1>8. /\ testRun' \in [Datasets -> RunRow] /\ batch' \in Seq(BatchRow)
      /\ workItem' \in [Datasets -> {"none", "pending", "running", "completed", "failed", "cancelled"}]
      /\ exec' \in [Datasets -> {"idle", "backtest", "save", "saved", "failing"}]
  BY <1>1 DEF TestsTyped
<1> QED
  BY <1>4, <1>7, <1>8, ItemsStep

LEMMA RunRows ==
  ASSUME TestsTyped, NEW d \in Datasets, NEW s \in {"failed", "cancelled", "completed"}
  PROVE  /\ testRun[d] \in RunRow
         /\ [testRun[d] EXCEPT !.status = s] \in RunRow /\ [testRun[d] EXCEPT !.status = s].status = s
         /\ [testRun[d] EXCEPT !.status = s].batch = testRun[d].batch
         /\ [testRun[d] EXCEPT !.status = s].result = testRun[d].result
BY DEF TestsTyped, RunRow

\* What RunExecutor does with the item of a dataset.
LEMMA RunExecutionSound ==
  ASSUME TestsInv, NEW d \in Datasets, RunExecution(d)
  PROVE  TestsInv'
<1> DEFINE row == testRun[d]
<1>0. /\ TestsTyped /\ RunSound(d) /\ row \in RunRow /\ row.status \in {"none", "pending", "completed", "failed", "cancelled"}
      /\ testRun = [testRun EXCEPT ![d] = row] /\ workItem = [workItem EXCEPT ![d] = workItem[d]]
      /\ exec = [exec EXCEPT ![d] = exec[d]]
      /\ exec[d] \in {"idle", "backtest", "save", "saved", "failing"}
  BY DEF TestsInv, TestsTyped, RunRow
<1>1. CASE ClaimRun(d)
  <2>1. PICK x \in {"backtest", "failing"} : exec' = [exec EXCEPT ![d] = x]
    BY <1>1 DEF ClaimRun
  <2>2. workItem[d] = "pending" /\ workItem' = [workItem EXCEPT ![d] = "running"] /\ testRun' = testRun
        /\ batch' = batch /\ visit' = visit
    BY <1>1 DEF ClaimRun
  <2> QED
    BY <1>0, <2>1, <2>2, RunStep DEF RunSound, RunIs
<1>2. CASE Backtest(d)
  <2>1. workItem[d] = "running" /\ workItem' = workItem /\ batch' = batch /\ visit' = visit /\ exec[d] = "backtest"
    BY <1>0, <1>2 DEF Backtest, RunSound
  <2>2. CASE testRun' = testRun /\ exec' = [exec EXCEPT ![d] = "save"]
    BY <1>0, <2>1, <2>2, RunStep DEF RunSound, RunIs
  <2>3. CASE testRun' = testRun /\ exec' = [exec EXCEPT ![d] = "failing"]
    BY <1>0, <2>1, <2>3, RunStep DEF RunSound, RunIs
  <2>4. ASSUME NEW s \in {"failed", "cancelled"}, testRun' = [testRun EXCEPT ![d].status = s],
               exec' = [exec EXCEPT ![d] = "failing"]
        PROVE  TestsInv'
    <3> DEFINE r == [row EXCEPT !.status = s]
    <3>1. r \in RunRow /\ r.status = s /\ r.batch = row.batch /\ r.result = row.result
      BY <1>0, RunRows
    <3>2. testRun' = [testRun EXCEPT ![d] = r]
      BY <1>0, <2>4 DEF TestsTyped
    <3> HIDE DEF r
    <3> QED
      BY <1>0, <2>1, <2>4, <3>1, <3>2, RunStep
  <2> QED
    BY <1>2, <2>2, <2>3, <2>4 DEF Backtest
<1>3. CASE SaveRun(d)
  <2>1. workItem[d] = "running" /\ workItem' = workItem /\ batch' = batch /\ visit' = visit /\ exec[d] = "save"
    BY <1>0, <1>3 DEF SaveRun, RunSound
  <2>2. CASE testRun' = testRun /\ exec' = [exec EXCEPT ![d] = "failing"]
    BY <1>0, <2>1, <2>2, RunStep DEF RunSound, RunIs
  <2>3. CASE testRun' = [testRun EXCEPT ![d].status = "completed", ![d].result = TRUE]
             /\ exec' = [exec EXCEPT ![d] = "saved"]
    <3> DEFINE r == [row EXCEPT !.status = "completed", !.result = TRUE]
    <3>1. r \in RunRow /\ r.status = "completed" /\ r.batch = row.batch /\ r.result
      BY <1>0 DEF RunRow
    <3>2. testRun' = [testRun EXCEPT ![d] = r]
      BY <1>0, <2>3 DEF TestsTyped
    <3> HIDE DEF r
    <3> QED
      BY ZenonT(60), <1>0, <2>1, <2>3, <3>1, <3>2, RunStep
  <2> QED
    BY <1>3, <2>2, <2>3 DEF SaveRun
<1>4. CASE EndItem(d)
  <2>1. workItem[d] = "running" /\ testRun' = testRun /\ batch' = batch /\ visit' = visit
        /\ exec' = [exec EXCEPT ![d] = "idle"] /\ workItem' = [workItem EXCEPT ![d] = ItemVerdict(d)]
    BY <1>0, <1>4 DEF EndItem, RunSound
  <2>2. ItemVerdict(d) \in {"completed", "cancelled", "failed"} /\ (ItemVerdict(d) = "completed" => exec[d] = "saved")
    BY DEF ItemVerdict
  <2> QED
    BY <1>0, <2>1, <2>2, RunStep DEF RunSound, RunIs
<1> QED
  BY <1>1, <1>2, <1>3, <1>4 DEF RunExecution

\* A user cancels the task of a batch or tries it again.
LEMMA BatchTaskSound ==
  ASSUME TestsInv, NEW b \in DOMAIN batch, CancelBatch(b) \/ RetryBatch(b)
  PROVE  TestsInv'
<1>1. PICK flag \in BOOLEAN : batch' = [batch EXCEPT ![b].cancel = flag]
  BY DEF CancelBatch, RetryBatch
<1> DEFINE r == [batch[b] EXCEPT !.cancel = flag]
<1>2. batch[b] \in BatchRow /\ TestsTyped
  BY BatchRows DEF TestsInv
<1>3. r \in BatchRow /\ r.manifest = batch[b].manifest /\ r.planned = batch[b].planned /\ r.hits = batch[b].hits
  BY <1>2 DEF BatchRow
<1>4. batch' = [batch EXCEPT ![b] = r] /\ testRun' = testRun /\ exec' = exec /\ visit' = visit
  BY <1>1, <1>2 DEF CancelBatch, RetryBatch, TestsTyped
<1> HIDE DEF r
<1>5. TestsGrow /\ batch' \in Seq(BatchRow) /\ DOMAIN batch' = DOMAIN batch
  BY <1>3, <1>4, BatchChanges
<1>6. ASSUME NEW d \in Datasets
      PROVE  \/ workItem'[d] = workItem[d]
             \/ workItem[d] = "pending" /\ workItem'[d] = "cancelled"
             \/ workItem[d] \in {"failed", "cancelled"} /\ workItem'[d] = "pending"
  BY DEF CancelBatch, RetryBatch
<1>7. workItem' \in [Datasets -> {"none", "pending", "running", "completed", "failed", "cancelled"}]
  <2>1. workItem' = [d \in Datasets |-> workItem'[d]]
    BY DEF CancelBatch, RetryBatch
  <2> QED
    BY <1>2, <1>6, <2>1 DEF TestsTyped
<1>8. ASSUME NEW d \in Datasets PROVE RunSound(d)' /\ (workItem[d] = "none" => workItem'[d] = "none")
  <2>1. RunSound(d)
    BY DEF TestsInv
  <2> QED
    BY <1>4, <1>5, <1>6, <2>1 DEF RunSound, RunIs, TestsGrow
<1> QED
  BY <1>2, <1>4, <1>5, <1>7, <1>8, ItemsStep DEF TestsTyped

\* The server stops.
LEMMA TestRestartSound ==
  ASSUME TestsInv, TestRestart
  PROVE  TestsInv'
<1>1. PICK noticed \in SUBSET {d \in Datasets : exec[d] = "backtest"} :
        testRun' = [d \in Datasets |->
                      IF d \in noticed THEN [testRun[d] EXCEPT !.status = "cancelled"] ELSE testRun[d]]
  BY DEF TestRestart
<1>2. /\ batch' = batch /\ exec' = [d \in Datasets |-> "idle"] /\ visit' = [c \in Visits |-> NoVisit]
      /\ workItem' = [d \in Datasets |-> IF workItem[d] # "running" THEN workItem[d]
                                         ELSE IF Cancelled(d) THEN "cancelled" ELSE "pending"]
  BY DEF TestRestart
<1>3. TestsTyped /\ \A d \in Datasets : RunSound(d)
  BY DEF TestsInv
<1>4. ASSUME NEW d \in Datasets
      PROVE  /\ testRun'[d] \in RunRow /\ testRun'[d].batch = testRun[d].batch
             /\ testRun'[d].result = testRun[d].result
             /\ testRun'[d] = testRun[d] \/ (exec[d] = "backtest" /\ testRun'[d].status = "cancelled")
  <2> DEFINE r == [testRun[d] EXCEPT !.status = "cancelled"]
  <2>1. testRun[d] \in RunRow /\ r \in RunRow /\ r.status = "cancelled" /\ r.batch = testRun[d].batch
        /\ r.result = testRun[d].result
    BY <1>3, RunRows
  <2>2. testRun'[d] = IF d \in noticed THEN r ELSE testRun[d]
    BY <1>1
  <2> HIDE DEF r
  <2>3. d \in noticed => exec[d] = "backtest"
    BY <1>1
  <2> QED
    BY <2>1, <2>2, <2>3
<1>5. TestsGrow
  BY <1>2, <1>4 DEF TestsGrow, RunIs
<1>6. ASSUME NEW d \in Datasets
      PROVE  /\ workItem'[d] = workItem[d] \/ (workItem[d] = "running" /\ workItem'[d] \in {"cancelled", "pending"})
             /\ exec'[d] = "idle"
  <2>1. exec'[d] = "idle" /\ workItem'[d] = IF workItem[d] # "running" THEN workItem[d]
                                           ELSE IF Cancelled(d) THEN "cancelled" ELSE "pending"
    BY <1>2
  <2>2. (IF Cancelled(d) THEN "cancelled" ELSE "pending") \in {"cancelled", "pending"}
    OBVIOUS
  <2> QED
    BY <2>1, <2>2
<1>7. ASSUME NEW d \in Datasets PROVE RunSound(d)' /\ (workItem[d] = "none" => workItem'[d] = "none")
  BY <1>2, <1>3, <1>4, <1>6 DEF RunSound, RunIs
<1>8. workItem' \in [Datasets -> {"none", "pending", "running", "completed", "failed", "cancelled"}]
  BY <1>2, <1>3 DEF TestsTyped
<1>9. testRun' \in [Datasets -> RunRow]
  BY <1>1, <1>4
<1> QED
  BY <1>2, <1>3, <1>5, <1>7, <1>8, <1>9, ItemsStep DEF TestsTyped

LEMMA TestsInitSound == TestInit => TestsInv
<1> SUFFICES ASSUME TestInit PROVE TestsInv
  OBVIOUS
<1> USE DEF TestInit
<1>1. TestsTyped
  <2>1. testRun \in [Datasets -> RunRow]
    BY DEF RunRow
  <2>2. batch \in Seq(BatchRow)
    OBVIOUS
  <2>3. DOMAIN visit = Visits
    OBVIOUS
  <2> QED
    BY <2>1, <2>2, <2>3 DEF TestsTyped
<1>2. ASSUME NEW d \in Datasets PROVE RunSound(d)
  BY DEF RunSound, RunIs
<1>3. \A b \in DOMAIN batch : BatchSound(b)
  OBVIOUS
<1>4. ASSUME NEW c \in Visits PROVE VisitSound(c) /\ visit[c].step = "idle"
  <2>1. visit[c] = NoVisit
    OBVIOUS
  <2> QED
    BY <2>1, NoVisitShape DEF VisitSound
<1>5. ReservedOnce
  BY <1>4 DEF ReservedOnce, VisitAt
<1> QED
  BY <1>1, <1>2, <1>3, <1>4, <1>5 DEF TestsInv

LEMMA TestsNextSound == TestsInv /\ [TestNext]_testVars => TestsInv'
<1> SUFFICES ASSUME TestsInv, [TestNext]_testVars PROVE TestsInv'
  OBVIOUS
<1>0. TestsTyped /\ \A d \in Datasets : RunSound(d)
  BY DEF TestsInv
<1>1. CASE UNCHANGED testVars \/ \E v \in Variants : VariantChanges(v)
  <2>1. testRun' = testRun /\ batch' = batch /\ workItem' = workItem /\ exec' = exec /\ visit' = visit
    BY <1>1 DEF testVars, VariantChanges
  <2>2. \A d \in Datasets : RunSound(d)'
    BY <1>0, <2>1 DEF RunSound, RunIs
  <2> QED
    BY <1>0, <2>1, <2>2, NothingChanges, ItemsStep DEF TestsTyped
<1>2. CASE TestRestart
  BY <1>2, TestRestartSound
<1>3. ASSUME NEW c \in Visits, GetTest(c) \/ StartStep(c) \/ GetStep(c) PROVE TestsInv'
  BY <1>3, VisitSteps, ReserveBatchSound, CreateTaskSound DEF StartStep
<1>4. ASSUME NEW c \in Visits, NEW m \in Manifests, Plan(c, m) PROVE TestsInv'
  BY <1>4, VisitSteps
<1>5. ASSUME NEW d \in Datasets, RunExecution(d) PROVE TestsInv'
  BY <1>5, RunExecutionSound
<1>6. ASSUME NEW b \in DOMAIN batch, CancelBatch(b) \/ RetryBatch(b) PROVE TestsInv'
  BY <1>6, BatchTaskSound
<1> QED
  BY <1>1, <1>2, <1>3, <1>4, <1>5, <1>6 DEF TestNext

LEMMA TestsInvariant == TestSpec => []TestsInv
BY TestsInitSound, TestsNextSound, PTL DEF TestSpec

\* An item that is completed has its run behind it, over every cancellation, retry
\* and restart.
THEOREM CompletedItemsHaveRuns == TestSpec => []RunBehindItem
<1>1. TestsInv => RunBehindItem
  BY DEF TestsInv, RunSound, RunBehindItem
<1> QED
  BY <1>1, TestsInvariant, PTL

\* The results of other batches and those of its own runs are different datasets of
\* a batch, so that when they are as many as it has planned they are all of them.
LEMMA EnoughIsAll ==
  ASSUME TestsInv, NEW c \in Visits, VisitAt(c, "write"), StatusFor(visit[c]) = "completed",
         NEW d \in batch[visit[c].at].manifest
  PROVE  testRun[d].result
<1> DEFINE k == visit[c]
           b == k.at
           own == OwnResults(b)
           others == FromOthers(b)
           all == batch[b].manifest
<1>1. /\ VisitSound(c) /\ TestsTyped /\ b \in DOMAIN batch /\ k.completed \in Nat
      /\ k.completed <= Cardinality(own)
  BY DEF TestsInv, VisitSound, VisitAt
<1>2. /\ all \subseteq Datasets /\ b \in Nat \ {0} /\ batch[b].hits \in Nat
      /\ batch[b].planned = Cardinality(all) /\ batch[b].hits <= Cardinality(others)
  BY <1>1, BatchRows DEF TestsInv, BatchSound
<1>3. k.completed + batch[b].hits >= batch[b].planned
  BY DEF StatusFor, CacheHits
<1>4. own \subseteq all
  <2> SUFFICES ASSUME NEW e \in own PROVE e \in all
    OBVIOUS
  <2>1. e \in Datasets /\ testRun[e].batch = b /\ RunSound(e)
    BY DEF OwnResults, RunsOf, TestsInv
  <2> QED
    BY <1>2, <2>1 DEF RunSound
<1>5. others \subseteq all /\ own \cap others = {}
  BY DEF FromOthers, WithResult, OwnResults, RunsOf
<1>6. IsFiniteSet(all) /\ IsFiniteSet(own) /\ IsFiniteSet(others)
  BY <1>2, <1>4, <1>5, DatasetsFinite, FS_Subset
<1>7. Cardinality(own \cup others) = Cardinality(own) + Cardinality(others)
  <2>1. Cardinality(own \cup others) = Cardinality(own) + Cardinality(others) - Cardinality(own \cap others)
    BY <1>6, FS_Union
  <2> HIDE DEF own, others
  <2>2. Cardinality(own \cap others) = 0
    BY <1>5, FS_EmptySet
  <2>3. Cardinality(own) \in Nat /\ Cardinality(others) \in Nat
    BY <1>6, FS_CardinalityType
  <2> QED
    BY <2>1, <2>2, <2>3
<1>8. own \cup others = all
  <2>1. own \cup others \subseteq all
    BY <1>4, <1>5
  <2> HIDE DEF own, others, all
  <2>2. Cardinality(own) \in Nat /\ Cardinality(others) \in Nat /\ Cardinality(all) \in Nat
    BY <1>6, FS_CardinalityType
  <2>3. Cardinality(own \cup others) >= Cardinality(all)
    BY <1>1, <1>2, <1>3, <1>7, <2>2
  <2>4. Cardinality(own \cup others) \in Nat /\ Cardinality(own \cup others) <= Cardinality(all)
    BY <1>6, <2>1, FS_Subset, FS_CardinalityType
  <2> QED
    BY <1>6, <2>1, <2>2, <2>3, <2>4, FS_Subset
<1> QED
  BY <1>8 DEF FromOthers, WithResult, OwnResults

\* A batch is marked completed only when there is a backtest for each of its
\* datasets, also when runs of other batches fail, are cancelled or tried again
\* between the plan, the count and the mark.
THEOREM SyncsTellTruth == TestSpec => SyncTellsTruth
<1>1. TestsInv => [\A c \in Visits : WriteBatch(c) /\ batch'[visit[c].at].status = "completed" =>
                     \A d \in batch[visit[c].at].manifest : testRun[d].result]_testVars
  <2> SUFFICES ASSUME TestsInv, NEW c \in Visits, WriteBatch(c), batch'[visit[c].at].status = "completed",
                      NEW d \in batch[visit[c].at].manifest
               PROVE  testRun[d].result
    OBVIOUS
  <2>1. VisitAt(c, "write") /\ visit[c].at \in DOMAIN batch
    BY DEF WriteBatch, TestsInv, VisitSound, VisitAt
  <2>2. batch[visit[c].at] \in BatchRow
    BY <2>1, BatchRows DEF TestsInv
  <2>3. StatusFor(visit[c]) = "completed"
    <3> DEFINE s == StatusFor(visit[c])
    <3>1. batch' = [batch EXCEPT ![visit[c].at].status = s]
      BY DEF WriteBatch
    <3> HIDE DEF s
    <3> QED
      BY <2>1, <2>2, <3>1 DEF BatchRow, s
  <2> QED
    BY <2>1, <2>3, EnoughIsAll
<1> QED
  BY <1>1, TestsInvariant, PTL DEF SyncTellsTruth
=============================================================================
