----------------------------- MODULE MarketData -----------------------------
(***************************************************************************)
(* The price bars of one instrument (internal/saas/marketdata/service.go):  *)
(* Import, UpdateLatest and RepairMaintenance, statement by statement, for  *)
(* daily bars and weeks of WeekLength days.                                 *)
(*                                                                          *)
(* Time is counted in days: the days up to `closed` are over and the next   *)
(* one is trading.  A bar is the set of finished days whose prices it       *)
(* contains and the basis of its prices; "legacy" bars were stored before   *)
(* datasets had a label.                                                    *)
(***************************************************************************)
EXTENDS Integers, Sequences, FiniteSetsExt

CONSTANTS
  Updates, Cron,  \* requests and scheduled updates in progress; the scheduler's own
  Sources,      \* data sources to start from
  FirstClosed, LastClosed, \* the days that are over at first and at last
  WeekLength, Recent,      \* days in a week; days that an update of nothing asks for
  Page,         \* bars in one answer of Binance
  Spans,        \* <<first, last>> day that a user may import;
  MarketLimits  \* bounds on requests, crashes and faults

VARIABLES
  source,  \* data_source of the instrument
  closed,  \* the last day that is over
  kline,   \* interval -> opening day -> bar
  label,   \* interval -> its dataset_metadata
  update,  \* call -> its progress
  marketLimit, marketStruck \* the bounds of this behaviour and what was used of them

marketVars == <<source, closed, kline, label, update, marketLimit, marketStruck>>

Intervals == {"1d", "1w"}
Length == [i \in Intervals |-> IF i = "1d" THEN 1 ELSE WeekLength]
Opens(i) == {d \in 1..(LastClosed + 1) : (d - 1) % Length[i] = 0}
Period(i, o) == o..(o + Length[i] - 1)
Now == closed + 1

Bar(days, basis) == [days |-> days, basis |-> basis]
NoBars == [o \in {} |-> Bar({}, "current")]
Upsert(bars, rows) ==
  [o \in DOMAIN rows \cup DOMAIN bars |-> IF o \in DOMAIN rows THEN rows[o] ELSE bars[o]]

NoLabel == [adjustment |-> "none", full |-> FALSE]
Label(adjustment, full) == [adjustment |-> adjustment, full |-> full]

First(i) == IF DOMAIN kline[i] = {} THEN 0 ELSE Min(DOMAIN kline[i])
Latest(i) == IF DOMAIN kline[i] = {} THEN 0 ELSE Max(DOMAIN kline[i])

NoUpdate == [op |-> "none", step |-> "idle", todo |-> <<>>, interval |-> "1d", start |-> 0, end |-> 0,
             cursor |-> 0, existing |-> 0, rows |-> NoBars, fetched |-> FALSE, written |-> NoLabel]

\* Bars of the days that were over, stored before there were labels.
Legacy(i) == [o \in {o \in Opens(i) : o + Length[i] <= FirstClosed + 1} |-> Bar(Period(i, o), "legacy")]

MarketInit ==
  /\ source \in Sources
  /\ closed = FirstClosed
  /\ kline \in {[i \in Intervals |-> NoBars], [i \in Intervals |-> Legacy(i)]}
  /\ label = [i \in Intervals |-> NoLabel]
  /\ update = [c \in Updates |-> NoUpdate]
  /\ marketLimit \in MarketLimits
  /\ marketStruck = [h \in DOMAIN marketLimit |-> 0]

MarketStrike(h) == marketStruck[h] < marketLimit[h] /\ marketStruck' = [marketStruck EXCEPT ![h] = @ + 1]
UpdateAt(c, step) == update[c].step = step
UpdateGoto(c, step) == update' = [update EXCEPT ![c].step = step]

DayCloses == /\ closed < LastClosed /\ closed' = closed + 1
             /\ UNCHANGED <<source, kline, label, update, marketLimit, marketStruck>>
-----------------------------------------------------------------------------
(* What a source answers.                                                   *)

\* Yahoo's days are stored once they are over; its weeks are put together from
\* the days that were asked for.
YahooDays(s, e) == [d \in {d \in s..e : d <= closed} |-> Bar({d}, "current")]

YahooWeeks(s, e) ==
  LET days == {d \in s..e : d <= closed}
      weeks == {o \in Opens("1w") : Period("1w", o) \cap days # {} /\ o + WeekLength <= e}
  IN [o \in weeks |-> Bar(Period("1w", o) \cap days, "current")]

\* Binance sends its own bars, Page at a time and the one of today included.
BinancePage(i, s, e) ==
  LET opens == {o \in Opens(i) : o \in s..e}
      page == {o \in opens : Cardinality({p \in opens : p < o}) < Page}
  IN [o \in page |-> Bar({d \in Period(i, o) : d <= closed}, "current")]

Answer(i, s, e) ==
  CASE source = "binance" -> BinancePage(i, s, e)
    [] i = "1d" -> YahooDays(s, e)
    [] OTHER -> YahooWeeks(s, e)

\* Bars of a week put together from stored days.
AggregateRows(daily, now) ==
  LET weeks == {o \in Opens("1w") : Period("1w", o) \cap DOMAIN daily # {} /\ o + WeekLength <= now}
      of(o) == {daily[d] : d \in Period("1w", o) \cap DOMAIN daily}
  IN [o \in weeks |-> Bar(UNION {b.days : b \in of(o)},
                          IF \E b \in of(o) : b.basis = "legacy" THEN "legacy" ELSE "current")]
-----------------------------------------------------------------------------
(* Import, of which the other operations make use.                          *)

\* An import of bars from s to e begins.
ImportOf(k, i, s, e) == [k EXCEPT !.step = "bounds", !.interval = i, !.start = s, !.end = e,
                                 !.cursor = s, !.rows = NoBars, !.fetched = FALSE]

\* After an import, done or failed.
AfterImport(k) ==
  CASE k.op = "update" /\ Len(k.todo) > 0 ->
         [NoUpdate EXCEPT !.op = "update", !.step = "latest", !.todo = k.todo, !.end = k.end]
    [] k.op = "repair" -> [NoUpdate EXCEPT !.op = "repair", !.step = "load"]
    [] OTHER -> NoUpdate

IsFullCoverage(existing, start) == existing = 0 \/ start <= existing

\* The query's error is dropped: a dataset whose bounds cannot be read counts as
\* empty.
ReadBounds(c) ==
  /\ UpdateAt(c, "bounds")
  /\ \E existing \in {First(update[c].interval), 0} :
       /\ update' = [update EXCEPT ![c].step = "fetch", ![c].existing = existing]
       /\ IF existing = First(update[c].interval) THEN UNCHANGED marketStruck ELSE MarketStrike("fault")
  /\ UNCHANGED <<source, closed, kline, label, marketLimit>>

Fetch(c) ==
  /\ UpdateAt(c, "fetch")
  /\ LET k == update[c]
         rows == Answer(k.interval, k.cursor, k.end)
         empty == DOMAIN rows = {}
         step == CASE empty -> "recall"
                   [] source # "binance" /\ IsFullCoverage(k.existing, k.start) -> "delete"
                   [] OTHER -> "store"
     IN update' = [update EXCEPT ![c].step = step, ![c].rows = rows]
  /\ UNCHANGED <<source, closed, kline, label, marketLimit, marketStruck>>

DeleteKLines(c) ==
  /\ UpdateAt(c, "delete")
  /\ kline' = [kline EXCEPT ![update[c].interval] = NoBars]
  /\ UpdateGoto(c, "store")
  /\ UNCHANGED <<source, closed, label, marketLimit, marketStruck>>

\* Binance is asked for the next page while there may be one.
StoreKLines(c) ==
  /\ UpdateAt(c, "store")
  /\ LET k == update[c]
         next == Max(DOMAIN k.rows) + Length[k.interval]
         more == source = "binance" /\ Cardinality(DOMAIN k.rows) = Page /\ next <= k.end
     IN /\ kline' = [kline EXCEPT ![k.interval] = Upsert(@, k.rows)]
        /\ update' = [update EXCEPT ![c].step = IF more THEN "fetch" ELSE "recall", ![c].fetched = TRUE,
                                ![c].cursor = next]
  /\ UNCHANGED <<source, closed, label, marketLimit, marketStruck>>

\* Faulty variant: every import makes its label.
WrittenCurrent(old, full) == Label("current", full)

\* recordDatasetMetadata: what will be written; NoLabel if nothing.
Written(old, full) ==
  CASE full -> Label("current", TRUE)
    [] old = NoLabel -> Label("legacy", FALSE)
    [] old = Label("current", TRUE) -> old
    [] OTHER -> NoLabel

Recall(c) ==
  /\ UpdateAt(c, "recall")
  /\ LET k == update[c]
         written == IF k.fetched THEN Written(label[k.interval], IsFullCoverage(k.existing, k.start))
                    ELSE NoLabel
     IN update' = [update EXCEPT ![c] =
                   IF written = NoLabel THEN AfterImport(k)
                   ELSE [k EXCEPT !.step = "record", !.written = written,
                                  !.rows = NoBars, !.start = 0, !.cursor = 0]]
  /\ UNCHANGED <<source, closed, kline, label, marketLimit, marketStruck>>

Record(c) ==
  /\ UpdateAt(c, "record")
  /\ label' = [label EXCEPT ![update[c].interval] = update[c].written]
  /\ update' = [update EXCEPT ![c] = AfterImport(update[c])]
  /\ UNCHANGED <<source, closed, kline, marketLimit, marketStruck>>

\* A user asks for some days, over or not.
Import(c, i, s, e) ==
  /\ UpdateAt(c, "idle") /\ c # Cron /\ MarketStrike("request")
  /\ update' = [update EXCEPT ![c] = ImportOf([NoUpdate EXCEPT !.op = "import"], i, s, e)]
  /\ UNCHANGED <<source, closed, kline, label, marketLimit>>
-----------------------------------------------------------------------------
(* UpdateLatest.                                                            *)

\* The scheduler's update, or a user's.
StartUpdate(c) ==
  /\ UpdateAt(c, "idle")
  /\ IF c = Cron THEN UNCHANGED marketStruck ELSE MarketStrike("request")
  /\ update' = [update EXCEPT ![c] = [NoUpdate EXCEPT !.op = "update", !.step = "latest",
                                                !.todo = <<"1d", "1w">>, !.end = Now]]
  /\ UNCHANGED <<source, closed, kline, label, marketLimit>>

\* The latest bar there should be, at the time e; none before the first.
Expected(i, e) == e - ((e - 1) % Length[i]) - Length[i]
AlreadyFresh(i, latest, e) == latest > 0 /\ Expected(i, e) > 0 /\ latest >= Expected(i, e)

\* Faulty variant: an update begins one bar late.
UpdateStartLate(i, latest, e) ==
  IF latest > 0 THEN latest + 2 * Length[i] ELSE Max({1, e - Recent * Length[i]})

UpdateStart(i, latest, e) ==
  IF latest > 0 THEN latest + Length[i] ELSE Max({1, e - Recent * Length[i]})

\* Here, too, an error passes for an empty dataset.
ReadLatest(c) ==
  /\ UpdateAt(c, "latest")
  /\ \/ UNCHANGED marketStruck
     \/ MarketStrike("fault")
  /\ LET i == Head(update[c].todo)
         k == [update[c] EXCEPT !.todo = Tail(@)]
         latest == IF marketStruck' = marketStruck THEN Latest(i) ELSE 0
         start == UpdateStart(i, latest, k.end)
     IN update' = [update EXCEPT ![c] = IF AlreadyFresh(i, latest, k.end) \/ start > k.end
                                    THEN AfterImport(k) ELSE ImportOf(k, i, start, k.end)]
  /\ UNCHANGED <<source, closed, kline, label, marketLimit>>
-----------------------------------------------------------------------------
(* RepairMaintenance: the days are imported again if something is wrong     *)
(* with them, then the weeks are put together anew.                         *)

StartRepair(c) ==
  /\ UpdateAt(c, "idle") /\ c # Cron /\ MarketStrike("request")
  /\ update' = [update EXCEPT ![c] =
                   [NoUpdate EXCEPT !.op = "repair", !.step = "audit", !.written = label["1d"]]]
  /\ UNCHANGED <<source, closed, kline, label, marketLimit>>

\* Days that cannot be read count as none. The first day there is may be known
\* from an earlier look at the source.
Audit(c) ==
  /\ UpdateAt(c, "audit")
  /\ LET k == update[c]
         sound == First("1d") > 0 /\ k.written.adjustment = "current"
         kept == IF First("1d") > 0 THEN First("1d") ELSE UpdateStart("1d", 0, Now)
     IN \/ sound /\ UpdateGoto(c, "load") /\ UNCHANGED marketStruck
        \/ /\ IF sound THEN MarketStrike("fault") ELSE UNCHANGED marketStruck
           /\ \E start \in {1, kept} : update' = [update EXCEPT ![c] = ImportOf(k, "1d", start, Now)]
  /\ UNCHANGED <<source, closed, kline, label, marketLimit>>

Load(c) ==
  /\ UpdateAt(c, "load")
  /\ update' = [update EXCEPT ![c].step = "clear", ![c].rows = AggregateRows(kline["1d"], Now)]
  /\ UNCHANGED <<source, closed, kline, label, marketLimit, marketStruck>>

Clear(c) ==
  /\ UpdateAt(c, "clear")
  /\ kline' = [kline EXCEPT !["1w"] = NoBars]
  /\ update' = [update EXCEPT ![c] = IF DOMAIN @.rows = {} THEN NoUpdate ELSE [@ EXCEPT !.step = "fill"]]
  /\ UNCHANGED <<source, closed, label, marketLimit, marketStruck>>

Fill(c) ==
  /\ UpdateAt(c, "fill")
  /\ kline' = [kline EXCEPT !["1w"] = Upsert(@, update[c].rows)]
  /\ UpdateGoto(c, "mark")
  /\ UNCHANGED <<source, closed, label, marketLimit, marketStruck>>

\* The bounds it is told to have found are empty: the dataset is complete.
Mark(c) ==
  /\ UpdateAt(c, "mark")
  /\ label' = [label EXCEPT !["1w"] = Label("current", TRUE)]
  /\ update' = [update EXCEPT ![c] = NoUpdate]
  /\ UNCHANGED <<source, closed, kline, marketLimit, marketStruck>>
-----------------------------------------------------------------------------
\* A statement or a download fails: an update goes on with the next interval
\* and a repair with the weeks.
UpdateFails(c) ==
  /\ ~UpdateAt(c, "idle") /\ ~UpdateAt(c, "bounds") /\ ~UpdateAt(c, "latest")
  /\ MarketStrike("fault")
  /\ update' = [update EXCEPT ![c] = IF @.step \in {"fetch", "delete", "store", "recall", "record"}
                                 THEN AfterImport(@) ELSE NoUpdate]
  /\ UNCHANGED <<source, closed, kline, label, marketLimit>>

\* The server stops and starts again.
MarketCrash ==
  /\ MarketStrike("crash")
  /\ update' = [c \in Updates |-> NoUpdate]
  /\ UNCHANGED <<source, closed, kline, label, marketLimit>>

UpdateStep(c) ==
  \/ ReadBounds(c) \/ Fetch(c) \/ DeleteKLines(c) \/ StoreKLines(c) \/ Recall(c) \/ Record(c)
  \/ ReadLatest(c)
  \/ Audit(c) \/ Load(c) \/ Clear(c) \/ Fill(c) \/ Mark(c)

MarketNext ==
  \/ DayCloses \/ MarketCrash
  \/ \E c \in Updates : UpdateStep(c) \/ StartUpdate(c) \/ StartRepair(c) \/ UpdateFails(c)
  \/ \E c \in Updates, i \in Intervals, span \in Spans : Import(c, i, span[1], span[2])

MarketFairness == (\A c \in Updates : WF_marketVars(UpdateStep(c))) /\ WF_marketVars(StartUpdate(Cron))

MarketSpec == MarketInit /\ [][MarketNext]_marketVars /\ MarketFairness
-----------------------------------------------------------------------------
Bars(i) == {kline[i][o] : o \in DOMAIN kline[i]}
Quiet == \A c \in Updates : UpdateAt(c, "idle")

\* Days that are labelled with Yahoo's adjusted prices contain no bar from
\* before the labels (priceAdjustmentText: only a complete import makes the
\* label), whatever imports, updates and repairs overlap or stop half-way.
LabelHonest ==
  source = "yahoo" /\ label["1d"].adjustment = "current" => \A b \in Bars("1d") : b.basis = "current"

\* The scheduler's updates bring days and weeks up to the last finished one
\* again and again, also after an import that was cut short between deleting
\* and storing (UpdateLatest).
CatchesUp == \A i \in Intervals : []<>(Latest(i) >= Expected(i, Now))

\* A dataset that an update would leave alone as fresh holds no unfinished bar
\* of a day that is over.
FreshIsFinal ==
  Quiet /\ AlreadyFresh("1d", Latest("1d"), Now) =>
    \A o \in DOMAIN kline["1d"] : o <= closed => kline["1d"][o].days = {o}

\* The same for weeks; a week is rebuilt, and labelled, after the days could not
\* be imported.
WeeksHonest ==
  source = "yahoo" /\ label["1w"].adjustment = "current" => \A b \in Bars("1w") : b.basis = "current"

\* Stored weeks that are over contain every day that they had.
WeeksWhole ==
  \A o \in DOMAIN kline["1w"] : o + WeekLength <= Now => kline["1w"][o].days = Period("1w", o)
=============================================================================
