------------------------------ MODULE MCStore ------------------------------
(***************************************************************************)
(* Small instances, for TLC, of three parts that keep rows: the archive of  *)
(* the database (module MCBackup), the recomposed versions of a market      *)
(* series and the tests on perturbed prices.  A behaviour is one of one of  *)
(* them; the others keep their initial state.                               *)
(***************************************************************************)
EXTENDS MCBackup, Recomposition, PerturbationTests

VARIABLE part \* the part of this behaviour

\* Two requests for one series, with and without an idempotency key of their own,
\* while the source changes, an archive is made or the server stops; or one
\* request of which the leases lapse.
NoSeries == [request |-> 0, change |-> 0, lapse |-> 0, retry |-> 0, archive |-> 0, crash |-> 0]
SomeSeries ==
  {[NoSeries EXCEPT !.request = 2, !.crash = 1], [NoSeries EXCEPT !.request = 2, !.change = 1],
   [NoSeries EXCEPT !.request = 2, !.archive = 1], [NoSeries EXCEPT !.request = 1, !.lapse = 2, !.retry = 1]}
TwoKeys == {[key |-> "default", name |-> "a"], [key |-> "k", name |-> "a"]}

\* A source and one variant, and one or two batches of them.
NoTest == [start |-> 0, change |-> 0, refuse |-> 0, fail |-> 0, cancel |-> 0, retry |-> 0, crash |-> 0]
SomeTests ==
  {[NoTest EXCEPT !.start = 2, !.fail = 1, !.retry = 1], [NoTest EXCEPT !.start = 2, !.refuse = 1],
   [NoTest EXCEPT !.start = 1, !.cancel = 1, !.retry = 1],
   [NoTest EXCEPT !.start = 1, !.cancel = 1, !.crash = 1],
   [NoTest EXCEPT !.start = 1, !.change = 1]}

StoreInit ==
  /\ part \in {"archive", "series", "tests"}
  /\ Init /\ SeriesInit /\ TestInit
  /\ (part = "archive" \/ scene = CHOOSE s \in Scenes : TRUE)
  /\ (part = "series" \/ (content = 1 /\ plan = {} /\ seriesLimit.crash = 1))
  /\ IF part = "tests" THEN ready = Variants \/ testLimit.change > 0
     ELSE ready = {} /\ testLimit.change > 0

ArchiveStep == part = "archive" /\ MCNext /\ UNCHANGED <<part, seriesVars, testVars>>

\* The second worker is there for executions whose lease has lapsed.
SeriesStep == /\ part = "series" /\ SeriesNext
              /\ (execution'[2].step # "idle" => seriesStruck'.lapse > 0)
              /\ UNCHANGED <<part, vars, testVars>>

TestsStep == part = "tests" /\ TestNext /\ UNCHANGED <<part, vars, seriesVars>>

StoreNext == ArchiveStep \/ SeriesStep \/ TestsStep

StoreSpec == StoreInit /\ [][StoreNext]_<<part, vars, seriesVars, testVars>>
=============================================================================
