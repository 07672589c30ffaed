----------------------------- MODULE MCServices -----------------------------
(***************************************************************************)
(* Small instances, for TLC, of four parts that share nothing but the       *)
(* database server: standardized backtests, evolution tasks, the price bars *)
(* of an instrument, and the counters of compute tasks.  A behaviour is one *)
(* of one of them; the others keep their initial state.                     *)
(***************************************************************************)
EXTENDS LifecycleCounts, Backtests, Evolution, MarketData, TLC

VARIABLE part \* the service of this behaviour

OneOf(crash, fault, rot, maintain) ==
  [crash |-> crash, fault |-> fault, rot |-> rot, maintain |-> maintain]

\* Two clients with one key, and one fault of one kind.
SameKey == <<"k", "k">>
AllKinds == <<{"create", "ensure"}, {"create", "annual"}>>
OneHazard == {OneOf(1, 0, 0, 0), OneOf(0, 1, 0, 0), OneOf(0, 0, 1, 0), OneOf(0, 0, 0, 1)}

\* A crash and a failing statement for the evolution tasks.
CrashAndFault == {[crash |-> 1, fault |-> 1]}

\* The updates of the scheduler and one request of a user, with a crash or a fault.
OneRequest == {[request |-> 1, crash |-> 1, fault |-> 0], [request |-> 1, crash |-> 0, fault |-> 1]}
SomeSpans == {<<1, 3>>, <<2, 4>>}

ServicesInit ==
  /\ part \in {"items", "stages", "backtests", "evolution", "bars"}
  /\ CountsInit /\ (part = "items" \/ (started /\ ~cancelRequested))
  /\ Init /\ EvolutionInit /\ MarketInit
  /\ IF part = "bars" THEN source = "binance" => kline["1d"] = NoBars
     ELSE source = "yahoo" /\ kline["1d"] # NoBars /\ marketLimit.crash = 1

BacktestStep == /\ part = "backtests" /\ Next
                /\ UNCHANGED <<part, countsVars, evolutionVars, marketVars>>

EvolutionStep == /\ part = "evolution" /\ EvolutionNext
                 /\ UNCHANGED <<part, countsVars, vars, marketVars>>

BarsStep == /\ part = "bars" /\ MarketNext
            /\ UNCHANGED <<part, countsVars, vars, evolutionVars>>

CountsStep == /\ (part = "items" /\ MoveItem) \/ (part = "stages" /\ MoveStage)
              /\ UNCHANGED <<part, vars, evolutionVars, marketVars>>

ServicesNext == BacktestStep \/ EvolutionStep \/ BarsStep \/ CountsStep

ServicesSpec ==
  /\ ServicesInit
  /\ [][ServicesNext]_<<part, countsVars, vars, evolutionVars, marketVars>>
  /\ \A c \in Calls : WF_vars(part = "backtests" /\ Work(c))
  /\ \A t \in Tasks : WF_evolutionVars(part = "evolution" /\ RunStep(t))
  /\ \A c \in Updates : WF_marketVars(part = "bars" /\ UpdateStep(c))
  /\ WF_marketVars(part = "bars" /\ StartUpdate(Cron))
=============================================================================
