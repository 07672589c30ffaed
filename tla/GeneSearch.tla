----------------------------- MODULE GeneSearch -----------------------------
(***************************************************************************)
(* The genetic search of internal/saas/ga: RunEpoch, epoch after epoch,     *)
(* with the reservation of candidates that keeps a parameter set from being *)
(* evaluated twice by the same search: in one epoch, in the iterations of a *)
(* continuous task, in later tasks and after a crash.                       *)
(*                                                                          *)
(* A gene is its fingerprint, and its fitness is fixed.  Which genes are    *)
(* sampled, crossed over and mutated is free: a proposal that is known is   *)
(* replaced, and a search in which nothing new is left fails.               *)
(***************************************************************************)
EXTENDS Integers, FiniteSets

CONSTANTS
  Score,                   \* fingerprint -> fitness
  PopSize, EliteCount, MaxGenerations,
  EarlyStopMinDelta, EarlyStopPatience,
  MaxRamps,                \* ramps of the mutation until it reaches its limit
  MaxEpochs,               \* bound on the epochs run
  Limits                   \* bounds, one of which holds: [crash, fault]

\* No fitness is below FatalFitnessScore; engine.go keeps 8 elites and asks for
\* a gain of 0.001.
ASSUME SearchAssumption ==
  /\ \A g \in DOMAIN Score : Score[g] \in Nat
  /\ EliteCount \in Nat \ {0}
  /\ EarlyStopMinDelta \in Nat \ {0}

VARIABLES
  epoch,     \* the variables of RunEpoch
  observed,  \* gene_observations: the fingerprints of this search
  ctxDone,   \* the task's context is cancelled
  saved,     \* the records saved: gene and fitness, with the best of the epoch
  evaluated, \* gene -> how often it was evaluated
  epochs,    \* how many epochs have begun
  hit        \* how often crashes and faults happened

searchVars == <<epoch, observed, ctxDone, saved, evaluated, epochs, hit>>

Genes == DOMAIN Score
Unevaluated == -1
FatalFitnessScore == 0
Nobody == [gene |-> 0, fitness |-> FatalFitnessScore]
NoEpoch == [step |-> "idle", reserved |-> {}, population |-> {}, generation |-> 0, best |-> Nobody,
            patience |-> 0, ramps |-> 0, highest |-> FatalFitnessScore]

\* A population is a set of individuals; no gene occurs twice in it.
Individual(g, f) == [gene |-> g, fitness |-> f]
Fresh == {i \in epoch.population : i.fitness = Unevaluated}

Strike(h) == /\ hit' = [hit EXCEPT ![h] = @ + 1]
             /\ \E budget \in Limits : \A k \in DOMAIN hit : hit'[k] <= budget[k]

SearchInit == /\ epoch = NoEpoch
              /\ observed = {} /\ saved = {}
              /\ ctxDone = FALSE
              /\ evaluated = [g \in Genes |-> 0]
              /\ epochs = 0
              /\ hit = [h \in {"crash", "fault"} |-> 0]
-----------------------------------------------------------------------------
(* The start of an epoch *)

\* Faulty variant: only the reservations of this process count.
LoadedInMemory(kept) == kept

\* LoadReservedFingerprints, added to those the task has kept
Loaded(kept) == kept \cup observed

Proposals(n, known) == {p \in SUBSET (Genes \ known) : Cardinality(p) = n}

RunEpoch(kept) ==
  LET known == Loaded(kept) IN
  /\ epochs < MaxEpochs /\ epochs' = epochs + 1
  /\ \/ \E p \in Proposals(PopSize, known) :
          epoch' = [NoEpoch EXCEPT !.step = "reserve", !.reserved = known \cup p,
                                   !.population = {Individual(g, Unevaluated) : g \in p}]
     \/ Proposals(PopSize, known) = {} /\ epoch' = NoEpoch
  /\ UNCHANGED <<observed, saved, evaluated, hit>>

\* A task of its own.
NewTask == epoch.step = "idle" /\ RunEpoch({}) /\ ctxDone' = FALSE

\* The next iteration of a continuous task, which keeps its reservations.
NextIteration == epoch.step = "saved" /\ ~ctxDone /\ RunEpoch(epoch.reserved) /\ UNCHANGED ctxDone

TaskEnds == /\ epoch.step = "saved"
            /\ epoch' = NoEpoch
            /\ UNCHANGED <<observed, ctxDone, saved, evaluated, epochs, hit>>

Cancel == /\ epoch.step # "idle" /\ ~ctxDone
          /\ ctxDone' = TRUE
          /\ UNCHANGED <<epoch, observed, saved, evaluated, epochs, hit>>
-----------------------------------------------------------------------------
(* evaluatePopulation *)

Reserved == observed \cup {i.gene : i \in Fresh}

\* ReserveCandidates: one transaction, which fails with the context or the database.
ReserveCandidates ==
  /\ epoch.step = "reserve"
  /\ \/ /\ ~ctxDone
        /\ observed' = Reserved
        /\ epoch' = [epoch EXCEPT !.step = "evaluate"]
        /\ UNCHANGED hit
     \/ ctxDone /\ epoch' = NoEpoch /\ UNCHANGED <<observed, hit>>
     \/ Strike("fault") /\ epoch' = NoEpoch /\ UNCHANGED observed
  /\ UNCHANGED <<ctxDone, saved, evaluated, epochs>>

Leaders(population) == {i \in population : \A o \in population : o.fitness <= i.fitness}

\* A pool of workers and a join.  With a cancelled context an evaluation may
\* fail, and then counts as fatal.
Evaluate ==
  /\ epoch.step = "evaluate"
  /\ \E failing \in SUBSET Fresh :
       /\ failing # {} => ctxDone
       /\ LET rated == {Individual(i.gene, IF i \in failing THEN FatalFitnessScore ELSE Score[i.gene]) : i \in Fresh}
              population == (epoch.population \ Fresh) \cup rated
          IN \E leader \in Leaders(population) :
               epoch' = [epoch EXCEPT
                 !.step = "select", !.population = population,
                 !.best = IF @ = Nobody THEN leader ELSE @,
                 !.highest = IF leader.fitness > @ THEN leader.fitness ELSE @]
       /\ evaluated' = [g \in Genes |-> IF \E i \in Fresh \ failing : i.gene = g
                                        THEN evaluated[g] + 1 ELSE evaluated[g]]
  /\ UNCHANGED <<observed, ctxDone, saved, epochs, hit>>
-----------------------------------------------------------------------------
(* The loop over generations *)

Gain(leader) == leader.fitness - epoch.best.fitness

\* Check of the context, best so far, patience and ramp of the mutation.
Select ==
  /\ epoch.step = "select" /\ epoch.generation < MaxGenerations
  /\ IF ctxDone THEN epoch' = NoEpoch
     ELSE \E leader \in Leaders(epoch.population) :
            LET better == Gain(leader) >= EarlyStopMinDelta
                waited == IF better THEN 0 ELSE epoch.patience + 1
                limit == waited >= EarlyStopPatience
            IN epoch' = [epoch EXCEPT
                 !.best = IF better THEN leader ELSE @,
                 !.patience = IF limit /\ epoch.ramps < MaxRamps THEN 0 ELSE waited,
                 !.ramps = IF limit /\ @ < MaxRamps THEN @ + 1 ELSE @,
                 !.step = IF limit /\ epoch.ramps = MaxRamps THEN "finish" ELSE "breed"]
  /\ UNCHANGED <<observed, ctxDone, saved, evaluated, epochs, hit>>

\* Faulty variant: the population is renewed as a whole.
NoElites(population) == {{}}

\* The first EliteCount of the population, sorted by fitness.
Elites(population) ==
  {e \in SUBSET population : /\ Cardinality(e) = EliteCount
                             /\ \A i \in e, o \in population \ e : o.fitness <= i.fitness}

\* OnProgress has reported the best; nextGeneration keeps the elites and fills
\* up with new children.
NextGeneration ==
  /\ epoch.step = "breed"
  /\ \/ \E elite \in Elites(epoch.population) :
          \E p \in Proposals(PopSize - Cardinality(elite), epoch.reserved) :
            epoch' = [epoch EXCEPT
              !.step = "reserve", !.generation = @ + 1, !.reserved = @ \cup p,
              !.population = elite \cup {Individual(g, Unevaluated) : g \in p}]
     \/ /\ Cardinality(Genes \ epoch.reserved) < PopSize - EliteCount
        /\ epoch' = NoEpoch
  /\ UNCHANGED <<observed, ctxDone, saved, evaluated, epochs, hit>>

\* After the last generation, or an early stop.
Finish ==
  /\ \/ epoch.step = "finish"
     \/ epoch.step = "select" /\ epoch.generation = MaxGenerations
  /\ \E leader \in Leaders(epoch.population) :
       LET final == IF leader.fitness > epoch.best.fitness THEN leader ELSE epoch.best IN
       \/ /\ ~ctxDone
          /\ saved' = saved \cup {[gene |-> final.gene, fitness |-> final.fitness, highest |-> epoch.highest]}
          /\ epoch' = [epoch EXCEPT !.step = "saved"]
          /\ UNCHANGED hit
       \/ ctxDone /\ epoch' = NoEpoch /\ UNCHANGED <<saved, hit>>
       \/ Strike("fault") /\ epoch' = NoEpoch /\ UNCHANGED saved
  /\ UNCHANGED <<observed, ctxDone, evaluated, epochs>>

SearchCrash == /\ Strike("crash")
               /\ epoch' = NoEpoch /\ ctxDone' = FALSE
               /\ UNCHANGED <<observed, saved, evaluated, epochs>>

SearchNext == \/ NewTask \/ NextIteration \/ TaskEnds \/ Cancel
              \/ ReserveCandidates \/ Evaluate \/ Select \/ NextGeneration \/ Finish
              \/ SearchCrash

SearchSpec == SearchInit /\ [][SearchNext]_searchVars
-----------------------------------------------------------------------------
\* No candidate is evaluated twice by the same search, whatever was cancelled,
\* failed or crashed in between (comment of reserveNovelGene, engine.go:780).
EvaluatedOnce == \A g \in Genes : evaluated[g] <= 1

\* A finished epoch saves the fittest of all it has evaluated, although the best
\* it tracks moves only by gains of EarlyStopMinDelta and elites may tie.
BestIsSaved == \A r \in saved : r.fitness = r.highest /\ r.fitness = Score[r.gene]

\* What a cancelled task can save, the best that was reported, is less than
\* EarlyStopMinDelta below the fittest that was evaluated.
ReportIsClose ==
  epoch.step = "breed" => epoch.highest - epoch.best.fitness < EarlyStopMinDelta
=============================================================================
