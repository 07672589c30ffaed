----------------------------- MODULE Champions -----------------------------
(***************************************************************************)
(* Promotion of gene records, by the handler of the parameter library       *)
(* (internal/saas/api/handler_evolution.go) and by the research of          *)
(* parameters (internal/saas/parameterresearch/analysis_candidate.go), and  *)
(* the champion the handler caches.                                         *)
(*                                                                          *)
(* Transactions are READ COMMITTED: a statement sees what was committed     *)
(* when it began, waits for the rows that another transaction has changed   *)
(* or locked, and then looks at their committed version again.              *)
(***************************************************************************)
EXTENDS Naturals, FiniteSets

CONSTANTS
  Records, ScopeOf, \* gene records and the research scope of each
  Clients,          \* concurrent requests
  MaxRequests       \* bound on the requests

VARIABLES
  role,   \* record -> its committed role
  tx,     \* client -> its transaction or its lookup
  cache,  \* the record under championCacheKey, one key for the strategy
  answer, \* client -> the record that GetChampion returned last, and its scope
  asked,  \* how many requests were made
  clashed \* scopes in which two promotions have overlapped

rolesVars == <<role, tx, cache, answer, asked, clashed>>

NoRecord == "none"
NoTx == [step |-> "idle", kind |-> "none", record |-> NoRecord, targets |-> {}, locks |-> {}, retired |-> {},
         raised |-> FALSE]
NoAnswer == [record |-> NoRecord, scope |-> NoRecord]
Scopes == {ScopeOf[g] : g \in Records}
Champions(s) == {g \in Records : ScopeOf[g] = s /\ role[g] = "champion"}
Promoting(c) == tx[c].kind \in {"promote", "candidate"}
RowLocked(g, c) == \E d \in Clients \ {c} : g \in tx[d].locks

RolesInit == /\ role = [g \in Records |-> "challenger"]
             /\ tx = [c \in Clients |-> NoTx]
             /\ cache = NoRecord
             /\ answer = [c \in Clients |-> NoAnswer]
             /\ asked = 0
             /\ clashed = {}

Request(c) == tx[c].step = "idle" /\ asked < MaxRequests /\ asked' = asked + 1

\* Notes which promotions overlap.
Begins(c, g, kind, locks) ==
  /\ tx' = [tx EXCEPT ![c] = [NoTx EXCEPT !.step = "snapshot", !.kind = kind, !.record = g, !.locks = locks]]
  /\ clashed' = IF \E d \in Clients \ {c} : Promoting(d) /\ ScopeOf[tx[d].record] = ScopeOf[g]
                THEN clashed \cup {ScopeOf[g]} ELSE clashed
  /\ UNCHANGED <<role, cache, answer>>
-----------------------------------------------------------------------------
\* Promote reads a challenger or a retired record without locking it.
Promote(c, g) ==
  /\ Request(c)
  /\ role[g] \in {"challenger", "retired"}
  /\ Begins(c, g, "promote", {})

\* PromoteCandidate locks the record; it may be the champion.
PromoteCandidate(c, g) ==
  /\ Request(c)
  /\ ~RowLocked(g, c) /\ role[g] # "deleted"
  /\ Begins(c, g, "candidate", {g})

\* Faulty variant: champions of all scopes are retired.
TargetsAnywhere(c) ==
  {g \in Records : role[g] = "champion" /\ (tx[c].kind = "candidate" => g # tx[c].record)}

\* Faulty variant: the first champion that is found is retired.
TargetsFirst(c) == {CHOOSE g \in Records : TRUE} \cap Champions(ScopeOf[tx[c].record])

\* The rows that the UPDATE to "retired" finds.
Targets(c) ==
  {g \in Champions(ScopeOf[tx[c].record]) : tx[c].kind = "candidate" => g # tx[c].record}

Snapshot(c) ==
  /\ tx[c].step = "snapshot"
  /\ tx' = [tx EXCEPT ![c].step = "retire", ![c].targets = Targets(c)]
  /\ UNCHANGED <<role, cache, answer, asked, clashed>>

Retire(c) ==
  /\ tx[c].step = "retire"
  /\ \A g \in tx[c].targets : ~RowLocked(g, c)
  /\ LET still == {g \in tx[c].targets : role[g] = "champion"} IN
       tx' = [tx EXCEPT ![c].step = "raise", ![c].retired = still, ![c].locks = @ \cup still]
  /\ UNCHANGED <<role, cache, answer, asked, clashed>>

\* The update of the promoted record by its id; it may be gone.
Raise(c) ==
  LET g == tx[c].record IN
  /\ tx[c].step = "raise" /\ ~RowLocked(g, c)
  /\ tx' = [tx EXCEPT ![c].step = "commit", ![c].raised = role[g] # "deleted",
                      ![c].locks = @ \cup {g}]
  /\ UNCHANGED <<role, cache, answer, asked, clashed>>

Commit(c) ==
  /\ tx[c].step = "commit"
  /\ role' = [g \in Records |-> IF g = tx[c].record /\ tx[c].raised THEN "champion"
                                ELSE IF g \in tx[c].retired THEN "retired" ELSE role[g]]
  /\ tx' = [tx EXCEPT ![c] = IF @.kind = "promote" THEN [NoTx EXCEPT !.step = "forget"] ELSE NoTx]
  /\ UNCHANGED <<cache, answer, asked, clashed>>

\* An error, a closed connection, or a deadlock that the database resolves.
Rollback(c) ==
  /\ Promoting(c)
  /\ tx' = [tx EXCEPT ![c] = NoTx]
  /\ UNCHANGED <<role, cache, answer, asked, clashed>>

\* The handler deletes the cached champion after its transaction.
Forget(c) ==
  /\ tx[c].step = "forget"
  /\ cache' = NoRecord
  /\ tx' = [tx EXCEPT ![c] = NoTx]
  /\ UNCHANGED <<role, answer, asked, clashed>>

\* DeleteGenome, whose statement waits for locks; it forgets a champion.
DeleteGenome(c, g) ==
  /\ Request(c)
  /\ role[g] # "deleted" /\ ~RowLocked(g, c)
  /\ role' = [role EXCEPT ![g] = "deleted"]
  /\ tx' = [tx EXCEPT ![c] = IF role[g] = "champion" THEN [NoTx EXCEPT !.step = "forget"] ELSE NoTx]
  /\ UNCHANGED <<cache, answer, clashed>>

\* GetChampion answers from the cache, or reads a champion of the scope ...
GetChampion(c, s) ==
  /\ Request(c)
  /\ IF cache # NoRecord
     THEN answer' = [answer EXCEPT ![c] = [record |-> cache, scope |-> s]] /\ UNCHANGED tx
     ELSE \E g \in Champions(s) :
            /\ answer' = [answer EXCEPT ![c] = [record |-> g, scope |-> s]]
            /\ tx' = [tx EXCEPT ![c] = [NoTx EXCEPT !.step = "cache", !.record = g]]
  /\ UNCHANGED <<role, cache, clashed>>

\* ... and caches it for ten minutes.
CacheChampion(c) ==
  /\ tx[c].step = "cache"
  /\ cache' = tx[c].record
  /\ tx' = [tx EXCEPT ![c] = NoTx]
  /\ UNCHANGED <<role, answer, asked, clashed>>

Expire == /\ cache # NoRecord
          /\ cache' = NoRecord
          /\ UNCHANGED <<role, tx, answer, asked, clashed>>

RolesNext == \/ \E c \in Clients :
                  \/ Snapshot(c) \/ Retire(c) \/ Raise(c) \/ Commit(c) \/ Rollback(c) \/ Forget(c) \/ CacheChampion(c)
                  \/ \E g \in Records : Promote(c, g) \/ PromoteCandidate(c, g) \/ DeleteGenome(c, g)
                  \/ \E s \in Scopes : GetChampion(c, s)
             \/ Expire

RolesSpec == RolesInit /\ [][RolesNext]_rolesVars
-----------------------------------------------------------------------------
\* A scope has one champion (docs: unique per research scope).
OneChampion == \A s \in Scopes : Cardinality(Champions(s)) <= 1

\* It has more only where two promotions of the scope have overlapped.
OneChampionInTurn ==
  \A s \in Scopes \ clashed : Cardinality(Champions(s)) <= 1

\* Promotion never leaves a scope that had a champion without one, in whatever
\* order transactions wait, commit and roll back, unless records were deleted.
ChampionIsReplaced ==
  \A s \in Scopes :
    \/ \E g \in Records : ScopeOf[g] = s /\ role[g] = "deleted"
    \/ \A g \in Records : ScopeOf[g] = s => role[g] # "retired"
    \/ Champions(s) # {}

\* GetChampion answers with a champion of the scope that was asked for.
OwnScope ==
  \A c \in Clients : answer[c] # NoAnswer => ScopeOf[answer[c].record] = answer[c].scope
=============================================================================
