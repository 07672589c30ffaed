--------------------------- MODULE ResearchProofs ---------------------------
(***************************************************************************)
(* Theorems about the promotion of gene records, which the parameter        *)
(* library and the parameter research share, about research runs, and about *)
(* the genetic search that both take their records from: for every set of   *)
(* records, scopes and clients, every batch and refinement, every space of  *)
(* parameter sets and size of the search, and every number of requests,     *)
(* crashes and faults.                                                      *)
(***************************************************************************)
EXTENDS GeneSearch, Champions, ResearchRuns, FiniteSetTheorems, WellFoundedInduction, TLAPS

-----------------------------------------------------------------------------
(* Promotion.  A row that is locked is changed by its transaction only, so  *)
(* what a transaction retires are champions until it commits, and what it   *)
(* raises is there.  Where promotions of a scope do not overlap, all its    *)
(* champions are about to be retired when one more is raised.               *)

Roles == {"challenger", "champion", "retired", "deleted"}
Transacting == {"snapshot", "retire", "raise", "commit"}
TxRow == [step : Transacting \cup {"idle", "forget", "cache"}, kind : {"none", "promote", "candidate"},
          record : Records \cup {NoRecord}, targets : SUBSET Records, locks : SUBSET Records,
          retired : SUBSET Records, raised : BOOLEAN]

RolesTyped ==
  /\ role \in [Records -> Roles]
  /\ tx \in [Clients -> TxRow]

InTx(c) == tx[c].step \in Transacting

\* What a transaction changes is in its scope and locked, and stands.
Guarded(c) ==
  LET t == tx[c] IN
  /\ Promoting(c) <=> InTx(c)
  /\ InTx(c) => t.record \in Records /\ \A g \in t.targets \cup t.retired : ScopeOf[g] = ScopeOf[t.record]
  /\ ~InTx(c) => t.locks = {} /\ t.retired = {}
  /\ \A g \in t.retired : g \in t.locks /\ role[g] = "champion"
  /\ t.step = "commit" => t.record \in t.locks /\ (t.raised <=> role[t.record] # "deleted")

LocksApart == \A c, d \in Clients : c # d => tx[c].locks \cap tx[d].locks = {}

\* The promotion of c, alone in its scope, retires all champions but its own.
Sweeps(c) ==
  LET t == tx[c] s == ScopeOf[t.record] IN
  InTx(c) /\ s \notin clashed =>
    /\ \A d \in Clients \ {c} : InTx(d) => ScopeOf[tx[d].record] # s
    /\ t.step = "retire" => Champions(s) \subseteq t.targets \cup {t.record}
    /\ t.step \in {"raise", "commit"} => Champions(s) \subseteq t.retired \cup {t.record}

AtMostOne == \A s \in Scopes \ clashed : \A g, h \in Champions(s) : g = h

RolesInv ==
  /\ RolesTyped /\ LocksApart /\ AtMostOne /\ ChampionIsReplaced
  /\ \A c \in Clients : Guarded(c) /\ Sweeps(c)
-----------------------------------------------------------------------------
LEMMA RolesStart == RolesInit => RolesInv
<1> SUFFICES ASSUME RolesInit PROVE RolesInv
  OBVIOUS
<1>1. NoTx \in TxRow /\ NoTx.locks = {} /\ NoTx.retired = {} /\ NoTx.step = "idle" /\ NoTx.kind = "none"
  BY DEF NoTx, TxRow
<1>2. RolesTyped
  BY <1>1 DEF RolesInit, RolesTyped, Roles
<1>3. \A c \in Clients : Guarded(c) /\ Sweeps(c)
  BY <1>1 DEF RolesInit, Guarded, Sweeps, InTx, Promoting, Transacting
<1>4. \A s \in Scopes : Champions(s) = {}
  BY DEF RolesInit, Champions
<1> QED
  BY <1>1, <1>2, <1>3, <1>4 DEF RolesInit, RolesInv, LocksApart, AtMostOne, ChampionIsReplaced

\* A step of one client that commits nothing.
LEMMA QuietRoles ==
  ASSUME RolesInv, NEW c \in Clients, NEW t \in TxRow, role' = role, clashed \subseteq clashed',
         tx' = [tx EXCEPT ![c] = t], Guarded(c)', Sweeps(c)',
         \A d \in Clients \ {c} : t.locks \cap tx[d].locks = {},
         \A d \in Clients \ {c} :
            InTx(c)' /\ InTx(d) /\ ScopeOf[tx[d].record] = ScopeOf[t.record] => ScopeOf[t.record] \in clashed'
  PROVE  RolesInv'
<1>1. tx'[c] = t /\ \A d \in Clients \ {c} : tx'[d] = tx[d]
  BY DEF RolesInv, RolesTyped
<1>2. RolesTyped'
  BY DEF RolesInv, RolesTyped
<1>3. LocksApart'
  BY <1>1 DEF RolesInv, LocksApart
<1>4. \A s : Champions(s)' = Champions(s)
  BY DEF Champions
<1>5. AtMostOne' /\ ChampionIsReplaced'
  BY <1>4 DEF RolesInv, AtMostOne, ChampionIsReplaced, Scopes
<1>6. ASSUME NEW d \in Clients \ {c} PROVE Guarded(d)' /\ Sweeps(d)'
  <2>1. tx'[d] = tx[d] /\ Guarded(d) /\ Sweeps(d)
    BY <1>1, <1>6 DEF RolesInv
  <2>2. Guarded(d)'
    BY <2>1 DEF Guarded, InTx, Promoting
  <2>3. Sweeps(d)'
    BY <1>1, <1>4, <2>1 DEF Sweeps, InTx
  <2> QED
    BY <2>2, <2>3
<1> QED
  BY <1>2, <1>3, <1>5, <1>6 DEF RolesInv

\* The transaction of c goes on.
LEMMA GoesOn ==
  ASSUME RolesInv, NEW c \in Clients, NEW t \in TxRow, role' = role, clashed' = clashed,
         tx' = [tx EXCEPT ![c] = t], t.record = tx[c].record, InTx(c), Guarded(c)',
         \A g \in t.locks : g \in tx[c].locks \/ ~RowLocked(g, c),
         t.step = "retire" => Champions(ScopeOf[t.record]) \subseteq t.targets \cup {t.record},
         t.step \in {"raise", "commit"} /\ ScopeOf[t.record] \notin clashed =>
            Champions(ScopeOf[t.record]) \subseteq t.retired \cup {t.record}
  PROVE  RolesInv'
<1>1. tx'[c] = t /\ \A d \in Clients \ {c} : tx'[d] = tx[d]
  BY DEF RolesInv, RolesTyped
<1>2. \A s : Champions(s)' = Champions(s)
  BY DEF Champions
<1>3. Sweeps(c)'
  BY <1>1, <1>2 DEF Sweeps, InTx, RolesInv
<1>4. \A d \in Clients \ {c} : t.locks \cap tx[d].locks = {}
  BY DEF RowLocked, RolesInv, LocksApart
<1>5. \A d \in Clients \ {c} :
        InTx(c)' /\ InTx(d) /\ ScopeOf[tx[d].record] = ScopeOf[t.record] => ScopeOf[t.record] \in clashed'
  BY DEF Sweeps, RolesInv
<1> QED
  BY <1>3, <1>4, <1>5, QuietRoles

\* The client is out of its transaction.
LEMMA GoesOut ==
  ASSUME RolesInv, NEW c \in Clients, NEW t \in TxRow, role' = role, clashed' = clashed,
         tx' = [tx EXCEPT ![c] = t], t.step \notin Transacting, t.kind = "none", t.locks = {}, t.retired = {}
  PROVE  RolesInv'
<1>1. tx'[c] = t
  BY DEF RolesInv, RolesTyped
<1>2. ~InTx(c)' /\ ~Promoting(c)' /\ t.step # "commit"
  BY <1>1 DEF InTx, Promoting, Transacting
<1>3. Guarded(c)' /\ Sweeps(c)'
  BY <1>1, <1>2 DEF Guarded, Sweeps
<1> QED
  BY <1>2, <1>3, QuietRoles

LEMMA BeginsRoles ==
  ASSUME RolesInv, NEW c \in Clients, NEW g \in Records, NEW kind \in {"promote", "candidate"},
         NEW locks \in SUBSET {g}, \A h \in locks : ~RowLocked(h, c), Begins(c, g, kind, locks)
  PROVE  RolesInv'
<1> DEFINE t == [NoTx EXCEPT !.step = "snapshot", !.kind = kind, !.record = g, !.locks = locks]
<1>1. /\ t \in TxRow /\ t.step = "snapshot" /\ t.kind = kind /\ t.record = g /\ t.locks = locks
      /\ t.targets = {} /\ t.retired = {}
  BY DEF NoTx, TxRow, Transacting
<1>2. tx' = [tx EXCEPT ![c] = t] /\ role' = role /\ clashed \subseteq clashed'
  BY DEF Begins
<1> HIDE DEF t
<1>3. tx'[c] = t /\ \A d \in Clients \ {c} : tx'[d] = tx[d]
  BY <1>2 DEF RolesInv, RolesTyped
<1>4. Guarded(c)'
  BY <1>1, <1>3 DEF Guarded, Promoting, InTx, Transacting
<1>5. \A d \in Clients \ {c} : InTx(d) /\ ScopeOf[tx[d].record] = ScopeOf[g] => ScopeOf[g] \in clashed'
  BY DEF Begins, RolesInv, Guarded
<1>6. Sweeps(c)'
  BY <1>1, <1>3, <1>5 DEF Sweeps, InTx
<1>7. \A d \in Clients \ {c} : t.locks \cap tx[d].locks = {}
  BY <1>1 DEF RowLocked
<1> QED
  BY <1>1, <1>2, <1>4, <1>5, <1>6, <1>7, QuietRoles

LEMMA SnapshotRoles ==
  ASSUME RolesInv, NEW c \in Clients, Snapshot(c)
  PROVE  RolesInv'
<1> DEFINE t == [tx[c] EXCEPT !.step = "retire", !.targets = Targets(c)]
<1>0. tx[c] \in TxRow /\ Guarded(c) /\ tx[c].step = "snapshot" /\ InTx(c)
  BY DEF Snapshot, RolesInv, RolesTyped, InTx, Transacting
<1>1. Targets(c) \subseteq Records /\ \A g \in Targets(c) : ScopeOf[g] = ScopeOf[tx[c].record]
  BY DEF Targets, Champions
<1>2. /\ t \in TxRow /\ t.step = "retire" /\ t.kind = tx[c].kind /\ t.record = tx[c].record
      /\ t.locks = tx[c].locks /\ t.targets = Targets(c) /\ t.retired = tx[c].retired
  BY <1>0, <1>1 DEF TxRow, Transacting
<1>3. tx' = [tx EXCEPT ![c] = t] /\ role' = role /\ clashed' = clashed
  BY DEF Snapshot, RolesInv, RolesTyped
<1> HIDE DEF t
<1>4. tx'[c] = t
  BY <1>3 DEF RolesInv, RolesTyped
<1>5. Guarded(c)'
  BY <1>0, <1>1, <1>2, <1>3, <1>4 DEF Guarded, Promoting, InTx, Transacting
<1>6. Champions(ScopeOf[t.record]) \subseteq t.targets \cup {t.record}
  BY <1>2 DEF Targets
<1> QED
  BY <1>0, <1>2, <1>3, <1>5, <1>6, GoesOn

LEMMA RetireRoles ==
  ASSUME RolesInv, NEW c \in Clients, Retire(c)
  PROVE  RolesInv'
<1> DEFINE still == {g \in tx[c].targets : role[g] = "champion"}
           t == [tx[c] EXCEPT !.step = "raise", !.retired = still, !.locks = @ \cup still]
<1>0. tx[c] \in TxRow /\ Guarded(c) /\ Sweeps(c) /\ tx[c].step = "retire" /\ InTx(c)
  BY DEF Retire, RolesInv, RolesTyped, InTx, Transacting
<1>1. still \subseteq Records
  BY <1>0 DEF TxRow
<1>2. /\ t \in TxRow /\ t.step = "raise" /\ t.kind = tx[c].kind /\ t.record = tx[c].record
      /\ t.locks = tx[c].locks \cup still /\ t.targets = tx[c].targets /\ t.retired = still
  BY <1>0, <1>1 DEF TxRow, Transacting
<1>3. tx' = [tx EXCEPT ![c] = t] /\ role' = role /\ clashed' = clashed /\ \A g \in still : ~RowLocked(g, c)
  BY DEF Retire, RolesInv, RolesTyped
<1> HIDE DEF t
<1>4. tx'[c] = t
  BY <1>3 DEF RolesInv, RolesTyped
<1>5. Guarded(c)'
  BY <1>0, <1>2, <1>3, <1>4 DEF Guarded, Promoting, InTx, Transacting
<1>6. ScopeOf[t.record] \notin clashed => Champions(ScopeOf[t.record]) \subseteq t.retired \cup {t.record}
  BY <1>0, <1>2 DEF Sweeps, Champions
<1> QED
  BY <1>0, <1>2, <1>3, <1>5, <1>6, GoesOn

LEMMA RaiseRoles ==
  ASSUME RolesInv, NEW c \in Clients, Raise(c)
  PROVE  RolesInv'
<1> DEFINE g == tx[c].record
           t == [tx[c] EXCEPT !.step = "commit", !.raised = role[g] # "deleted", !.locks = @ \cup {g}]
<1>0. tx[c] \in TxRow /\ Guarded(c) /\ Sweeps(c) /\ tx[c].step = "raise" /\ InTx(c)
  BY DEF Raise, RolesInv, RolesTyped, InTx, Transacting
<1>1. g \in Records
  BY <1>0 DEF Guarded
<1>2. /\ t \in TxRow /\ t.step = "commit" /\ t.kind = tx[c].kind /\ t.record = g
      /\ t.locks = tx[c].locks \cup {g} /\ t.targets = tx[c].targets /\ t.retired = tx[c].retired
      /\ t.raised = (role[g] # "deleted")
  BY <1>0, <1>1 DEF TxRow, Transacting
<1>3. tx' = [tx EXCEPT ![c] = t] /\ role' = role /\ clashed' = clashed /\ ~RowLocked(g, c)
  BY DEF Raise, RolesInv, RolesTyped
<1> HIDE DEF t
<1>4. tx'[c] = t
  BY <1>3 DEF RolesInv, RolesTyped
<1>5. Guarded(c)'
  <2>1. InTx(c)' /\ t.locks = tx[c].locks \cup {g} /\ t.retired = tx[c].retired /\ t.targets = tx[c].targets
    BY <1>2, <1>4 DEF InTx, Transacting
  <2>2. Promoting(c)'
    BY <1>0, <1>2, <1>4 DEF Guarded, Promoting
  <2>3. \A x \in t.targets \cup t.retired : ScopeOf[x] = ScopeOf[t.record]
    BY <1>0, <1>2, <2>1 DEF Guarded
  <2>4. \A x \in t.retired : x \in t.locks /\ role'[x] = "champion"
    BY <1>0, <1>3, <2>1 DEF Guarded
  <2>5. t.record \in Records /\ t.record \in t.locks /\ (t.raised <=> role'[t.record] # "deleted")
    BY <1>1, <1>2, <1>3
  <2> QED
    BY <1>4, <2>1, <2>2, <2>3, <2>4, <2>5 DEF Guarded
<1>6. ScopeOf[t.record] \notin clashed => Champions(ScopeOf[t.record]) \subseteq t.retired \cup {t.record}
  BY <1>0, <1>2 DEF Sweeps
<1> QED
  BY <1>0, <1>2, <1>3, <1>5, <1>6, GoesOn

LEMMA CommitRoles ==
  ASSUME RolesInv, NEW c \in Clients, Commit(c)
  PROVE  RolesInv'
<1> DEFINE t == tx[c]
           s == ScopeOf[t.record]
           u == IF t.kind = "promote" THEN [NoTx EXCEPT !.step = "forget"] ELSE NoTx
<1>0. t \in TxRow /\ Guarded(c) /\ Sweeps(c) /\ t.step = "commit" /\ InTx(c) /\ t.record \in Records
  BY DEF Commit, RolesInv, RolesTyped, InTx, Transacting, Guarded
<1>1. u \in TxRow /\ u.step \notin Transacting /\ u.kind = "none" /\ u.locks = {} /\ u.retired = {}
  BY DEF NoTx, TxRow, Transacting
<1>2. /\ tx' = [tx EXCEPT ![c] = u] /\ clashed' = clashed
      /\ role' = [g \in Records |-> IF g = t.record /\ t.raised THEN "champion"
                                    ELSE IF g \in t.retired THEN "retired" ELSE role[g]]
  BY DEF Commit, RolesInv, RolesTyped
<1> HIDE DEF u
<1>3. tx'[c] = u /\ \A d \in Clients \ {c} : tx'[d] = tx[d]
  BY <1>2 DEF RolesInv, RolesTyped
<1>4. RolesTyped'
  BY <1>1, <1>2 DEF RolesInv, RolesTyped, Roles
<1>5. LocksApart'
  BY <1>1, <1>3 DEF RolesInv, LocksApart
<1>6. \A g \in Records : g \notin t.locks => role'[g] = role[g]
  BY <1>0, <1>2 DEF Guarded
<1>7. \A z : z # s => Champions(z)' = Champions(z)
  BY <1>0, <1>2 DEF Champions, Guarded
<1>8. t.raised => role'[t.record] = "champion"
  BY <1>0, <1>2
<1>9. \A g \in Records : role[g] = "deleted" <=> role'[g] = "deleted"
  BY <1>0, <1>2 DEF Guarded
<1>10. AtMostOne'
  <2>1. s \notin clashed => Champions(s) \subseteq t.retired \cup {t.record}
    BY <1>0 DEF Sweeps
  <2>2. ASSUME s \notin clashed, NEW z, z = s, NEW g \in Champions(z)' PROVE g = t.record
    <3>1. g \in Records /\ ScopeOf[g] = z /\ role'[g] = "champion"
      BY <2>2 DEF Champions
    <3>2. g = t.record \/ (g \notin t.retired /\ role[g] = "champion")
      BY <1>2, <3>1
    <3> QED
      BY <2>1, <2>2, <3>1, <3>2 DEF Champions
  <2> SUFFICES ASSUME NEW z \in Scopes \ clashed, NEW g \in Champions(z)', NEW h \in Champions(z)'
               PROVE  g = h
    BY <1>2 DEF AtMostOne, Scopes
  <2>3. CASE z = s
    BY <2>2, <2>3
  <2>4. CASE z # s
    BY <1>7, <2>4 DEF RolesInv, AtMostOne
  <2> QED
    BY <2>3, <2>4
<1>11. ChampionIsReplaced'
  <2> SUFFICES ASSUME NEW z \in Scopes, \A g \in Records : ScopeOf[g] = z => role'[g] # "deleted",
                      NEW h \in Records, ScopeOf[h] = z, role'[h] = "retired"
               PROVE  \E g \in Records : ScopeOf[g] = z /\ role'[g] = "champion"
    BY DEF ChampionIsReplaced, Champions, Scopes
  <2>1. CASE z = s
    <3>1. t.raised
      BY <1>0, <1>9, <2>1 DEF Guarded
    <3> QED
      BY <1>0, <1>8, <2>1, <3>1
  <2>2. CASE z # s
    <3>1. role[h] = "retired"
      BY <1>0, <1>2, <2>2 DEF Guarded
    <3>2. Champions(z) # {}
      BY <1>9, <3>1 DEF RolesInv, ChampionIsReplaced
    <3> QED
      BY <1>7, <2>2, <3>2 DEF Champions
  <2> QED
    BY <2>1, <2>2
<1>12. Guarded(c)' /\ Sweeps(c)'
  BY <1>1, <1>3 DEF Guarded, Sweeps, InTx, Promoting, Transacting
<1>13. ASSUME NEW d \in Clients \ {c} PROVE Guarded(d)' /\ Sweeps(d)'
  <2>1. tx'[d] = tx[d] /\ Guarded(d) /\ Sweeps(d) /\ tx[d].locks \cap t.locks = {} /\ tx[d] \in TxRow
    BY <1>3 DEF RolesInv, LocksApart, RolesTyped
  <2>2. \A g \in tx[d].locks : g \in Records /\ role'[g] = role[g]
    BY <1>6, <2>1 DEF TxRow
  <2>3. Guarded(d)'
    BY <2>1, <2>2 DEF Guarded, InTx, Promoting
  <2>4. InTx(d) /\ ScopeOf[tx[d].record] \notin clashed => ScopeOf[tx[d].record] # s
    BY <1>0, <2>1 DEF Sweeps
  <2>5. \A e \in Clients : InTx(e)' => tx'[e] = tx[e] /\ InTx(e)
    BY <1>1, <1>3 DEF InTx
  <2>6. Sweeps(d)'
    BY <1>2, <1>7, <2>1, <2>4, <2>5 DEF Sweeps, InTx
  <2> QED
    BY <2>3, <2>6
<1> QED
  BY <1>4, <1>5, <1>10, <1>11, <1>12, <1>13 DEF RolesInv

LEMMA DeleteRoles ==
  ASSUME RolesInv, NEW c \in Clients, NEW g \in Records, DeleteGenome(c, g)
  PROVE  RolesInv'
<1> DEFINE u == IF role[g] = "champion" THEN [NoTx EXCEPT !.step = "forget"] ELSE NoTx
<1>0. tx[c].step = "idle" /\ Guarded(c) /\ ~InTx(c) /\ ~RowLocked(g, c)
  BY DEF DeleteGenome, Request, RolesInv, InTx, Transacting
<1>1. u \in TxRow /\ u.step \notin Transacting /\ u.kind = "none" /\ u.locks = {} /\ u.retired = {}
  BY DEF NoTx, TxRow, Transacting
<1>2. tx' = [tx EXCEPT ![c] = u] /\ clashed' = clashed /\ role' = [role EXCEPT ![g] = "deleted"]
  BY DEF DeleteGenome
<1> HIDE DEF u
<1>3. tx'[c] = u /\ \A d \in Clients \ {c} : tx'[d] = tx[d]
  BY <1>2 DEF RolesInv, RolesTyped
<1>4. RolesTyped'
  BY <1>1, <1>2 DEF RolesInv, RolesTyped, Roles
<1>5. LocksApart'
  BY <1>1, <1>3 DEF RolesInv, LocksApart
<1>6. \A h \in Records \ {g} : role'[h] = role[h]
  BY <1>2 DEF RolesInv, RolesTyped
<1>7. \A z : Champions(z)' \subseteq Champions(z) /\ (z # ScopeOf[g] => Champions(z)' = Champions(z))
  BY <1>2 DEF Champions, RolesInv, RolesTyped
<1>8. AtMostOne'
  BY <1>2, <1>7 DEF RolesInv, AtMostOne, Scopes
<1>9. role'[g] = "deleted"
  BY <1>2 DEF RolesInv, RolesTyped
<1>10. ChampionIsReplaced'
  <2> SUFFICES ASSUME NEW z \in Scopes, \A h \in Records : ScopeOf[h] = z => role'[h] # "deleted",
                      NEW h \in Records, ScopeOf[h] = z, role'[h] = "retired"
               PROVE  Champions(z)' # {}
    BY DEF ChampionIsReplaced, Scopes
  <2>1. z # ScopeOf[g]
    BY <1>9
  <2>2. role[h] = "retired" /\ \A k \in Records : ScopeOf[k] = z => role[k] # "deleted"
    BY <1>6, <1>9, <2>1
  <2> QED
    BY <1>7, <2>1, <2>2 DEF RolesInv, ChampionIsReplaced
<1>11. Guarded(c)' /\ Sweeps(c)'
  BY <1>1, <1>3 DEF Guarded, Sweeps, InTx, Promoting, Transacting
<1>12. ASSUME NEW d \in Clients \ {c} PROVE Guarded(d)' /\ Sweeps(d)'
  <2>1. tx'[d] = tx[d] /\ Guarded(d) /\ Sweeps(d) /\ g \notin tx[d].locks /\ tx[d] \in TxRow
    BY <1>0, <1>3 DEF RolesInv, RowLocked, RolesTyped
  <2>2. \A h \in tx[d].locks : h \in Records /\ role'[h] = role[h]
    BY <1>6, <2>1 DEF TxRow
  <2>3. Guarded(d)'
    BY <2>1, <2>2 DEF Guarded, InTx, Promoting
  <2>4. \A e \in Clients : InTx(e)' => tx'[e] = tx[e] /\ InTx(e)
    BY <1>1, <1>3 DEF InTx
  <2>5. Sweeps(d)'
    BY <1>2, <1>7, <2>1, <2>4 DEF Sweeps, InTx
  <2> QED
    BY <2>3, <2>5
<1> QED
  BY <1>4, <1>5, <1>8, <1>10, <1>11, <1>12 DEF RolesInv

LEMMA NextRoles == RolesInv /\ [RolesNext]_rolesVars => RolesInv'
<1> SUFFICES ASSUME RolesInv, [RolesNext]_rolesVars PROVE RolesInv'
  OBVIOUS
<1>0. NoTx \in TxRow /\ NoTx.step \notin Transacting /\ NoTx.kind = "none" /\ NoTx.locks = {} /\ NoTx.retired = {}
  BY DEF NoTx, TxRow, Transacting
<1>1. CASE UNCHANGED <<role, tx, clashed>>
  <2>1. \A c \in Clients : (Guarded(c) <=> Guarded(c)') /\ (Sweeps(c) <=> Sweeps(c)')
    BY <1>1 DEF Guarded, Sweeps, InTx, Promoting, Champions
  <2>2. RolesTyped' /\ LocksApart' /\ AtMostOne' /\ ChampionIsReplaced'
    BY <1>1 DEF RolesInv, RolesTyped, LocksApart, AtMostOne, ChampionIsReplaced, Champions
  <2> QED
    BY <2>1, <2>2 DEF RolesInv
<1>2. ASSUME NEW c \in Clients, Snapshot(c) PROVE RolesInv'
  BY <1>2, SnapshotRoles
<1>3. ASSUME NEW c \in Clients, Retire(c) PROVE RolesInv'
  BY <1>3, RetireRoles
<1>4. ASSUME NEW c \in Clients, Raise(c) PROVE RolesInv'
  BY <1>4, RaiseRoles
<1>5. ASSUME NEW c \in Clients, Commit(c) PROVE RolesInv'
  BY <1>5, CommitRoles
<1>6. ASSUME NEW c \in Clients, Rollback(c) \/ Forget(c) \/ CacheChampion(c) PROVE RolesInv'
  BY <1>0, <1>6, GoesOut DEF Rollback, Forget, CacheChampion
<1>7. ASSUME NEW c \in Clients, NEW g \in Records, Promote(c, g) PROVE RolesInv'
  BY <1>7, BeginsRoles DEF Promote
<1>8. ASSUME NEW c \in Clients, NEW g \in Records, PromoteCandidate(c, g) PROVE RolesInv'
  BY <1>8, BeginsRoles DEF PromoteCandidate
<1>9. ASSUME NEW c \in Clients, NEW g \in Records, DeleteGenome(c, g) PROVE RolesInv'
  BY <1>9, DeleteRoles
<1>10. ASSUME NEW c \in Clients, NEW s \in Scopes, GetChampion(c, s) PROVE RolesInv'
  <2>1. CASE UNCHANGED tx
    BY <1>1, <1>10, <2>1 DEF GetChampion
  <2>2. ASSUME NEW g \in Records, tx' = [tx EXCEPT ![c] = [NoTx EXCEPT !.step = "cache", !.record = g]]
        PROVE  RolesInv'
    <3> DEFINE t == [NoTx EXCEPT !.step = "cache", !.record = g]
    <3>1. t \in TxRow /\ t.step \notin Transacting /\ t.kind = "none" /\ t.locks = {} /\ t.retired = {}
      BY DEF NoTx, TxRow, Transacting
    <3>2. role' = role /\ clashed' = clashed
      BY <1>10 DEF GetChampion
    <3> QED
      BY <2>2, <3>1, <3>2, GoesOut
  <2> QED
    BY <1>10, <2>1, <2>2 DEF GetChampion, Champions
<1>11. CASE Expire
  BY <1>1, <1>11 DEF Expire
<1>12. CASE UNCHANGED rolesVars
  BY <1>1, <1>12 DEF rolesVars
<1> QED
  BY <1>2, <1>3, <1>4, <1>5, <1>6, <1>7, <1>8, <1>9, <1>10, <1>11, <1>12 DEF RolesNext

LEMMA RolesInvHolds == RolesSpec => []RolesInv
BY RolesStart, NextRoles, PTL DEF RolesSpec

\* A scope in which no two promotions overlap has at most one champion, whatever
\* is deleted, rolled back or looked up meanwhile.
THEOREM PromotionsInTurn == RolesSpec => []OneChampionInTurn
<1>1. RolesInv => OneChampionInTurn
  <2> SUFFICES ASSUME RolesInv, NEW s \in Scopes \ clashed PROVE Cardinality(Champions(s)) <= 1
    BY DEF OneChampionInTurn
  <2>1. CASE Champions(s) = {}
    BY <2>1, FS_EmptySet
  <2>2. ASSUME NEW g \in Champions(s) PROVE Cardinality(Champions(s)) <= 1
    <3>1. Champions(s) = {g}
      BY <2>2 DEF RolesInv, AtMostOne
    <3> QED
      BY SMTT(30), <3>1, FS_Singleton
  <2> QED
    BY <2>1, <2>2
<1> QED
  BY <1>1, RolesInvHolds, PTL

\* However many promotions overlap: the one that retires a scope's champion puts
\* another in its place, unless that record was deleted.
THEOREM RetiredIsReplaced == RolesSpec => []ChampionIsReplaced
<1>1. RolesInv => ChampionIsReplaced
  BY DEF RolesInv
<1> QED
  BY <1>1, RolesInvHolds, PTL
-----------------------------------------------------------------------------
(* Research runs.  Stages are only added, tasks and points only grow while  *)
(* no stored result goes bad, and what a synchronisation has seen of a task *)
(* therefore still holds when it writes.                                    *)

Plot == SUBSET (Nat \cup Near)
Types == {"global", "local"}
StageRow == [type : Types, points : Plot, ordinal : Nat, from : Nat, next : 0 .. MaxPoint + 1,
             status : {"planned", "queued", "completed", "failed", "cancelled", "invalidated"},
             completedAt : BOOLEAN]
RunRow == [status : {"none", "running", "completed", "paused", "cancelled"},
           exploration : {"none", "running", "checkpoint", "paused"}, next : 0 .. MaxPoint + 1]
CallFields == {"step", "kind", "status", "next", "plan", "ordinal", "at", "count", "seen", "all"}
TaskStatuses == {"planned", "queued", "completed", "failed", "cancelled", "invalidated"}

Missing == stages = <<>>

RowsTyped ==
  /\ run \in RunRow /\ (Missing <=> run = NoRun) /\ (Missing <=> run.status = "none")
  /\ stages \in Seq(StageRow)
  /\ \A k \in DOMAIN task : DOMAIN task[k] = {"status", "valid"} /\ task[k].status \in TaskStatuses
  /\ rotten \in Nat

\* A stage has its task, and the points of its completion.
StageSound(i) ==
  /\ Key(stages[i]) \in DOMAIN task
  /\ rotten = 0 /\ stages[i].completedAt => stages[i].points \subseteq points

\* The items of a completed task are valid.
TaskSound(k) == rotten = 0 /\ task[k].status = "completed" => k[2] \subseteq task[k].valid

FirstIsDone == stages[1].completedAt

RowsSound ==
  /\ RowsTyped /\ SobolContiguous
  /\ \A i \in DOMAIN stages : StageSound(i)
  /\ \A k \in DOMAIN task : TaskSound(k)
  /\ run.exploration = "checkpoint" => FirstIsDone

Begun == {"start", "global", "local"}
Early == {"idle", "plan", "create", "commit"}

\* What a synchronisation knows of the stages behind it and the one at hand.
SyncSound(c) ==
  LET r == call[c] IN
  /\ r.step \in {"task", "points", "stage"} =>
       /\ r.at \in Nat \ {0} /\ r.count \in 1 .. Len(stages) /\ r.all \in BOOLEAN
       /\ r.at > 1 /\ r.all => FirstIsDone
  /\ r.step \in {"points", "stage"} =>
       /\ r.at <= r.count /\ (r.all => r.seen = "completed") /\ r.seen \in TaskStatuses
       /\ rotten = 0 /\ r.seen = "completed" => TaskOf(r.at).status = "completed"
  /\ r.step = "stage" /\ r.seen = "completed" /\ rotten = 0 => stages[r.at].points \subseteq points

\* A plan to be stored, and the task that was created for it.
PlanSound(c) ==
  LET r == call[c] p == r.plan IN
  /\ r.step \in {"create", "commit", "starttask"} =>
       /\ p.type \in Types /\ p.points \in Plot /\ p.from \in Nat
       /\ p.next \in 0 .. MaxPoint + 1
       /\ p.type = "global" => p.from <= p.next
  /\ r.step \in {"create", "commit"} /\ r.kind = "start" => p.type = "global" /\ p.from = 0
  /\ r.step \in {"commit", "starttask"} =>
       r.ordinal \in Nat /\ <<p.type, p.points, r.ordinal>> \in DOMAIN task

CallSound(c) ==
  LET r == call[c] IN
  /\ DOMAIN r = CallFields
  /\ r.next \in 0 .. MaxPoint + 1
  /\ r.step \in {"plan", "create", "commit"} => r.kind \in Begun
  /\ r.step \notin Early => ~Missing
  /\ r.step \in Early \ {"idle"} /\ r.kind # "start" => ~Missing
  /\ r.step \in {"stop", "stopped"} => r.kind = "paused"
  /\ r.status \in {"none", "running", "completed", "paused", "cancelled"}
  /\ r.step \in {"sync", "task", "points", "stage"} => r.status # "none"
  /\ SyncSound(c) /\ PlanSound(c)

ResearchInv ==
  /\ RowsSound /\ DOMAIN call = Callers
  /\ \A c \in Callers : CallSound(c)
-----------------------------------------------------------------------------
(* Planning in the sequence *)

\* A set of numbers has a least one, since initial segments are finite.
LEMMA LeastExists ==
  ASSUME NEW T \in SUBSET Nat, T # {}
  PROVE  \E n \in T : \A m \in T : n <= m
<1> DEFINE Initial == {0 .. n : n \in T}
<1>0. \A n \in T : 0 .. n \subseteq Nat /\ IsFiniteSet(0 .. n)
  BY FS_Interval
<1>1. Initial \subseteq FiniteSubsetsOf(Nat) /\ Initial # {}
  BY <1>0 DEF FiniteSubsetsOf
<1>2. PICK x \in Initial : \A y \in Initial : ~(<<y, x>> \in StrictSubsetOrdering(Nat))
  BY <1>1, FS_StrictSubsetOrderingWellFounded, WFMin
<1>3. PICK n \in T : x = 0 .. n
  BY <1>2
<1>4. ASSUME NEW m \in T, m < n PROVE FALSE
  <2>1. 0 .. m \subseteq 0 .. n /\ n \in 0 .. n /\ n \notin 0 .. m
    BY <1>4
  <2>2. <<0 .. m, 0 .. n>> \in StrictSubsetOrdering(Nat)
    BY <2>1 DEF StrictSubsetOrdering
  <2> QED
    BY <1>2, <1>3, <2>2
<1> QED
  BY <1>4

\* PlanGlobal finds where the next batch ends: sets of new points grow by one.
LEMMA SobolGoesOn ==
  ASSUME NEW from \in 0 .. MaxPoint + 1, NEW existing
  PROVE  /\ Sobol(from, existing).type = "global" /\ Sobol(from, existing).from = from
         /\ Sobol(from, existing).next \in from .. MaxPoint + 1
         /\ Sobol(from, existing).points \subseteq Nat
<1> DEFINE New(n) == {p \in from .. n - 1 : p \notin existing}
           Ends(n) == /\ Cardinality(New(n)) = Batch \/ n = MaxPoint + 1
                      /\ \A m \in from .. n - 1 : Cardinality(New(m)) < Batch
           Full == {n \in from .. MaxPoint + 1 : Cardinality(New(n)) >= Batch \/ n = MaxPoint + 1}
<1>0. from \in Nat /\ MaxPoint \in Nat /\ Batch \in Nat \ {0}
  BY ResearchAssumption
<1>1. \A n \in Nat : IsFiniteSet(New(n)) /\ Cardinality(New(n)) \in Nat
  <2> SUFFICES ASSUME NEW n \in Nat PROVE IsFiniteSet(New(n)) /\ Cardinality(New(n)) \in Nat
    OBVIOUS
  <2>1. IsFiniteSet(from .. n - 1)
    BY <1>0, FS_Interval
  <2>2. New(n) \in SUBSET (from .. n - 1)
    OBVIOUS
  <2>3. IsFiniteSet(New(n))
    BY <2>1, <2>2, FS_Subset
  <2> QED
    BY <2>3, FS_CardinalityType
<1>2. \A n \in Nat : n >= from => Cardinality(New(n + 1)) <= Cardinality(New(n)) + 1
  <2> SUFFICES ASSUME NEW n \in Nat, n >= from PROVE Cardinality(New(n + 1)) <= Cardinality(New(n)) + 1
    OBVIOUS
  <2>1. New(n + 1) \in SUBSET (New(n) \cup {n})
    BY <1>0
  <2>2. /\ IsFiniteSet(New(n) \cup {n})
        /\ Cardinality(New(n) \cup {n}) = IF n \in New(n) THEN Cardinality(New(n)) ELSE Cardinality(New(n)) + 1
    BY <1>1, FS_AddElement
  <2>3. Cardinality(New(n + 1)) <= Cardinality(New(n) \cup {n})
    BY <2>1, <2>2, FS_Subset
  <2>4. n + 1 \in Nat
    OBVIOUS
  <2>5. Cardinality(New(n)) \in Nat /\ Cardinality(New(n + 1)) \in Nat
    BY <1>1, <2>4
  <2> HIDE DEF New
  <2> QED
    BY <2>2, <2>3, <2>5
<1>3. Full \subseteq Nat /\ MaxPoint + 1 \in Full
  BY <1>0
<1>4. PICK n \in Full : \A m \in Full : n <= m
  BY <1>3, LeastExists
<1>5. n \in from .. MaxPoint + 1 /\ (Cardinality(New(n)) >= Batch \/ n = MaxPoint + 1) /\ n \in Nat
  BY <1>3, <1>4
<1>6. \A m \in from .. n - 1 : Cardinality(New(m)) < Batch
  <2> SUFFICES ASSUME NEW m \in from .. n - 1 PROVE Cardinality(New(m)) < Batch
    OBVIOUS
  <2>1. m \in from .. MaxPoint + 1 /\ m \in Nat /\ ~(n <= m)
    BY <1>0, <1>5
  <2>2. m \notin Full
    BY <1>4, <2>1
  <2>3. ~(Cardinality(New(m)) >= Batch)
    BY <2>1, <2>2
  <2>4. Cardinality(New(m)) \in Nat
    BY <1>1, <2>1
  <2> QED
    BY <1>0, <2>3, <2>4
<1>7. New(from) = {}
  BY <1>0
<1>8. Ends(n)
  <2>1. CASE n = MaxPoint + 1
    BY <1>6, <2>1
  <2>2. CASE n # MaxPoint + 1
    <3>1. Cardinality(New(n)) >= Batch
      BY <1>5, <2>2
    <3>2. n # from
      BY <1>0, <1>7, <3>1, FS_EmptySet
    <3>3. n - 1 \in from .. n - 1 /\ n - 1 \in Nat /\ n - 1 >= from /\ (n - 1) + 1 = n
      BY <1>0, <1>5, <3>2
    <3>4. Cardinality(New(n - 1)) < Batch
      BY <1>6, <3>3
    <3>5. Cardinality(New((n - 1) + 1)) <= Cardinality(New(n - 1)) + 1
      BY <1>2, <3>3
    <3>6. Cardinality(New(n)) <= Cardinality(New(n - 1)) + 1
      BY <3>3, <3>5
    <3>7. Cardinality(New(n)) \in Nat /\ Cardinality(New(n - 1)) \in Nat
      BY <1>1, <1>5, <3>3
    <3>8. Cardinality(New(n)) = Batch
      <4> HIDE DEF New
      <4> QED
        BY <1>0, <3>1, <3>4, <3>6, <3>7
    <3> QED
      BY <1>6, <3>8
  <2> QED
    BY <2>1, <2>2
<1> DEFINE next == CHOOSE k \in from .. MaxPoint + 1 : Ends(k)
<1>9. next \in from .. MaxPoint + 1
  <2> HIDE DEF Ends
  <2> QED
    BY <1>5, <1>8
<1>10. Sobol(from, existing) = [type |-> "global", from |-> from, next |-> next, points |-> New(next)]
  BY DEF Sobol
<1> HIDE DEF next
<1>11. New(next) \subseteq Nat
  BY <1>0, <1>9
<1> QED
  BY <1>9, <1>10, <1>11

-----------------------------------------------------------------------------
(* What the requests see of the rows goes on to hold. *)

Grows ==
  /\ \A i \in DOMAIN stages :
       /\ i \in DOMAIN stages' /\ Key(stages'[i]) = Key(stages[i]) /\ stages'[i].points = stages[i].points
       /\ stages[i].completedAt => stages'[i].completedAt
  /\ \A k \in DOMAIN task :
       /\ k \in DOMAIN task'
       /\ rotten' = 0 /\ task[k].status = "completed" => task'[k].status = "completed"
  /\ points \subseteq points'
  /\ rotten' = 0 => rotten = 0

LEMMA CallStays ==
  ASSUME ResearchInv, RowsTyped', Grows, NEW c \in Callers, call'[c] = call[c]
  PROVE  CallSound(c)'
<1>1. CallSound(c) /\ RowsTyped /\ \A i \in DOMAIN stages : StageSound(i)
  BY DEF ResearchInv, RowsSound
<1>2. Len(stages) \in Nat /\ Len(stages') \in Nat /\ DOMAIN stages = 1 .. Len(stages) /\ DOMAIN stages' = 1 .. Len(stages')
  BY <1>1 DEF RowsTyped
<1>3. Len(stages) <= Len(stages')
  BY <1>2 DEF Grows
<1>4. ~Missing => ~Missing' /\ (FirstIsDone => FirstIsDone')
  <2> SUFFICES ASSUME ~Missing PROVE ~Missing' /\ (FirstIsDone => FirstIsDone')
    OBVIOUS
  <2>1. 1 \in DOMAIN stages
    BY <1>1, <1>2 DEF Missing, RowsTyped
  <2>2. 1 \in DOMAIN stages' /\ (stages[1].completedAt => stages'[1].completedAt)
    BY <2>1 DEF Grows
  <2> QED
    BY <1>2, <2>2 DEF Missing, FirstIsDone
<1>5. \A i \in DOMAIN stages :
        rotten' = 0 /\ TaskOf(i).status = "completed" => rotten = 0 /\ TaskOf(i)'.status = "completed"
  BY <1>1 DEF StageSound, TaskOf, Grows
<1>6. SyncSound(c)'
  <2>1. call[c].step \in {"task", "points", "stage"} => call[c].count \in 1 .. Len(stages) /\ ~Missing
    BY <1>1, <1>2 DEF CallSound, SyncSound, Missing
  <2>2. call[c].step \in {"points", "stage"} => call[c].at \in DOMAIN stages
    BY <1>1, <1>2, <2>1 DEF CallSound, SyncSound
  <2>3. call[c].step \in {"task", "points", "stage"} =>
          /\ call[c].at \in Nat \ {0} /\ call[c].count \in 1 .. Len(stages') /\ call[c].all \in BOOLEAN
          /\ call[c].at > 1 /\ call[c].all => FirstIsDone'
    BY <1>1, <1>2, <1>3, <1>4, <2>1 DEF CallSound, SyncSound
  <2>4. call[c].step \in {"points", "stage"} =>
          (rotten' = 0 /\ call[c].seen = "completed" => TaskOf(call[c].at)'.status = "completed")
    BY <1>1, <1>5, <2>2 DEF CallSound, SyncSound, Grows
  <2>5. call[c].step = "stage" /\ call[c].seen = "completed" /\ rotten' = 0 => stages'[call[c].at].points \subseteq points'
    BY <1>1, <2>2 DEF CallSound, SyncSound, Grows
  <2>6. TaskOf(call[c].at)' = task'[Key(stages'[call'[c].at])]
    BY DEF TaskOf, Key
  <2> QED
    BY <1>1, <2>3, <2>4, <2>5, <2>6 DEF CallSound, SyncSound, TaskOf
<1>7. PlanSound(c)'
  BY <1>1 DEF CallSound, PlanSound, Grows
<1> QED
  BY <1>1, <1>4, <1>6, <1>7 DEF CallSound

\* A step of the request of c.
LEMMA OneCall ==
  ASSUME ResearchInv, NEW c \in Callers, RowsSound', Grows, DOMAIN call' = Callers,
         \A d \in Callers \ {c} : call'[d] = call[d], CallSound(c)'
  PROVE  ResearchInv'
BY CallStays DEF ResearchInv, RowsSound

\* A step that only the request sees.
LEMMA CallAlone ==
  ASSUME ResearchInv, CallOnly \/ UNCHANGED <<run, stages, task, points, rotten>>
  PROVE  RowsSound' /\ Grows
<1>1. UNCHANGED <<run, stages, task, points, rotten>>
  BY DEF CallOnly
<1>2. RowsTyped' /\ SobolContiguous'
  BY <1>1 DEF ResearchInv, RowsSound, RowsTyped, Missing, SobolContiguous
<1>3. (\A i \in DOMAIN stages : StageSound(i))' /\ (\A k \in DOMAIN task : TaskSound(k))'
  BY <1>1 DEF ResearchInv, RowsSound, StageSound, TaskSound, Key
<1>4. run'.exploration = "checkpoint" => FirstIsDone'
  BY <1>1 DEF ResearchInv, RowsSound, FirstIsDone
<1> QED
  BY <1>1, <1>2, <1>3, <1>4 DEF RowsSound, Grows, Key

\* A step of the tasks.
LEMMA TaskStep ==
  ASSUME ResearchInv, UNCHANGED <<run, stages, points>>, rotten' \in Nat, rotten' = 0 => rotten = 0,
         \A k \in DOMAIN task :
           k \in DOMAIN task' /\ (rotten' = 0 /\ task[k].status = "completed" => task'[k].status = "completed"),
         \A k \in DOMAIN task' : DOMAIN task'[k] = {"status", "valid"} /\ task'[k].status \in TaskStatuses /\ TaskSound(k)'
  PROVE  RowsSound' /\ Grows
<1>1. RowsTyped' /\ SobolContiguous'
  BY DEF ResearchInv, RowsSound, RowsTyped, Missing, SobolContiguous
<1>2. (\A i \in DOMAIN stages : StageSound(i))'
  BY DEF ResearchInv, RowsSound, StageSound, Key
<1>3. run'.exploration = "checkpoint" => FirstIsDone'
  BY DEF ResearchInv, RowsSound, FirstIsDone
<1> QED
  BY <1>1, <1>2, <1>3 DEF RowsSound, Grows, Key

\* A task that is not completed gets another status.
LEMMA TaskMoves ==
  ASSUME ResearchInv, NEW k, NEW s \in TaskStatuses \ {"completed"}, task[k].status # "completed",
         task' = [task EXCEPT ![k].status = s], UNCHANGED <<run, stages, points, rotten>>
  PROVE  RowsSound' /\ Grows
<1>1. DOMAIN task' = DOMAIN task /\ \A j \in DOMAIN task : j # k => task'[j] = task[j]
  OBVIOUS
<1>2. k \in DOMAIN task => task'[k] = [task[k] EXCEPT !.status = s]
  OBVIOUS
<1>3. k \in DOMAIN task => task'[k].status = s
  <2>1. \A j \in DOMAIN task : DOMAIN task[j] = {"status", "valid"}
    BY DEF ResearchInv, RowsSound, RowsTyped
  <2> QED
    BY <1>2, <2>1
<1>4. \A j \in DOMAIN task' : DOMAIN task'[j] = {"status", "valid"} /\ task'[j].status \in TaskStatuses /\ TaskSound(j)'
  BY <1>1, <1>3 DEF ResearchInv, RowsSound, RowsTyped, TaskSound
<1> QED
  BY <1>1, <1>3, <1>4, TaskStep DEF ResearchInv, RowsSound, RowsTyped

\* A step of the run's row, which keeps the place in the sequence.
LEMMA RunMoves ==
  ASSUME ResearchInv, ~Missing, NEW s \in {"running", "completed", "paused", "cancelled"},
         NEW e \in {"none", "running", "checkpoint", "paused"}, e = "checkpoint" => FirstIsDone,
         run' = [run EXCEPT !.status = s, !.exploration = e], UNCHANGED <<stages, task, points, rotten>>
  PROVE  RowsSound' /\ Grows
<1>1. run \in RunRow /\ run # NoRun
  BY DEF ResearchInv, RowsSound, RowsTyped
<1>2. run'.status = s /\ run'.exploration = e /\ run'.next = run.next /\ run' \in RunRow
  BY <1>1 DEF RunRow
<1>3. run' # NoRun
  BY <1>2 DEF NoRun
<1>4. RowsTyped'
  BY <1>2, <1>3 DEF ResearchInv, RowsSound, RowsTyped, Missing
<1>5. SobolContiguous'
  BY <1>1, <1>2, <1>3 DEF ResearchInv, RowsSound, SobolContiguous
<1>6. (\A i \in DOMAIN stages : StageSound(i))' /\ (\A k \in DOMAIN task : TaskSound(k))'
  BY DEF ResearchInv, RowsSound, StageSound, TaskSound, Key
<1> QED
  BY <1>2, <1>4, <1>5, <1>6 DEF RowsSound, Grows, Key, FirstIsDone

\* The request after a step of its own.
LEMMA Went ==
  ASSUME ResearchInv, NEW c \in Callers, NEW changes, Go(c, changes)
  PROVE  /\ DOMAIN call' = Callers /\ \A d \in Callers \ {c} : call'[d] = call[d]
         /\ call'[c] = [f \in CallFields |-> IF f \in DOMAIN changes THEN changes[f] ELSE call[c][f]]
BY DEF Go, ResearchInv, CallSound

LEMMA ReturnedSound ==
  ASSUME ResearchInv, NEW c \in Callers, Returned(c)
  PROVE  DOMAIN call' = Callers /\ (\A d \in Callers \ {c} : call'[d] = call[d]) /\ CallSound(c)'
<1>1. DOMAIN call' = Callers /\ (\A d \in Callers \ {c} : call'[d] = call[d]) /\ call'[c] = Idle
  BY DEF Returned, ResearchInv
<1>2. Idle.step = "idle" /\ Idle.next = 0 /\ Idle.kind = "none" /\ Idle.status = "none" /\ DOMAIN Idle = CallFields
  BY DEF Idle, CallFields
<1>3. 0 \in 0 .. MaxPoint + 1
  BY ResearchAssumption
<1>4. CallSound(c)'
  BY <1>1, <1>2, <1>3 DEF CallSound, SyncSound, PlanSound, Early
<1> QED
  BY <1>1, <1>4

-----------------------------------------------------------------------------
LEMMA ResearchStart == ResearchInit => ResearchInv
<1> SUFFICES ASSUME ResearchInit PROVE ResearchInv
  OBVIOUS
<1>0. Batch \in Nat /\ Batch \in 0 .. MaxPoint + 1 /\ 0 \in 0 .. MaxPoint + 1
  BY ResearchAssumption
<1>1. \A c \in Callers : CallSound(c)
  <2> SUFFICES ASSUME NEW c \in Callers PROVE CallSound(c)
    OBVIOUS
  <2>1. call[c] = Idle
    BY DEF ResearchInit
  <2>2. Idle.step = "idle" /\ Idle.next = 0 /\ Idle.kind = "none" /\ Idle.status = "none" /\ DOMAIN Idle = CallFields
    BY DEF Idle, CallFields
  <2> QED
    BY <1>0, <2>1, <2>2 DEF CallSound, SyncSound, PlanSound, Early
<1>2. CASE run = NoRun /\ stages = <<>> /\ task = <<>>
  <2>1. run \in RunRow /\ run.status = "none" /\ run.exploration = "none" /\ run.next = 0
    BY <1>0, <1>2 DEF NoRun, RunRow
  <2>2. stages \in Seq(StageRow) /\ DOMAIN stages = {} /\ DOMAIN task = {}
    BY <1>2
  <2>3. RowsTyped
    BY <1>2, <2>1, <2>2 DEF RowsTyped, Missing, ResearchInit
  <2>4. SobolContiguous
    BY <1>2, <2>2 DEF SobolContiguous
  <2> QED
    BY <1>1, <2>1, <2>2, <2>3, <2>4 DEF ResearchInv, RowsSound, ResearchInit
<1>3. CASE /\ run = [status |-> "running", exploration |-> "running", next |-> Batch]
           /\ stages = <<First>>
           /\ task = [k \in {Key(First)} |-> [status |-> "queued", valid |-> {}]]
  <2>1. run \in RunRow /\ run.status = "running" /\ run.exploration = "running" /\ run.next = Batch
    BY <1>0, <1>3 DEF RunRow
  <2>2. /\ First \in StageRow /\ First.type = "global" /\ First.from = 0 /\ First.next = Batch
        /\ First.completedAt = FALSE
    BY <1>0 DEF First, StageRow, Types, Plot
  <2>3. stages \in Seq(StageRow) /\ DOMAIN stages = {1} /\ stages[1] = First /\ Len(stages) = 1
    BY <1>3, <2>2
  <2>4. \A k \in DOMAIN task : task[k] = [status |-> "queued", valid |-> {}]
    BY <1>3
  <2>5. RowsTyped
    BY <2>1, <2>3, <2>4 DEF RowsTyped, Missing, ResearchInit, NoRun, TaskStatuses
  <2>6. SobolContiguous
    BY <1>0, <2>1, <2>2, <2>3 DEF SobolContiguous
  <2>7. (\A i \in DOMAIN stages : StageSound(i)) /\ \A k \in DOMAIN task : TaskSound(k)
    BY <1>3, <2>2, <2>3, <2>4 DEF StageSound, TaskSound
  <2> QED
    BY <1>1, <2>1, <2>5, <2>6, <2>7 DEF ResearchInv, RowsSound, ResearchInit
<1> QED
  BY <1>2, <1>3 DEF ResearchInit
-----------------------------------------------------------------------------
(* Requests, and their synchronisation *)

LEMMA RequestSound ==
  ASSUME ResearchInv, NEW c \in Callers, RunRequest(c)
  PROVE  ResearchInv'
<1>1. PICK kind \in KindsOf[c] :
        /\ kind = "start" \/ run # NoRun
        /\ Go(c, [kind |-> kind, status |-> run.status,
                  next |-> IF kind = "global" THEN run.next ELSE 0,
                  step |-> CASE kind = "start" /\ run = NoRun -> "plan"
                             [] kind = "paused" -> "stop"
                             [] kind = "resume" -> "resume"
                             [] OTHER -> "sync",
                  at |-> IF kind = "resume" THEN Len(stages) ELSE 0])
  BY DEF RunRequest
<1>2. RowsSound' /\ Grows
  BY CallAlone DEF RunRequest
<1>3. DOMAIN call' = Callers /\ \A d \in Callers \ {c} : call'[d] = call[d]
  BY <1>1, Went
<1> DEFINE step == CASE kind = "start" /\ run = NoRun -> "plan"
                     [] kind = "paused" -> "stop"
                     [] kind = "resume" -> "resume"
                     [] OTHER -> "sync"
           ch == [kind |-> kind, status |-> run.status, next |-> IF kind = "global" THEN run.next ELSE 0,
                  step |-> step, at |-> IF kind = "resume" THEN Len(stages) ELSE 0]
<1>a. call'[c] = [f \in CallFields |-> IF f \in DOMAIN ch THEN ch[f] ELSE call[c][f]]
  BY <1>1, Went
<1>b. \/ step = "plan" /\ kind = "start"
      \/ step = "stop" /\ kind = "paused" /\ run # NoRun
      \/ step \in {"resume", "sync"} /\ run # NoRun
  BY <1>1
<1> HIDE DEF step
<1>c. /\ DOMAIN call'[c] = CallFields /\ call'[c].kind = kind /\ call'[c].status = run.status
      /\ call'[c].next = (IF kind = "global" THEN run.next ELSE 0) /\ call'[c].step = step
  BY <1>a DEF CallFields
<1>4. /\ DOMAIN call'[c] = CallFields /\ call'[c].kind = kind /\ call'[c].status = run.status
      /\ call'[c].next = IF kind = "global" THEN run.next ELSE 0
      /\ \/ call'[c].step = "plan" /\ kind = "start"
         \/ call'[c].step = "stop" /\ kind = "paused" /\ run # NoRun
         \/ call'[c].step \in {"resume", "sync"} /\ run # NoRun
  BY <1>b, <1>c
<1>5. run \in RunRow /\ run' = run /\ (Missing <=> run = NoRun) /\ (Missing <=> run.status = "none") /\ (Missing <=> Missing')
  BY DEF ResearchInv, RowsSound, RowsTyped, RunRequest, Missing
<1>6. 0 \in 0 .. MaxPoint + 1
  BY ResearchAssumption
<1>7. call'[c].step \notin {"task", "points", "stage", "create", "commit", "starttask", "stopped"}
  BY <1>4
<1>8. SyncSound(c)' /\ PlanSound(c)'
  BY <1>7 DEF SyncSound, PlanSound
<1>9. CallSound(c)'
  BY <1>4, <1>5, <1>6, <1>7, <1>8 DEF CallSound, Early, Begun, RunRow
<1> QED
  BY <1>2, <1>3, <1>9, OneCall

LEMMA SyncBeginsSound ==
  ASSUME ResearchInv, NEW c \in Callers, SyncBegins(c)
  PROVE  ResearchInv'
<1>1. RowsSound' /\ Grows /\ UNCHANGED <<run, stages, task, points, rotten>>
  BY CallAlone DEF SyncBegins, CallOnly
<1>2. DOMAIN call' = Callers /\ \A d \in Callers \ {c} : call'[d] = call[d]
  BY Went DEF SyncBegins
<1> DEFINE ch == [step |-> "task", at |-> 1, count |-> Len(stages), all |-> TRUE]
<1>a. Go(c, ch)
  BY DEF SyncBegins
<1>b. call'[c] = [f \in CallFields |-> IF f \in DOMAIN ch THEN ch[f] ELSE call[c][f]]
  BY <1>a, Went
<1>3. /\ DOMAIN call'[c] = CallFields /\ call'[c].step = "task" /\ call'[c].at = 1
      /\ call'[c].count = Len(stages) /\ call'[c].all = TRUE
      /\ call'[c].kind = call[c].kind /\ call'[c].status = call[c].status /\ call'[c].next = call[c].next
  BY <1>b DEF CallFields
<1>4. call[c].step = "sync" /\ CallSound(c) /\ RowsTyped
  BY DEF SyncBegins, At, ResearchInv, RowsSound
<1>5. ~Missing /\ ~Missing' /\ Len(stages) \in Nat /\ Len(stages) # 0 /\ stages' = stages
  BY <1>1, <1>4 DEF CallSound, Early, Missing, RowsTyped
<1>6. SyncSound(c)'
  <2>1. call'[c].at \in Nat \ {0} /\ ~(call'[c].at > 1)
    BY <1>3
  <2>2. call'[c].count \in 1 .. Len(stages')
    BY <1>3, <1>5
  <2>3. call'[c].all \in BOOLEAN
    BY <1>3, Zenon
  <2>4. call'[c].step \notin {"points", "stage"}
    BY <1>3
  <2> QED
    BY <2>1, <2>2, <2>3, <2>4 DEF SyncSound
<1>7. PlanSound(c)'
  BY <1>3 DEF PlanSound
<1>8. CallSound(c)'
  BY <1>3, <1>4, <1>5, <1>6, <1>7 DEF CallSound, Early
<1> QED
  BY <1>1, <1>2, <1>8, OneCall

LEMMA SyncTaskSound ==
  ASSUME ResearchInv, NEW c \in Callers, SyncTask(c)
  PROVE  ResearchInv'
<1> DEFINE found == TaskOf(call[c].at).status
<1>1. RowsSound' /\ Grows /\ UNCHANGED <<run, stages, task, points, rotten>>
  BY CallAlone DEF SyncTask, CallOnly
<1>2. DOMAIN call' = Callers /\ \A d \in Callers \ {c} : call'[d] = call[d]
  BY Went DEF SyncTask
<1> DEFINE ch == [step |-> "points", seen |-> found, all |-> call[c].all /\ found = "completed"]
<1>a. Go(c, ch)
  BY DEF SyncTask
<1>b. call'[c] = [f \in CallFields |-> IF f \in DOMAIN ch THEN ch[f] ELSE call[c][f]]
  BY <1>a, Went
<1>3. /\ DOMAIN call'[c] = CallFields /\ call'[c].step = "points" /\ call'[c].at = call[c].at
      /\ call'[c].count = call[c].count /\ call'[c].all = (call[c].all /\ found = "completed")
      /\ call'[c].seen = found
      /\ call'[c].kind = call[c].kind /\ call'[c].status = call[c].status /\ call'[c].next = call[c].next
  BY <1>b DEF CallFields
<1>4. call[c].step = "task" /\ call[c].at <= call[c].count /\ CallSound(c) /\ SyncSound(c) /\ RowsTyped
  BY DEF SyncTask, At, ResearchInv, RowsSound, CallSound
<1>5. call[c].at \in DOMAIN stages
  BY <1>4 DEF SyncSound, RowsTyped
<1>6. found \in TaskStatuses
  BY <1>4, <1>5 DEF ResearchInv, RowsSound, StageSound, TaskOf, RowsTyped
<1>7. (\A i : TaskOf(i)' = TaskOf(i)) /\ (FirstIsDone <=> FirstIsDone') /\ (Missing <=> Missing')
  BY <1>1, <1>3 DEF TaskOf, Key, FirstIsDone, Missing
<1>8. SyncSound(c)'
  BY <1>1, <1>3, <1>4, <1>6, <1>7 DEF SyncSound
<1>9. PlanSound(c)'
  BY <1>3 DEF PlanSound
<1>10. CallSound(c)'
  BY <1>3, <1>4, <1>7, <1>8, <1>9 DEF CallSound, Early
<1> QED
  BY <1>1, <1>2, <1>10, OneCall

LEMMA SyncPointsSound ==
  ASSUME ResearchInv, NEW c \in Callers, SyncPoints(c)
  PROVE  ResearchInv'
<1>0. UNCHANGED <<run, stages, task, rotten>> /\ points \subseteq points'
  BY DEF SyncPoints
<1>1. RowsSound' /\ Grows
  <2>1. RowsTyped' /\ SobolContiguous'
    BY <1>0 DEF ResearchInv, RowsSound, RowsTyped, Missing, SobolContiguous
  <2>2. (\A i \in DOMAIN stages : StageSound(i))' /\ (\A k \in DOMAIN task : TaskSound(k))'
    BY <1>0 DEF ResearchInv, RowsSound, StageSound, TaskSound, Key
  <2>3. run'.exploration = "checkpoint" => FirstIsDone'
    BY <1>0 DEF ResearchInv, RowsSound, FirstIsDone
  <2> QED
    BY <1>0, <2>1, <2>2, <2>3 DEF RowsSound, Grows, Key
<1>2. CASE Returned(c)
  BY <1>1, <1>2, ReturnedSound, OneCall
<1>3. CASE points' = points \cup TaskOf(call[c].at).valid /\ Go(c, [step |-> "stage"])
  <2>1. DOMAIN call' = Callers /\ \A d \in Callers \ {c} : call'[d] = call[d]
    BY <1>3, Went
  <2> DEFINE ch == [step |-> "stage"]
  <2>b. call'[c] = [f \in CallFields |-> IF f \in DOMAIN ch THEN ch[f] ELSE call[c][f]]
    BY <1>3, Went
  <2>2. /\ DOMAIN call'[c] = CallFields /\ call'[c].step = "stage" /\ call'[c].at = call[c].at
        /\ call'[c].count = call[c].count /\ call'[c].all = call[c].all /\ call'[c].seen = call[c].seen
        /\ call'[c].kind = call[c].kind /\ call'[c].status = call[c].status /\ call'[c].next = call[c].next
    BY <2>b DEF CallFields
  <2>3. call[c].step = "points" /\ CallSound(c) /\ SyncSound(c) /\ RowsTyped
    BY DEF SyncPoints, At, ResearchInv, RowsSound, CallSound
  <2>4. call[c].at \in DOMAIN stages
    BY <2>3 DEF SyncSound, RowsTyped
  <2>5. rotten = 0 /\ call[c].seen = "completed" => stages[call[c].at].points \subseteq points'
    <3>1. Key(stages[call[c].at]) \in DOMAIN task /\ Key(stages[call[c].at])[2] = stages[call[c].at].points
      BY <2>4 DEF ResearchInv, RowsSound, StageSound, Key
    <3> QED
      BY <1>3, <2>3, <3>1 DEF SyncSound, ResearchInv, RowsSound, TaskSound, TaskOf
  <2>6. (\A i : TaskOf(i)' = TaskOf(i)) /\ (FirstIsDone <=> FirstIsDone') /\ (Missing <=> Missing')
    BY <1>0, <2>2 DEF TaskOf, Key, FirstIsDone, Missing
  <2>7. SyncSound(c)'
    BY <1>0, <2>2, <2>3, <2>5, <2>6 DEF SyncSound
  <2>8. PlanSound(c)'
    BY <2>2 DEF PlanSound
  <2>9. CallSound(c)'
    BY <2>2, <2>3, <2>6, <2>7, <2>8 DEF CallSound, Early
  <2> QED
    BY <1>1, <2>1, <2>9, OneCall
<1> QED
  BY <1>2, <1>3 DEF SyncPoints

LEMMA SyncStageSound ==
  ASSUME ResearchInv, NEW c \in Callers, SyncStage(c)
  PROVE  ResearchInv'
<1> DEFINE ch == [step |-> "task", at |-> call[c].at + 1, seen |-> "none"]
<1>1. UNCHANGED <<run, task, points, requests, rotten>> /\ Go(c, ch)
  BY DEF SyncStage
<1>2. call[c].step = "stage" /\ CallSound(c) /\ SyncSound(c) /\ RowsTyped
  BY DEF SyncStage, At, ResearchInv, RowsSound, CallSound
<1>3. DOMAIN stages = 1 .. Len(stages) /\ Len(stages) \in Nat /\ call[c].count <= Len(stages)
  BY <1>2 DEF RowsTyped, SyncSound
<1>4. PICK j \in DOMAIN stages : j = call[c].at
  BY <1>2, <1>3 DEF SyncSound
<1> DEFINE done == stages[j].completedAt \/ call[c].seen = "completed"
           s == [stages[j] EXCEPT !.status = call[c].seen, !.completedAt = done]
<1>5. stages[j] \in StageRow /\ call[c].seen \in TaskStatuses
  BY <1>2, <1>4 DEF RowsTyped, SyncSound
<1>6. stages' = [stages EXCEPT ![j] = s]
  BY <1>4, <1>5 DEF SyncStage, StageStatus, StageRow
<1>7. /\ s \in StageRow /\ s.type = stages[j].type /\ s.points = stages[j].points /\ s.ordinal = stages[j].ordinal
      /\ s.from = stages[j].from /\ s.next = stages[j].next
      /\ (s.completedAt <=> stages[j].completedAt \/ call[c].seen = "completed")
  BY <1>5 DEF StageRow, TaskStatuses
<1> HIDE DEF s, done
<1>8. /\ stages' \in Seq(StageRow) /\ DOMAIN stages' = DOMAIN stages /\ Len(stages') = Len(stages)
      /\ stages'[j] = s /\ \A i \in DOMAIN stages \ {j} : stages'[i] = stages[i]
  BY <1>2, <1>6, <1>7 DEF RowsTyped
<1>9. \A i \in DOMAIN stages :
        /\ stages'[i].type = stages[i].type /\ stages'[i].points = stages[i].points
        /\ stages'[i].from = stages[i].from /\ stages'[i].next = stages[i].next
        /\ Key(stages'[i]) = Key(stages[i])
        /\ (stages[i].completedAt => stages'[i].completedAt)
  BY <1>7, <1>8 DEF Key
<1>10. RowsTyped'
  BY <1>1, <1>2, <1>3, <1>8 DEF RowsTyped, Missing
<1>11. SobolContiguous'
  <2>1. SobolContiguous
    BY DEF ResearchInv, RowsSound
  <2>2. {i \in DOMAIN stages' : stages'[i].type = "global"} = {i \in DOMAIN stages : stages[i].type = "global"}
    BY <1>8, <1>9
  <2> QED
    BY <1>1, <1>9, <2>1, <2>2 DEF SobolContiguous
<1>12. ASSUME NEW i \in DOMAIN stages PROVE StageSound(i)'
  <2>1. StageSound(i)
    BY DEF ResearchInv, RowsSound
  <2>2. rotten = 0 /\ stages'[i].completedAt => stages[i].completedAt \/ stages[i].points \subseteq points
    BY <1>2, <1>4, <1>7, <1>8 DEF SyncSound
  <2> QED
    BY <1>1, <1>9, <2>1, <2>2 DEF StageSound, Key
<1>13. FirstIsDone => FirstIsDone'
  BY <1>3, <1>4, <1>9 DEF FirstIsDone
<1>14. RowsSound'
  <2>1. \A k \in DOMAIN task : TaskSound(k)'
    BY <1>1 DEF ResearchInv, RowsSound, TaskSound
  <2> QED
    BY <1>1, <1>8, <1>10, <1>11, <1>12, <1>13, <2>1 DEF ResearchInv, RowsSound
<1>15. Grows
  BY <1>1, <1>8, <1>9 DEF Grows
<1>16. call'[c] = [f \in CallFields |-> IF f \in DOMAIN ch THEN ch[f] ELSE call[c][f]]
  BY <1>1, Went
<1>17. /\ DOMAIN call'[c] = CallFields /\ call'[c].step = "task" /\ call'[c].at = call[c].at + 1
       /\ call'[c].count = call[c].count /\ call'[c].all = call[c].all
       /\ call'[c].kind = call[c].kind /\ call'[c].status = call[c].status /\ call'[c].next = call[c].next
  BY <1>16 DEF CallFields
<1>18. call[c].all => FirstIsDone'
  <2>1. CASE j = 1
    BY <1>2, <1>4, <1>7, <1>8, <2>1 DEF FirstIsDone, SyncSound
  <2>2. CASE j # 1
    BY <1>2, <1>3, <1>4, <1>13, <2>2 DEF SyncSound
  <2> QED
    BY <2>1, <2>2
<1>19. SyncSound(c)'
  BY <1>2, <1>3, <1>8, <1>17, <1>18 DEF SyncSound
<1>20. PlanSound(c)'
  BY <1>17 DEF PlanSound
<1>21. Missing <=> Missing'
  BY <1>2, <1>3, <1>8 DEF Missing, RowsTyped
<1>22. CallSound(c)'
  BY <1>2, <1>17, <1>19, <1>20, <1>21 DEF CallSound, Early
<1> QED
  BY <1>1, <1>14, <1>15, <1>22, Went, OneCall

LEMMA SyncRunSound ==
  ASSUME ResearchInv, NEW c \in Callers, SyncRun(c)
  PROVE  ResearchInv'
<1> DEFINE found == PreserveUserControlled(call[c].status, Derived(call[c].all))
           e == IF found = "completed" THEN "checkpoint" ELSE run.exploration
<1>1. call[c].step = "task" /\ call[c].at > call[c].count /\ CallSound(c) /\ SyncSound(c) /\ RowsTyped
  BY DEF SyncRun, At, ResearchInv, RowsSound, CallSound
<1>2. found \in {"running", "completed", "paused", "cancelled"} /\ (found = "completed" => call[c].all)
  BY <1>1 DEF PreserveUserControlled, Derived, SyncSound
<1>3. e \in {"none", "running", "checkpoint", "paused"} /\ (e = "checkpoint" => FirstIsDone)
  <2>1. found = "completed" => FirstIsDone
    BY <1>1, <1>2 DEF SyncSound
  <2>2. run.exploration \in {"none", "running", "checkpoint", "paused"}
    BY <1>1 DEF RowsTyped, RunRow
  <2>3. run.exploration = "checkpoint" => FirstIsDone
    BY DEF ResearchInv, RowsSound
  <2> HIDE DEF found
  <2> QED
    BY <2>1, <2>2, <2>3
<1>4. ~Missing
  BY <1>1 DEF CallSound, Early
<1>5. run' = [run EXCEPT !.status = found, !.exploration = e] /\ UNCHANGED <<stages, task, points, rotten>>
  BY <1>1 DEF SyncRun, RowsTyped, RunRow
<1> HIDE DEF found, e
<1>6. RowsSound' /\ Grows
  BY <1>2, <1>3, <1>4, <1>5, RunMoves
<1>7. CASE Returned(c)
  BY <1>6, <1>7, ReturnedSound, OneCall
<1>8. CASE /\ call[c].kind \in {"global", "local"}
           /\ Go(c, [step |-> "plan", status |-> "none", at |-> 0, count |-> 0, all |-> TRUE])
  <2> DEFINE ch == [step |-> "plan", status |-> "none", at |-> 0, count |-> 0, all |-> TRUE]
  <2>1. call'[c] = [f \in CallFields |-> IF f \in DOMAIN ch THEN ch[f] ELSE call[c][f]]
    BY <1>8, Went
  <2>2. /\ DOMAIN call'[c] = CallFields /\ call'[c].step = "plan" /\ call'[c].status = "none"
        /\ call'[c].kind = call[c].kind /\ call'[c].next = call[c].next
    BY <2>1 DEF CallFields
  <2>3. SyncSound(c)'
    BY <2>2 DEF SyncSound
  <2>4. PlanSound(c)'
    BY <2>2 DEF PlanSound
  <2>5. ~Missing'
    BY <1>4, <1>5 DEF Missing
  <2>6. CallSound(c)'
    BY <1>1, <1>8, <2>2, <2>3, <2>4, <2>5 DEF CallSound, Early, Begun
  <2> QED
    BY <1>6, <1>8, <2>6, Went, OneCall
<1> QED
  BY <1>7, <1>8 DEF SyncRun
-----------------------------------------------------------------------------
(* Planning a stage *)

LEMMA PlanIsSound ==
  ASSUME ResearchInv, NEW c \in Callers, Plan(c)
  PROVE  ResearchInv'
<1>1. RowsSound' /\ Grows /\ UNCHANGED <<run, stages, task, points, rotten>>
  BY CallAlone DEF Plan, CallOnly
<1>2. CASE Returned(c)
  BY <1>1, <1>2, ReturnedSound, OneCall
<1>3. CASE Go(c, [step |-> "create", next |-> 0, plan |-> Planned(c)])
  <2> DEFINE p == Planned(c)
             ch == [step |-> "create", next |-> 0, plan |-> p]
  <2>1. call[c].step = "plan" /\ CallSound(c)
    BY DEF Plan, At, ResearchInv
  <2>2. 0 \in 0 .. MaxPoint + 1 /\ MaxPoint \in Nat /\ call[c].next \in 0 .. MaxPoint + 1
    BY <2>1, ResearchAssumption DEF CallSound
  <2>3. /\ p.type \in Types /\ p.points \in Plot /\ p.from \in Nat /\ p.next \in 0 .. MaxPoint + 1
        /\ p.type = "global" => p.from <= p.next
        /\ call[c].kind = "start" => p.type = "global" /\ p.from = 0
    <3>1. CASE call[c].kind = "start"
      <4>1. p = Sobol(0, {})
        BY <3>1 DEF Planned
      <4> HIDE DEF p
      <4> QED
        BY <2>2, <4>1, SobolGoesOn DEF Types, Plot
    <3>2. CASE call[c].kind = "global"
      <4>1. p = Sobol(call[c].next, points)
        BY <3>2 DEF Planned
      <4>2. /\ p.type = "global" /\ p.from = call[c].next /\ p.points \subseteq Nat
            /\ p.next \in call[c].next .. MaxPoint + 1
        BY <2>2, <4>1, SobolGoesOn
      <4> HIDE DEF p
      <4> QED
        BY <2>2, <3>2, <4>2 DEF Types, Plot
    <3>3. CASE call[c].kind = "local"
      <4>1. p = [NoPlan EXCEPT !.type = "local", !.points = Near \ points]
        BY <3>3 DEF Planned
      <4>2. p.type = "local" /\ p.points = Near \ points /\ p.from = 0 /\ p.next = 0
        BY <4>1 DEF NoPlan
      <4> HIDE DEF p
      <4> QED
        BY <2>2, <3>3, <4>2 DEF Types, Plot
    <3> QED
      BY <2>1, <3>1, <3>2, <3>3 DEF CallSound, Begun
  <2> HIDE DEF p
  <2>4. call'[c] = [f \in CallFields |-> IF f \in DOMAIN ch THEN ch[f] ELSE call[c][f]]
    BY <1>3, Went DEF p
  <2>5. /\ DOMAIN call'[c] = CallFields /\ call'[c].step = "create" /\ call'[c].next = 0 /\ call'[c].plan = p
        /\ call'[c].kind = call[c].kind /\ call'[c].status = call[c].status
    BY <2>4 DEF CallFields
  <2>6. SyncSound(c)'
    BY <2>5 DEF SyncSound
  <2>7. PlanSound(c)'
    BY <2>3, <2>5 DEF PlanSound
  <2>8. Missing <=> Missing'
    BY <1>1 DEF Missing
  <2>9. CallSound(c)'
    BY <2>1, <2>2, <2>5, <2>6, <2>7, <2>8 DEF CallSound, Early, Begun
  <2> QED
    BY <1>1, <1>3, <2>9, Went, OneCall
<1> QED
  BY <1>2, <1>3 DEF Plan

LEMMA CreateTaskSound ==
  ASSUME ResearchInv, NEW c \in Callers, CreateTask(c)
  PROVE  ResearchInv'
<1> DEFINE p == call[c].plan
           n == Ordinal(c)
           ch == [step |-> "commit", ordinal |-> n]
<1>1. call[c].step = "create" /\ CallSound(c) /\ PlanSound(c) /\ RowsTyped
  BY DEF CreateTask, At, ResearchInv, RowsSound, CallSound
<1>2. n \in Nat
  BY <1>1 DEF Ordinal, At, RowsTyped
<1>3. PICK k : k = <<p.type, p.points, n>>
  OBVIOUS
<1>4. Key(Stage(c)) = k /\ k[2] = p.points
  BY <1>3 DEF Key, Stage
<1>5. UNCHANGED <<run, stages, points, rotten>> /\ Go(c, ch)
  BY DEF CreateTask
<1>6. \/ UNCHANGED task /\ k \in DOMAIN task
      \/ \E known \in {{}, k[2]} :
           task' = [j \in DOMAIN task \cup {k} |->
                      IF j = k THEN [status |-> IF known = {} THEN "planned" ELSE "completed", valid |-> known]
                      ELSE task[j]]
         /\ k \notin DOMAIN task
  BY <1>4 DEF CreateTask
<1>7. RowsSound' /\ Grows /\ k \in DOMAIN task'
  <2>1. CASE UNCHANGED task /\ k \in DOMAIN task
    BY <1>5, <2>1, CallAlone
  <2>2. ASSUME NEW known \in {{}, k[2]}, k \notin DOMAIN task,
               task' = [j \in DOMAIN task \cup {k} |->
                          IF j = k THEN [status |-> IF known = {} THEN "planned" ELSE "completed", valid |-> known]
                          ELSE task[j]]
        PROVE  RowsSound' /\ Grows /\ k \in DOMAIN task'
    <3>1. DOMAIN task' = DOMAIN task \cup {k} /\ \A j \in DOMAIN task : task'[j] = task[j]
      BY <2>2
    <3>2. task'[k] = [status |-> IF known = {} THEN "planned" ELSE "completed", valid |-> known]
      BY <2>2
    <3>3. /\ DOMAIN task'[k] = {"status", "valid"} /\ task'[k].status \in TaskStatuses
          /\ task'[k].status = "completed" => k[2] \subseteq task'[k].valid
      BY <2>2, <3>2 DEF TaskStatuses
    <3>4. \A j \in DOMAIN task' : DOMAIN task'[j] = {"status", "valid"} /\ task'[j].status \in TaskStatuses /\ TaskSound(j)'
      BY <1>5, <3>1, <3>3 DEF ResearchInv, RowsSound, RowsTyped, TaskSound
    <3> QED
      BY <1>1, <1>5, <3>1, <3>4, TaskStep DEF RowsTyped
  <2> QED
    BY <1>6, <2>1, <2>2
<1>8. call'[c] = [f \in CallFields |-> IF f \in DOMAIN ch THEN ch[f] ELSE call[c][f]]
  BY <1>5, Went
<1> HIDE DEF n
<1>9. /\ DOMAIN call'[c] = CallFields /\ call'[c].step = "commit" /\ call'[c].ordinal = n /\ call'[c].plan = p
      /\ call'[c].kind = call[c].kind /\ call'[c].status = call[c].status /\ call'[c].next = call[c].next
  BY <1>8 DEF CallFields
<1>10. SyncSound(c)'
  BY <1>9 DEF SyncSound
<1>11. PlanSound(c)'
  BY <1>1, <1>2, <1>3, <1>7, <1>9 DEF PlanSound
<1>12. Missing <=> Missing'
  BY <1>5 DEF Missing
<1>13. CallSound(c)'
  BY <1>1, <1>9, <1>10, <1>11, <1>12 DEF CallSound, Early, Begun
<1> QED
  BY <1>5, <1>7, <1>13, Went, OneCall

LEMMA CommitStageSound ==
  ASSUME ResearchInv, NEW c \in Callers, CommitStage(c)
  PROVE  ResearchInv'
<1> DEFINE plan == call[c].plan
           s == [Stage(c) EXCEPT !.status = task[Key(Stage(c))].status]
           place == IF plan.type = "global" THEN plan.next ELSE run.next
           ch == [step |-> "starttask"]
<1>1. call[c].step = "commit" /\ CallSound(c) /\ PlanSound(c) /\ RowsTyped /\ SobolContiguous
  BY DEF CommitStage, At, ResearchInv, RowsSound, CallSound
<1>2. UNCHANGED <<task, points, rotten>>
  BY DEF CommitStage
<1>3. CASE Returned(c) /\ UNCHANGED <<run, stages>>
  BY <1>2, <1>3, CallAlone, ReturnedSound, OneCall
<1>4. CASE /\ Len(stages) = call[c].ordinal
           /\ IF call[c].kind = "start" THEN run = NoRun ELSE PlanIsCurrent(plan)
           /\ run' = [status |-> "running", exploration |-> "running", next |-> place]
           /\ stages' = Append(stages, s)
           /\ Go(c, ch)
  <2>1. PICK n \in Nat : n = Len(stages)
    BY <1>1 DEF RowsTyped
  <2>2. /\ s.type = plan.type /\ s.points = plan.points /\ s.ordinal = n /\ s.from = plan.from
        /\ s.next = plan.next /\ s.completedAt = FALSE
        /\ Key(s) = <<plan.type, plan.points, n>> /\ Key(s) \in DOMAIN task /\ s \in StageRow
    <3>1. Ordinal(c) = n
      BY <1>1, <1>4, <2>1 DEF Ordinal, At
    <3>2. Stage(c) = [type |-> plan.type, points |-> plan.points, ordinal |-> n,
                      from |-> plan.from, next |-> plan.next, status |-> "planned", completedAt |-> FALSE]
      BY <3>1 DEF Stage
    <3>3. Key(Stage(c)) = <<plan.type, plan.points, n>>
      BY <3>2 DEF Key
    <3>4. Key(Stage(c)) \in DOMAIN task
      BY <1>1, <1>4, <2>1, <3>3 DEF PlanSound
    <3>5. task[Key(Stage(c))].status \in TaskStatuses
      BY <1>1, <3>4 DEF RowsTyped
    <3> DEFINE status == task[Key(Stage(c))].status
    <3> HIDE DEF status
    <3>6. s = [type |-> plan.type, points |-> plan.points, ordinal |-> n, from |-> plan.from,
               next |-> plan.next, status |-> status, completedAt |-> FALSE]
      <4>1. s = [Stage(c) EXCEPT !.status = status]
        BY DEF status
      <4>2. PICK r : r = Stage(c)
        OBVIOUS
      <4> HIDE DEF s, plan
      <4>3. s = [r EXCEPT !.status = status]
        BY <4>1, <4>2
      <4>4. r = [type |-> plan.type, points |-> plan.points, ordinal |-> n,
                 from |-> plan.from, next |-> plan.next, status |-> "planned", completedAt |-> FALSE]
        BY <3>2, <4>2
      <4> QED
        BY <4>3, <4>4
    <3>7. s \in StageRow
      BY <1>1, <3>5, <3>6 DEF StageRow, PlanSound, TaskStatuses, status
    <3> HIDE DEF s
    <3> QED
      BY <3>3, <3>4, <3>6, <3>7 DEF Key
  <2> HIDE DEF s
  <2>3. /\ stages' \in Seq(StageRow) /\ Len(stages') = n + 1 /\ DOMAIN stages' = 1 .. n + 1
        /\ DOMAIN stages = 1 .. n /\ stages'[n + 1] = s
        /\ \A i \in 1 .. n : stages'[i] = stages[i]
    BY <1>1, <1>4, <2>1, <2>2 DEF RowsTyped
  <2>4. run \in RunRow /\ run.next \in Nat /\ place \in 0 .. MaxPoint + 1
    BY <1>1, ResearchAssumption DEF RowsTyped, RunRow, PlanSound
  <2>5. /\ run'.status = "running" /\ run'.exploration = "running" /\ run'.next = place /\ run' \in RunRow
        /\ run' # NoRun /\ ~Missing'
    BY <1>4, <2>1, <2>3, <2>4 DEF RunRow, NoRun, Missing
  <2>6. RowsTyped'
    BY <1>1, <1>2, <2>3, <2>5 DEF RowsTyped
  <2>7. plan.type = "global" =>
          plan.from \in Nat /\ plan.next \in Nat /\ plan.from <= plan.next
          /\ (IF run = NoRun THEN plan.from = 0 ELSE plan.from = run.next)
    <3>1. CASE call[c].kind = "start"
      BY <1>1, <1>4, <3>1, ResearchAssumption DEF PlanSound
    <3>2. CASE call[c].kind # "start"
      BY <1>1, <1>4, <3>2, ResearchAssumption DEF PlanSound, PlanIsCurrent, CallSound, Early, RowsTyped
    <3> QED
      BY <3>1, <3>2
  <2>8. run = NoRun => plan.type = "global" /\ n = 0
    <3> SUFFICES ASSUME run = NoRun PROVE plan.type = "global" /\ n = 0
      OBVIOUS
    <3>1. Missing /\ call[c].kind = "start"
      BY <1>1 DEF RowsTyped, CallSound, Early
    <3> QED
      BY <1>1, <2>1, <3>1 DEF Missing, PlanSound
  <2>9. SobolContiguous'
    <3> DEFINE globals == {i \in 1 .. n : stages[i].type = "global"}
               later == {i \in 1 .. n + 1 : stages'[i].type = "global"}
    <3>1. /\ \A i, j \in globals : i < j => stages[i].next <= stages[j].from
          /\ \A j \in globals : stages[j].from = 0 \/ \E i \in globals : i < j /\ stages[i].next = stages[j].from
          /\ \A i \in globals : stages[i].next <= run.next
          /\ run # NoRun => \E i \in globals : stages[i].next = run.next
      BY <1>1, <2>3 DEF SobolContiguous
    <3>2. \A i \in later : i \in globals \/ (i = n + 1 /\ plan.type = "global")
      BY <2>2, <2>3
    <3>3. globals \subseteq later /\ (plan.type = "global" => n + 1 \in later)
      BY <2>2, <2>3
    <3>4. \A i \in globals : i \in 1 .. n /\ stages'[i] = stages[i] /\ stages[i].next \in Nat
      <4>1. \A i \in 1 .. n : stages[i] \in StageRow
        BY <1>1, <2>3 DEF RowsTyped
      <4>2. \A r \in StageRow : r.next \in Nat
        BY ResearchAssumption DEF StageRow
      <4> QED
        BY <2>3, <4>1, <4>2
    <3>5. stages'[n + 1].from = plan.from /\ stages'[n + 1].next = plan.next
      BY <2>2, <2>3
    <3> HIDE DEF globals, later, plan
    <3>6. \A i, j \in later : i < j => stages'[i].next <= stages'[j].from
      <4> SUFFICES ASSUME NEW i \in later, NEW j \in later, i < j PROVE stages'[i].next <= stages'[j].from
        OBVIOUS
      <4>1. i \in globals
        BY <3>2, <3>4
      <4>2. CASE j \in globals
        BY <3>1, <3>4, <4>1, <4>2
      <4>3. CASE j = n + 1 /\ plan.type = "global"
        <5>1. run # NoRun
          BY <2>8, <3>4, <4>1
        <5> QED
          BY <2>7, <3>1, <3>4, <3>5, <4>1, <4>3, <5>1
      <4> QED
        BY <3>2, <4>2, <4>3
    <3>7. \A j \in later : stages'[j].from = 0 \/ \E i \in later : i < j /\ stages'[i].next = stages'[j].from
      <4> SUFFICES ASSUME NEW j \in later, stages'[j].from # 0
                   PROVE  \E i \in later : i < j /\ stages'[i].next = stages'[j].from
        OBVIOUS
      <4>1. CASE j \in globals
        <5>1. PICK i \in globals : i < j /\ stages[i].next = stages[j].from
          BY <3>1, <3>4, <4>1
        <5> QED
          BY <3>3, <3>4, <4>1, <5>1
      <4>2. CASE j = n + 1 /\ plan.type = "global"
        <5>1. run # NoRun /\ plan.from = run.next
          BY <2>7, <3>5, <4>2
        <5>2. PICK i \in globals : stages[i].next = run.next
          BY <3>1, <5>1
        <5>3. i < n + 1
          BY <3>4
        <5> QED
          BY <3>3, <3>4, <3>5, <4>2, <5>1, <5>2, <5>3
      <4> QED
        BY <3>2, <4>1, <4>2
    <3>8. \A i \in later : stages'[i].next <= run'.next
      <4> SUFFICES ASSUME NEW i \in later PROVE stages'[i].next <= run'.next
        OBVIOUS
      <4>1. CASE i \in globals
        <5>1. stages[i].next <= run.next /\ run # NoRun
          BY <2>8, <3>1, <3>4, <4>1
        <5>2. run.next <= run'.next
          BY <2>4, <2>5, <2>7, <5>1
        <5>3. run'.next \in Nat
          BY <2>5, ResearchAssumption DEF RunRow
        <5> QED
          BY <2>4, <3>4, <4>1, <5>1, <5>2, <5>3
      <4>2. CASE i = n + 1 /\ plan.type = "global"
        BY <2>5, <2>7, <3>5, <4>2
      <4> QED
        BY <3>2, <4>1, <4>2
    <3>9. \E i \in later : stages'[i].next = run'.next
      <4>1. CASE plan.type = "global"
        BY <2>5, <3>3, <3>5, <4>1
      <4>2. CASE plan.type # "global"
        <5>1. PICK i \in globals : stages[i].next = run.next
          BY <2>8, <3>1, <4>2
        <5> QED
          BY <2>5, <3>3, <3>4, <4>2, <5>1
      <4> QED
        BY <4>1, <4>2
    <3>10. {i \in DOMAIN stages' : stages'[i].type = "global"} = later
      BY <2>3 DEF later
    <3> QED
      BY <3>6, <3>7, <3>8, <3>9, <3>10 DEF SobolContiguous
  <2>10. \A i \in DOMAIN stages' : StageSound(i)'
    <3>1. \A i \in 1 .. n : StageSound(i)'
      BY <1>2, <2>3 DEF ResearchInv, RowsSound, StageSound, Key
    <3>2. StageSound(n + 1)'
      BY <1>2, <2>2, <2>3 DEF StageSound, Key
    <3> QED
      BY <2>1, <2>3, <3>1, <3>2
  <2>11. RowsSound'
    <3>1. \A k \in DOMAIN task : TaskSound(k)'
      BY <1>2 DEF ResearchInv, RowsSound, TaskSound
    <3> QED
      BY <1>2, <2>5, <2>6, <2>9, <2>10, <3>1 DEF RowsSound
  <2>12. Grows
    BY <1>2, <2>1, <2>3 DEF Grows
  <2>13. call'[c] = [f \in CallFields |-> IF f \in DOMAIN ch THEN ch[f] ELSE call[c][f]]
    BY <1>4, Went
  <2>14. /\ DOMAIN call'[c] = CallFields /\ call'[c].step = "starttask" /\ call'[c].ordinal = call[c].ordinal
         /\ call'[c].plan = plan
         /\ call'[c].kind = call[c].kind /\ call'[c].status = call[c].status /\ call'[c].next = call[c].next
    BY <2>13 DEF CallFields
  <2>15. SyncSound(c)'
    BY <2>14 DEF SyncSound
  <2>16. PlanSound(c)'
    BY <1>1, <1>2, <2>14 DEF PlanSound
  <2>17. CallSound(c)'
    BY <1>1, <2>5, <2>14, <2>15, <2>16 DEF CallSound, Early
  <2> QED
    BY <1>4, <2>11, <2>12, <2>17, Went, OneCall
<1> QED
  BY <1>3, <1>4 DEF CommitStage

LEMMA StartTaskSound ==
  ASSUME ResearchInv, NEW c \in Callers, StartTask(c)
  PROVE  ResearchInv'
<1> DEFINE ch == [step |-> "sync", kind |-> "get", status |-> run.status, plan |-> NoPlan, ordinal |-> 0]
<1>1. call[c].step = "starttask" /\ CallSound(c) /\ RowsTyped
  BY DEF StartTask, At, ResearchInv, RowsSound
<1>2. UNCHANGED <<run, stages, points, rotten>> /\ Go(c, ch)
  BY DEF StartTask
<1>3. RowsSound' /\ Grows
  <2>1. PICK k : k = Key(Stage(c))
    OBVIOUS
  <2>2. CASE task[k].status = "planned" /\ task' = [task EXCEPT ![k].status = "queued"]
    BY <1>2, <2>2, TaskMoves DEF TaskStatuses
  <2>3. CASE UNCHANGED task
    BY <1>2, <2>3, CallAlone
  <2> QED
    BY <2>1, <2>2, <2>3 DEF StartTask
<1>4. call'[c] = [f \in CallFields |-> IF f \in DOMAIN ch THEN ch[f] ELSE call[c][f]]
  BY <1>2, Went
<1>5. /\ DOMAIN call'[c] = CallFields /\ call'[c].step = "sync" /\ call'[c].kind = "get"
      /\ call'[c].status = run.status /\ call'[c].next = call[c].next
  BY <1>4 DEF CallFields
<1>6. ~Missing /\ ~Missing' /\ run.status # "none" /\ run \in RunRow
  BY <1>1, <1>2 DEF CallSound, Early, Missing, RowsTyped
<1>7. SyncSound(c)'
  BY <1>5 DEF SyncSound
<1>8. PlanSound(c)'
  BY <1>5 DEF PlanSound
<1>9. CallSound(c)'
  BY <1>1, <1>5, <1>6, <1>7, <1>8 DEF CallSound, Early, RunRow
<1> QED
  BY <1>2, <1>3, <1>9, Went, OneCall
-----------------------------------------------------------------------------
(* stopRun and ResumeRun *)

\* The request moves to a step that needs nothing but the run.
LEMMA StepOnly ==
  ASSUME ResearchInv, NEW c \in Callers, RowsSound', Grows, ~Missing, stages' = stages,
         NEW step \in {"stopped", "resumed"}, step = "stopped" => call[c].kind = "paused",
         Go(c, [step |-> step])
  PROVE  ResearchInv'
<1> DEFINE ch == [step |-> step]
<1>1. CallSound(c)
  BY DEF ResearchInv
<1>2. call'[c] = [f \in CallFields |-> IF f \in DOMAIN ch THEN ch[f] ELSE call[c][f]]
  BY Went
<1>3. /\ DOMAIN call'[c] = CallFields /\ call'[c].step = step /\ call'[c].kind = call[c].kind
      /\ call'[c].status = call[c].status /\ call'[c].next = call[c].next
  BY <1>2 DEF CallFields
<1>4. SyncSound(c)'
  BY <1>3 DEF SyncSound
<1>5. PlanSound(c)'
  BY <1>3 DEF PlanSound
<1>6. CallSound(c)'
  BY <1>1, <1>3, <1>4, <1>5 DEF CallSound, Early, Missing
<1> QED
  BY <1>6, Went, OneCall

\* The request goes on to look at the run.
LEMMA LooksAtRun ==
  ASSUME ResearchInv, NEW c \in Callers, RowsSound', Grows, ~Missing, stages' = stages,
         NEW status \in {"running", "completed", "paused", "cancelled"},
         Go(c, [step |-> "sync", kind |-> "get", status |-> status])
  PROVE  ResearchInv'
<1> DEFINE ch == [step |-> "sync", kind |-> "get", status |-> status]
<1>1. CallSound(c)
  BY DEF ResearchInv
<1>2. call'[c] = [f \in CallFields |-> IF f \in DOMAIN ch THEN ch[f] ELSE call[c][f]]
  BY Went
<1>3. /\ DOMAIN call'[c] = CallFields /\ call'[c].step = "sync" /\ call'[c].kind = "get"
      /\ call'[c].status = status /\ call'[c].next = call[c].next
  BY <1>2 DEF CallFields
<1>4. SyncSound(c)'
  BY <1>3 DEF SyncSound
<1>5. PlanSound(c)'
  BY <1>3 DEF PlanSound
<1>6. CallSound(c)'
  BY <1>1, <1>3, <1>4, <1>5 DEF CallSound, Early, Missing
<1> QED
  BY <1>6, Went, OneCall

LEMMA StopTaskSound ==
  ASSUME ResearchInv, NEW c \in Callers, StopTask(c)
  PROVE  ResearchInv'
<1>1. call[c].step = "stop" /\ CallSound(c) /\ ~Missing
  BY DEF StopTask, At, ResearchInv, CallSound, Early
<1>2. UNCHANGED <<run, stages, points, rotten>> /\ Go(c, [step |-> "stopped"])
  BY DEF StopTask
<1>3. RowsSound' /\ Grows
  <2>1. PICK k : k = Key(stages[Len(stages)])
    OBVIOUS
  <2>2. CASE task[k].status \in {"queued", "planned"} /\ task' = [task EXCEPT ![k].status = "cancelled"]
    BY <1>2, <2>2, TaskMoves DEF TaskStatuses
  <2>3. CASE UNCHANGED task
    BY <1>2, <2>3, CallAlone
  <2> QED
    BY <2>1, <2>2, <2>3 DEF StopTask
<1> QED
  BY <1>1, <1>2, <1>3, StepOnly DEF CallSound

LEMMA StopWritesSound ==
  ASSUME ResearchInv, NEW c \in Callers, StopWrites(c)
  PROVE  ResearchInv'
<1>1. call[c].step = "stopped" /\ CallSound(c) /\ ~Missing
  BY DEF StopWrites, At, ResearchInv, CallSound, Early
<1>2. call[c].kind = "paused"
  BY <1>1 DEF CallSound
<1>3. run' = [run EXCEPT !.status = "paused", !.exploration = "paused"] /\ UNCHANGED <<stages, task, points, rotten>>
  BY <1>2 DEF StopWrites
<1>4. RowsSound' /\ Grows
  BY <1>1, <1>3, RunMoves
<1> QED
  BY <1>4, ReturnedSound, OneCall DEF StopWrites

LEMMA ResumeSound ==
  ASSUME ResearchInv, NEW c \in Callers, Resume(c)
  PROVE  ResearchInv'
<1>1. call[c].step = "resume" /\ ~Missing /\ RowsTyped
  BY DEF Resume, At, ResearchInv, RowsSound, CallSound, Early
<1>2. UNCHANGED <<run, stages, points, rotten>>
  BY DEF Resume
<1>3. UNCHANGED task => RowsSound' /\ Grows
  BY <1>2, CallAlone
<1>4. CASE Go(c, [step |-> "sync", kind |-> "get", status |-> run.status]) /\ UNCHANGED task
  <2>1. run.status \in {"running", "completed", "paused", "cancelled"}
    BY <1>1 DEF RowsTyped, RunRow
  <2> QED
    BY <1>1, <1>2, <1>3, <1>4, <2>1, LooksAtRun
<1>5. CASE Go(c, [at |-> call[c].at - 1]) /\ UNCHANGED task
  <2> DEFINE ch == [at |-> call[c].at - 1]
  <2>1. call'[c] = [f \in CallFields |-> IF f \in DOMAIN ch THEN ch[f] ELSE call[c][f]]
    BY <1>5, Went
  <2>2. /\ DOMAIN call'[c] = CallFields /\ call'[c].step = "resume"
        /\ call'[c].status = call[c].status /\ call'[c].next = call[c].next
    BY <1>1, <2>1 DEF CallFields
  <2>3. SyncSound(c)'
    BY <2>2 DEF SyncSound
  <2>4. PlanSound(c)'
    BY <2>2 DEF PlanSound
  <2>5. CallSound(c)'
    BY <1>1, <1>2, <2>2, <2>3, <2>4 DEF ResearchInv, CallSound, Early, Missing
  <2> QED
    BY <1>3, <1>5, <2>5, Went, OneCall
<1>6. CASE Go(c, [step |-> "resumed"]) /\ UNCHANGED task
  BY <1>1, <1>2, <1>3, <1>6, StepOnly
<1>7. ASSUME NEW k, task[k].status \in Stopped \cup {"planned"}, task' = [task EXCEPT ![k].status = "queued"],
             Go(c, [step |-> "resumed"])
      PROVE  ResearchInv'
  <2>1. RowsSound' /\ Grows
    BY <1>2, <1>7, TaskMoves DEF TaskStatuses, Stopped
  <2> QED
    BY <1>1, <1>2, <1>7, <2>1, StepOnly
<1>8. CASE Returned(c) /\ UNCHANGED task
  BY <1>3, <1>8, ReturnedSound, OneCall
<1>9. PICK k : k = Key(stages[call[c].at])
  OBVIOUS
<1>10. \/ Go(c, [step |-> "sync", kind |-> "get", status |-> run.status]) /\ UNCHANGED task
       \/ Go(c, [at |-> call[c].at - 1]) /\ UNCHANGED task
       \/ /\ task[k].status \in Stopped \cup {"planned"} /\ task' = [task EXCEPT ![k].status = "queued"]
          /\ Go(c, [step |-> "resumed"])
       \/ Go(c, [step |-> "resumed"]) /\ UNCHANGED task
       \/ Returned(c) /\ UNCHANGED task
  BY <1>9, Zenon DEF Resume
<1> QED
  BY <1>4, <1>5, <1>6, <1>7, <1>8, <1>10

LEMMA ResumeWritesSound ==
  ASSUME ResearchInv, NEW c \in Callers, ResumeWrites(c)
  PROVE  ResearchInv'
<1>1. ~Missing
  BY DEF ResumeWrites, At, ResearchInv, CallSound, Early
<1>2. run' = [run EXCEPT !.status = "running", !.exploration = "running"] /\ UNCHANGED <<stages, task, points, rotten>>
  BY DEF ResumeWrites
<1>3. RowsSound' /\ Grows
  BY <1>1, <1>2, RunMoves
<1> QED
  BY <1>1, <1>2, <1>3, LooksAtRun DEF ResumeWrites
-----------------------------------------------------------------------------
(* Compute tasks *)

LEMMA SettlesSound ==
  ASSUME ResearchInv, NEW k \in DOMAIN task, TaskSettles(k)
  PROVE  ResearchInv'
<1>1. PICK valid \in SUBSET k[2] :
        task' = [task EXCEPT ![k] = [status |-> IF valid = k[2] THEN "completed" ELSE "failed", valid |-> valid]]
  BY DEF TaskSettles
<1>2. task[k].status = "queued" /\ UNCHANGED <<run, stages, points, rotten, call>>
  BY DEF TaskSettles
<1>3. /\ DOMAIN task' = DOMAIN task /\ \A j \in DOMAIN task \ {k} : task'[j] = task[j]
      /\ task'[k] = [status |-> IF valid = k[2] THEN "completed" ELSE "failed", valid |-> valid]
  BY <1>1
<1>4. /\ DOMAIN task'[k] = {"status", "valid"} /\ task'[k].status \in TaskStatuses
      /\ task'[k].status = "completed" => k[2] \subseteq task'[k].valid
  BY <1>3 DEF TaskStatuses
<1>5. \A j \in DOMAIN task' : DOMAIN task'[j] = {"status", "valid"} /\ task'[j].status \in TaskStatuses /\ TaskSound(j)'
  BY <1>2, <1>3, <1>4 DEF ResearchInv, RowsSound, RowsTyped, TaskSound
<1>6. RowsSound' /\ Grows
  BY <1>2, <1>3, <1>5, TaskStep DEF ResearchInv, RowsSound, RowsTyped
<1> QED
  BY <1>2, <1>6, CallStays DEF ResearchInv, RowsSound

LEMMA RotSound ==
  ASSUME ResearchInv, NEW k \in DOMAIN task, Rot(k)
  PROVE  ResearchInv'
<1>1. PICK p \in k[2] : task' = [task EXCEPT ![k] = [status |-> "invalidated", valid |-> @.valid \ {p}]]
  BY DEF Rot
<1>2. rotten' = rotten + 1 /\ rotten \in Nat /\ UNCHANGED <<run, stages, points, call>>
  BY DEF Rot, ResearchInv, RowsSound, RowsTyped
<1>3. /\ DOMAIN task' = DOMAIN task /\ \A j \in DOMAIN task \ {k} : task'[j] = task[j]
      /\ task'[k] = [status |-> "invalidated", valid |-> task[k].valid \ {p}]
  BY <1>1
<1>4. rotten' \in Nat /\ rotten' # 0
  BY <1>2
<1>5. DOMAIN task'[k] = {"status", "valid"} /\ task'[k].status \in TaskStatuses
  BY <1>3 DEF TaskStatuses
<1>6. \A j \in DOMAIN task' : DOMAIN task'[j] = {"status", "valid"} /\ task'[j].status \in TaskStatuses /\ TaskSound(j)'
  BY <1>3, <1>4, <1>5 DEF ResearchInv, RowsSound, RowsTyped, TaskSound
<1>7. RowsSound' /\ Grows
  BY <1>2, <1>3, <1>4, <1>6, TaskStep
<1> QED
  BY <1>2, <1>7, CallStays DEF ResearchInv, RowsSound

LEMMA ResearchSteps == ResearchInv /\ [ResearchNext]_researchVars => ResearchInv'
<1> SUFFICES ASSUME ResearchInv, [ResearchNext]_researchVars PROVE ResearchInv'
  OBVIOUS
<1>1. ASSUME NEW c \in Callers, RunRequest(c) PROVE ResearchInv'
  BY <1>1, RequestSound
<1>2. ASSUME NEW c \in Callers, Fails(c) PROVE ResearchInv'
  BY <1>2, CallAlone, ReturnedSound, OneCall DEF Fails
<1>3. ASSUME NEW c \in Callers, SyncBegins(c) PROVE ResearchInv'
  BY <1>3, SyncBeginsSound
<1>4. ASSUME NEW c \in Callers, SyncTask(c) PROVE ResearchInv'
  BY <1>4, SyncTaskSound
<1>5. ASSUME NEW c \in Callers, SyncPoints(c) PROVE ResearchInv'
  BY <1>5, SyncPointsSound
<1>6. ASSUME NEW c \in Callers, SyncStage(c) PROVE ResearchInv'
  BY <1>6, SyncStageSound
<1>7. ASSUME NEW c \in Callers, SyncRun(c) PROVE ResearchInv'
  BY <1>7, SyncRunSound
<1>8. ASSUME NEW c \in Callers, Plan(c) PROVE ResearchInv'
  BY <1>8, PlanIsSound
<1>9. ASSUME NEW c \in Callers, CreateTask(c) PROVE ResearchInv'
  BY <1>9, CreateTaskSound
<1>10. ASSUME NEW c \in Callers, CommitStage(c) PROVE ResearchInv'
  BY <1>10, CommitStageSound
<1>11. ASSUME NEW c \in Callers, StartTask(c) PROVE ResearchInv'
  BY <1>11, StartTaskSound
<1>12. ASSUME NEW c \in Callers, StopTask(c) PROVE ResearchInv'
  BY <1>12, StopTaskSound
<1>13. ASSUME NEW c \in Callers, StopWrites(c) PROVE ResearchInv'
  BY <1>13, StopWritesSound
<1>14. ASSUME NEW c \in Callers, Resume(c) PROVE ResearchInv'
  BY <1>14, ResumeSound
<1>15. ASSUME NEW c \in Callers, ResumeWrites(c) PROVE ResearchInv'
  BY <1>15, ResumeWritesSound
<1>16. ASSUME NEW k \in DOMAIN task, TaskSettles(k) PROVE ResearchInv'
  BY <1>16, SettlesSound
<1>17. ASSUME NEW k \in DOMAIN task, Rot(k) PROVE ResearchInv'
  BY <1>17, RotSound
<1>18. CASE UNCHANGED researchVars
  <2>1. UNCHANGED <<run, stages, task, points, rotten>> /\ call' = call
    BY <1>18 DEF researchVars
  <2>2. RowsSound' /\ Grows
    BY <2>1, CallAlone
  <2> QED
    BY <2>1, <2>2, CallStays DEF ResearchInv, RowsSound
<1> QED
  BY <1>1, <1>2, <1>3, <1>4, <1>5, <1>6, <1>7, <1>8, <1>9, <1>10, <1>11, <1>12, <1>13, <1>14, <1>15,
     <1>16, <1>17, <1>18 DEF ResearchNext

LEMMA ResearchInvHolds == ResearchSpec => []ResearchInv
BY ResearchStart, ResearchSteps, PTL DEF ResearchSpec

\* Whoever plans stages at the same time, the global stages of a run take the
\* Sobol sequence up one where the other ended, for every size of a batch.
THEOREM StagesAreContiguous == ResearchSpec => []SobolContiguous
<1>1. ResearchInv => SobolContiguous
  BY DEF ResearchInv, RowsSound
<1> QED
  BY <1>1, ResearchInvHolds, PTL

\* A stage that was recorded as completed has all its points evaluated, and a
\* run at a checkpoint has such a first stage, although the status that is
\* written was read several statements before.
THEOREM CheckpointsHavePoints == ResearchSpec => []CheckpointHasPoints
<1>1. ResearchInv => CheckpointHasPoints
  BY DEF ResearchInv, RowsSound, StageSound, CheckpointHasPoints, FirstIsDone
<1> QED
  BY <1>1, ResearchInvHolds, PTL
-----------------------------------------------------------------------------
(* Genetic search.  Once: what is observed is reserved in the epoch that    *)
(* runs, what was evaluated is observed, and a gene without fitness was     *)
(* proposed outside of both and enters the observations just before its     *)
(* evaluation (OnceInv).                                                    *)
(*                                                                          *)
(* Best: the fittest is always in the population, since the elites keep one *)
(* of those who tie for it, and the tracked best is never above it (Peak).  *)
(* A cancelled evaluation may be wrong, but then nothing is saved.          *)

\* The fields of epoch, with no claim about their values.
EpochShape ==
  epoch = [step |-> epoch.step, reserved |-> epoch.reserved, population |-> epoch.population,
           generation |-> epoch.generation, best |-> epoch.best, patience |-> epoch.patience,
           ramps |-> epoch.ramps, highest |-> epoch.highest]

FreshGenes == {i.gene : i \in Fresh}

SearchTyped ==
  /\ EpochShape
  /\ epoch.step \in {"idle", "reserve", "evaluate", "select", "breed", "finish", "saved"}
  /\ \A i \in epoch.population : i.gene \in Genes
  /\ evaluated \in [Genes -> {0, 1}]

\* What is evaluated is observed, and what is observed or proposed is reserved.
Known ==
  /\ \A g \in Genes : evaluated[g] = 1 => g \in observed
  /\ epoch.step # "idle" => observed \cup FreshGenes \subseteq epoch.reserved

\* Genes without fitness exist between proposal and evaluation only.
FreshIsNew ==
  /\ epoch.step = "reserve" => FreshGenes \cap observed = {}
  /\ epoch.step = "evaluate" => \A g \in FreshGenes : g \in observed /\ evaluated[g] = 0
  /\ epoch.step \notin {"reserve", "evaluate"} => Fresh = {}

OnceInv == SearchTyped /\ Known /\ FreshIsNew
-----------------------------------------------------------------------------
\* The initial state satisfies the invariant.
LEMMA InitIInv == SearchInit => OnceInv
BY DEF SearchInit, OnceInv, SearchTyped, EpochShape, Known, FreshIsNew, FreshGenes, Fresh, NoEpoch, Nobody

\* Back to idle, with nothing evaluated.
LEMMA IdleIInv ==
  ASSUME OnceInv, epoch' = NoEpoch, observed \subseteq observed', UNCHANGED evaluated
  PROVE  OnceInv'
BY DEF OnceInv, SearchTyped, EpochShape, Known, FreshIsNew, FreshGenes, Fresh, NoEpoch, Nobody

\* A step that leaves the population alone where it has no fresh gene.
LEMMA PassIInv ==
  ASSUME OnceInv, EpochShape', epoch.step \notin {"idle", "reserve", "evaluate"},
         epoch'.step \in {"select", "breed", "finish", "saved"},
         epoch'.reserved = epoch.reserved, epoch'.population = epoch.population,
         UNCHANGED <<observed, evaluated>>
  PROVE  OnceInv'
BY DEF OnceInv, SearchTyped, Known, FreshIsNew, FreshGenes, Fresh

\* A population of a few old genes and of proposals from outside what is known.
LEMMA ProposeIInv ==
  ASSUME OnceInv, NEW known, observed \subseteq known, NEW old, NEW p, p \subseteq Genes \ known,
         \A i \in old : i.gene \in Genes /\ i.fitness # Unevaluated,
         EpochShape', epoch'.step = "reserve", epoch'.reserved = known \cup p,
         epoch'.population = old \cup {Individual(g, Unevaluated) : g \in p},
         UNCHANGED <<observed, evaluated>>
  PROVE  OnceInv'
<1>1. \A i \in Fresh' : i.gene \in p
  BY DEF Fresh, Individual
<1>2. \A i \in epoch'.population : i.gene \in Genes
  BY DEF Individual
<1> QED
  BY <1>1, <1>2 DEF OnceInv, SearchTyped, Known, FreshIsNew, FreshGenes
-----------------------------------------------------------------------------
LEMMA RunEpochIInv ==
  ASSUME OnceInv, NEW kept, RunEpoch(kept)
  PROVE  OnceInv'
<1>1. CASE epoch' = NoEpoch
  BY <1>1, IdleIInv DEF RunEpoch
<1>2. ASSUME NEW p \in Proposals(PopSize, Loaded(kept)),
             epoch' = [NoEpoch EXCEPT !.step = "reserve", !.reserved = Loaded(kept) \cup p,
                                      !.population = {Individual(g, Unevaluated) : g \in p}]
      PROVE  OnceInv'
  <2> DEFINE known == Loaded(kept)
             old == {i \in epoch.population : FALSE}
  <2>1. /\ epoch'.step = "reserve" /\ epoch'.reserved = known \cup p
        /\ epoch'.population = old \cup {Individual(g, Unevaluated) : g \in p}
        /\ EpochShape'
    BY <1>2 DEF NoEpoch, EpochShape
  <2>2. observed \subseteq known /\ p \subseteq Genes \ known
    BY DEF Loaded, Proposals
  <2>3. UNCHANGED <<observed, evaluated>>
    BY DEF RunEpoch
  <2>4. \A i \in old : i.gene \in Genes /\ i.fitness # Unevaluated
    OBVIOUS
  <2> HIDE DEF known, old
  <2> QED
    BY <2>1, <2>2, <2>3, <2>4, ProposeIInv
<1> QED
  BY <1>1, <1>2 DEF RunEpoch

LEMMA NextGenerationIInv == OnceInv /\ NextGeneration => OnceInv'
<1> SUFFICES ASSUME OnceInv, NextGeneration PROVE OnceInv'
  OBVIOUS
<1>0. epoch.step = "breed" /\ UNCHANGED <<observed, evaluated>>
  BY DEF NextGeneration
<1>1. CASE epoch' = NoEpoch
  BY <1>0, <1>1, IdleIInv
<1>2. ASSUME NEW elite \in Elites(epoch.population),
             NEW p \in Proposals(PopSize - Cardinality(elite), epoch.reserved),
             epoch' = [epoch EXCEPT
               !.step = "reserve", !.generation = @ + 1, !.reserved = @ \cup p,
               !.population = elite \cup {Individual(g, Unevaluated) : g \in p}]
      PROVE  OnceInv'
  <2>1. /\ epoch'.step = "reserve" /\ epoch'.reserved = epoch.reserved \cup p
        /\ epoch'.population = elite \cup {Individual(g, Unevaluated) : g \in p}
        /\ EpochShape'
    BY <1>2 DEF OnceInv, SearchTyped, EpochShape
  <2>2. observed \subseteq epoch.reserved /\ p \subseteq Genes \ epoch.reserved
    BY <1>0 DEF Proposals, OnceInv, Known
  <2>3. \A i \in elite : i.gene \in Genes /\ i.fitness # Unevaluated
    BY <1>0 DEF Elites, OnceInv, SearchTyped, FreshIsNew, Fresh
  <2> QED
    BY <1>0, <2>1, <2>2, <2>3, ProposeIInv
<1> QED
  BY <1>1, <1>2 DEF NextGeneration

LEMMA ReserveIInv == OnceInv /\ ReserveCandidates => OnceInv'
<1> SUFFICES ASSUME OnceInv, ReserveCandidates PROVE OnceInv'
  OBVIOUS
<1>0. epoch.step = "reserve" /\ UNCHANGED evaluated
  BY DEF ReserveCandidates
<1>1. CASE epoch' = NoEpoch /\ observed' = observed
  BY <1>0, <1>1, IdleIInv
<1>2. CASE observed' = Reserved /\ epoch' = [epoch EXCEPT !.step = "evaluate"]
  <2>1. /\ epoch'.step = "evaluate" /\ epoch'.reserved = epoch.reserved
        /\ epoch'.population = epoch.population /\ EpochShape'
    BY <1>2 DEF OnceInv, SearchTyped, EpochShape
  <2>2. Fresh' = Fresh /\ FreshGenes' = FreshGenes
    BY <2>1 DEF Fresh, FreshGenes
  <2>3. observed' = observed \cup FreshGenes
    BY <1>2 DEF Reserved, FreshGenes
  <2>4. SearchTyped'
    BY <1>0, <2>1 DEF OnceInv, SearchTyped
  <2>5. \A g \in FreshGenes : g \in Genes /\ evaluated[g] = 0
    BY <1>0 DEF OnceInv, SearchTyped, Known, FreshIsNew, FreshGenes, Fresh
  <2> QED
    BY <1>0, <2>1, <2>2, <2>3, <2>4, <2>5 DEF OnceInv, Known, FreshIsNew
<1> QED
  BY <1>1, <1>2 DEF ReserveCandidates

LEMMA EvaluateIInv ==
  ASSUME OnceInv, Evaluate
  PROVE  OnceInv'
<1>1. PICK failing \in SUBSET Fresh :
        /\ \E leader : epoch' = [epoch EXCEPT
             !.step = "select",
             !.population = (epoch.population \ Fresh)
                 \cup {Individual(i.gene, IF i \in failing THEN FatalFitnessScore ELSE Score[i.gene]) : i \in Fresh},
             !.best = IF @ = Nobody THEN leader ELSE @,
             !.highest = IF leader.fitness > @ THEN leader.fitness ELSE @]
        /\ evaluated' = [g \in Genes |-> IF \E i \in Fresh \ failing : i.gene = g
                                         THEN evaluated[g] + 1 ELSE evaluated[g]]
  BY DEF Evaluate
<1>2. epoch.step = "evaluate" /\ observed' = observed
  BY DEF Evaluate
<1>3. /\ epoch'.step = "select" /\ epoch'.reserved = epoch.reserved /\ EpochShape'
      /\ epoch'.population = (epoch.population \ Fresh)
           \cup {Individual(i.gene, IF i \in failing THEN FatalFitnessScore ELSE Score[i.gene]) : i \in Fresh}
  BY <1>1 DEF OnceInv, SearchTyped, EpochShape
<1>4. \A i \in Fresh : i.gene \in Genes /\ i.gene \in observed /\ evaluated[i.gene] = 0
  BY <1>2 DEF OnceInv, SearchTyped, FreshIsNew, FreshGenes, Fresh
<1>5. \A i \in epoch'.population : i.gene \in Genes /\ i.fitness # Unevaluated
  BY <1>3, <1>4, SearchAssumption DEF Individual, Fresh, FatalFitnessScore, Unevaluated, OnceInv, SearchTyped, Genes
<1>6. Fresh' = {}
  BY <1>5 DEF Fresh
<1>7. \A g \in Genes : evaluated'[g] \in {0, 1} /\ (evaluated'[g] = 1 => g \in observed)
  BY <1>1, <1>4 DEF OnceInv, SearchTyped, Known
<1>8. SearchTyped'
  BY <1>1, <1>3, <1>5, <1>7 DEF SearchTyped
<1> QED
  BY <1>2, <1>3, <1>6, <1>7, <1>8 DEF OnceInv, Known, FreshIsNew, FreshGenes

LEMMA SelectIInv == OnceInv /\ Select => OnceInv'
<1> SUFFICES ASSUME OnceInv, Select PROVE OnceInv'
  OBVIOUS
<1>1. epoch.step = "select" /\ UNCHANGED <<observed, evaluated>>
  BY DEF Select
<1>2. CASE epoch' = NoEpoch
  BY <1>1, <1>2, IdleIInv
<1>3. ASSUME NEW b, NEW w, NEW r, NEW s \in {"finish", "breed"},
             epoch' = [epoch EXCEPT !.best = b, !.patience = w, !.ramps = r, !.step = s]
      PROVE  OnceInv'
  <2>1. /\ epoch'.step = s /\ epoch'.reserved = epoch.reserved
        /\ epoch'.population = epoch.population /\ EpochShape'
    BY <1>3 DEF OnceInv, SearchTyped, EpochShape
  <2> QED
    BY <1>1, <2>1, PassIInv
<1>4. CASE epoch' # NoEpoch
  <2>1. PICK leader, waited, limit :
          epoch' = [epoch EXCEPT
            !.best = IF Gain(leader) >= EarlyStopMinDelta THEN leader ELSE @,
            !.patience = IF limit /\ epoch.ramps < MaxRamps THEN 0 ELSE waited,
            !.ramps = IF limit /\ @ < MaxRamps THEN @ + 1 ELSE @,
            !.step = IF limit /\ epoch.ramps = MaxRamps THEN "finish" ELSE "breed"]
    BY <1>4, Zenon DEF Select
  <2> QED
    BY <1>3, <2>1
<1> QED
  BY <1>2, <1>4

LEMMA FinishIInv == OnceInv /\ Finish => OnceInv'
<1> SUFFICES ASSUME OnceInv, Finish PROVE OnceInv'
  OBVIOUS
<1>1. epoch.step \in {"finish", "select"} /\ UNCHANGED <<observed, evaluated>>
  BY DEF Finish
<1>2. epoch' = NoEpoch \/ epoch' = [epoch EXCEPT !.step = "saved"]
  BY DEF Finish
<1>3. CASE epoch' = NoEpoch
  BY <1>1, <1>3, IdleIInv
<1>4. CASE epoch' = [epoch EXCEPT !.step = "saved"]
  <2>1. /\ epoch'.step = "saved" /\ epoch'.reserved = epoch.reserved
        /\ epoch'.population = epoch.population /\ EpochShape'
    BY <1>4 DEF OnceInv, SearchTyped, EpochShape
  <2> QED
    BY <1>1, <2>1, PassIInv
<1> QED
  BY <1>2, <1>3, <1>4
-----------------------------------------------------------------------------
LEMMA NextIInv ==
  ASSUME OnceInv, [SearchNext]_searchVars
  PROVE  OnceInv'
<1>1. CASE NewTask
  BY <1>1, RunEpochIInv DEF NewTask
<1>2. CASE NextIteration
  BY <1>2, RunEpochIInv DEF NextIteration
<1>3. CASE TaskEnds
  BY <1>3, IdleIInv DEF TaskEnds
<1>4. CASE Cancel
  BY <1>4 DEF Cancel, OnceInv, SearchTyped, EpochShape, Known, FreshIsNew, FreshGenes, Fresh
<1>5. CASE ReserveCandidates
  BY <1>5, ReserveIInv
<1>6. CASE Evaluate
  BY <1>6, EvaluateIInv
<1>7. CASE Select
  BY <1>7, SelectIInv
<1>8. CASE NextGeneration
  BY <1>8, NextGenerationIInv
<1>9. CASE Finish
  BY <1>9, FinishIInv
<1>10. CASE SearchCrash
  BY <1>10, IdleIInv DEF SearchCrash
<1>11. CASE UNCHANGED searchVars
  BY <1>11 DEF searchVars, OnceInv, SearchTyped, EpochShape, Known, FreshIsNew, FreshGenes, Fresh
<1> QED
  BY <1>1, <1>2, <1>3, <1>4, <1>5, <1>6, <1>7, <1>8, <1>9, <1>10, <1>11 DEF SearchNext

\* No candidate is evaluated twice by the same search, whatever was cancelled,
\* failed or crashed: gene_observations keeps what was reserved.
THEOREM NeverEvaluatedTwice == SearchSpec => []EvaluatedOnce
<1>1. OnceInv => EvaluatedOnce
  BY DEF OnceInv, SearchTyped, EvaluatedOnce
<1>2. OnceInv /\ [SearchNext]_searchVars => OnceInv'
  BY NextIInv
<1> QED
  BY <1>1, <1>2, InitIInv, PTL DEF SearchSpec
-----------------------------------------------------------------------------
(* The best of an epoch *)

Real(b) == b.gene \in Genes /\ b.fitness = Score[b.gene]
Rated == epoch.population \ Fresh

\* While the context stands, the fitness of the evaluated is their own, the
\* highest is that of one of them, and the tracked best is one of the search's.
Peak ==
  /\ epoch.highest \in Nat
  /\ \A i \in Rated : Real(i) /\ i.fitness <= epoch.highest
  /\ \/ /\ epoch.best = Nobody /\ epoch.highest = FatalFitnessScore
        /\ Rated = {} /\ epoch.step \in {"reserve", "evaluate"}
     \/ /\ Real(epoch.best) /\ epoch.best.fitness <= epoch.highest
        /\ \E i \in Rated : i.fitness = epoch.highest

Live == epoch.step # "idle" /\ ~ctxDone

FittestInv == BestIsSaved /\ ReportIsClose /\ (Live => Peak)

\* Back to idle, with nothing saved.
LEMMA IdleBest ==
  ASSUME FittestInv, epoch' = NoEpoch, UNCHANGED saved
  PROVE  FittestInv'
BY DEF FittestInv, BestIsSaved, ReportIsClose, Live, NoEpoch

\* A step that leaves the evaluated alone.
LEMMA PassBest ==
  ASSUME FittestInv, UNCHANGED <<saved, ctxDone>>, epoch.step # "idle",
         epoch'.population = epoch.population, epoch'.highest = epoch.highest, epoch'.best = epoch.best,
         epoch'.step # "breed", epoch.step \in {"reserve", "evaluate"} => epoch'.step \in {"reserve", "evaluate"}
  PROVE  FittestInv'
BY DEF FittestInv, BestIsSaved, ReportIsClose, Live, Peak, Rated, Fresh, Real

LEMMA RunEpochBest ==
  ASSUME FittestInv, NEW kept, RunEpoch(kept)
  PROVE  FittestInv'
<1>1. CASE epoch' = NoEpoch
  BY <1>1, IdleBest DEF RunEpoch
<1>2. ASSUME NEW p \in Proposals(PopSize, Loaded(kept)),
             epoch' = [NoEpoch EXCEPT !.step = "reserve", !.reserved = Loaded(kept) \cup p,
                                      !.population = {Individual(g, Unevaluated) : g \in p}]
      PROVE  FittestInv'
  <2>1. /\ epoch'.step = "reserve" /\ epoch'.best = Nobody /\ epoch'.highest = FatalFitnessScore
        /\ epoch'.population = {Individual(g, Unevaluated) : g \in p}
    BY <1>2 DEF NoEpoch
  <2>2. Rated' = {}
    BY <2>1 DEF Rated, Fresh, Individual
  <2>3. Peak'
    BY <2>1, <2>2 DEF Peak, FatalFitnessScore
  <2> QED
    BY <2>1, <2>3 DEF FittestInv, BestIsSaved, ReportIsClose, RunEpoch
<1> QED
  BY <1>1, <1>2 DEF RunEpoch

LEMMA EvaluateBest == OnceInv /\ FittestInv /\ Evaluate => FittestInv'
<1> SUFFICES ASSUME OnceInv, FittestInv, Evaluate PROVE FittestInv'
  OBVIOUS
<1> DEFINE rated(failing) ==
             {Individual(i.gene, IF i \in failing THEN FatalFitnessScore ELSE Score[i.gene]) : i \in Fresh}
<1>1. epoch.step = "evaluate" /\ UNCHANGED <<saved, ctxDone>>
  BY DEF Evaluate
<1>0. PICK failing \in SUBSET Fresh :
        /\ failing # {} => ctxDone
        /\ \E leader \in Leaders((epoch.population \ Fresh) \cup rated(failing)) :
             epoch' = [epoch EXCEPT
               !.step = "select", !.population = (epoch.population \ Fresh) \cup rated(failing),
               !.best = IF @ = Nobody THEN leader ELSE @,
               !.highest = IF leader.fitness > @ THEN leader.fitness ELSE @]
  BY Zenon DEF Evaluate
<1>2. PICK leader \in Leaders((epoch.population \ Fresh) \cup rated(failing)) :
        epoch' = [epoch EXCEPT
          !.step = "select", !.population = (epoch.population \ Fresh) \cup rated(failing),
          !.best = IF @ = Nobody THEN leader ELSE @,
          !.highest = IF leader.fitness > @ THEN leader.fitness ELSE @]
  BY <1>0, Zenon
<1>3. /\ epoch'.step = "select" /\ epoch'.population = Rated \cup rated(failing)
      /\ epoch'.best = IF epoch.best = Nobody THEN leader ELSE epoch.best
      /\ epoch'.highest = IF leader.fitness > epoch.highest THEN leader.fitness ELSE epoch.highest
  BY <1>2 DEF OnceInv, SearchTyped, EpochShape, Rated
<1>4. SUFFICES ASSUME ~ctxDone PROVE Peak'
  BY <1>1, <1>3 DEF FittestInv, BestIsSaved, ReportIsClose, Live
<1>5. Peak
  BY <1>1, <1>4 DEF FittestInv, Live
<1>6. \A i \in rated(failing) : Real(i)
  BY <1>0, <1>4 DEF Individual, Real, OnceInv, SearchTyped, Fresh
<1>7. \A i \in epoch'.population : Real(i) /\ i.fitness \in Nat
  BY <1>3, <1>5, <1>6, SearchAssumption DEF Peak, Real, Genes
<1>8. leader \in epoch'.population /\ \A i \in epoch'.population : i.fitness <= leader.fitness
  BY <1>2, <1>3 DEF Leaders, Rated
<1>9. Rated' = epoch'.population
  BY <1>7 DEF Rated, Fresh, Unevaluated
<1>10. epoch'.highest = leader.fitness
  <2>1. leader.fitness \in Nat /\ epoch.highest \in Nat
    BY <1>5, <1>7, <1>8 DEF Peak
  <2>2. epoch.highest = FatalFitnessScore \/ \E i \in Rated : i.fitness = epoch.highest
    BY <1>5 DEF Peak
  <2>3. epoch.highest <= leader.fitness
    BY <1>3, <1>8, <2>1, <2>2 DEF FatalFitnessScore
  <2> QED
    BY <1>3, <2>1, <2>3
<1>11. Real(epoch'.best) /\ epoch'.best.fitness <= epoch'.highest
  <2>1. CASE epoch.best = Nobody
    BY <1>3, <1>7, <1>8, <1>10, <2>1
  <2>2. CASE epoch.best # Nobody
    <3>1. epoch'.best = epoch.best /\ Real(epoch.best) /\ epoch.best.fitness <= epoch.highest
      BY <1>3, <1>5, <2>2 DEF Peak
    <3>2. PICK i \in Rated : i.fitness = epoch.highest
      BY <1>5, <2>2 DEF Peak
    <3>3. epoch.best.fitness \in Nat /\ epoch.highest \in Nat /\ leader.fitness \in Nat
      BY <1>5, <1>7, <1>8, <3>1, SearchAssumption DEF Peak, Real, Genes
    <3>4. epoch.highest <= leader.fitness
      BY <1>3, <1>8, <3>2
    <3> QED
      BY <1>10, <3>1, <3>3, <3>4
  <2> QED
    BY <2>1, <2>2
<1> QED
  BY <1>7, <1>8, <1>9, <1>10, <1>11 DEF Peak

\* The leader of an evaluated population has the highest fitness.
LEMMA LeaderIsHighest ==
  ASSUME OnceInv, Peak, epoch.step \notin {"idle", "reserve", "evaluate"}, NEW leader \in Leaders(epoch.population)
  PROVE  /\ Real(leader) /\ leader.fitness = epoch.highest
         /\ Real(epoch.best) /\ epoch.best.fitness <= epoch.highest
         /\ epoch.best.fitness \in Nat
<1>1. Rated = epoch.population
  BY DEF OnceInv, FreshIsNew, Rated
<1>2. Real(epoch.best) /\ epoch.best.fitness <= epoch.highest /\ \E i \in Rated : i.fitness = epoch.highest
  BY DEF Peak
<1>3. Real(leader) /\ leader.fitness <= epoch.highest
  BY <1>1 DEF Peak, Leaders
<1>4. leader.fitness \in Nat /\ epoch.highest \in Nat /\ epoch.best.fitness \in Nat
  BY <1>2, <1>3, SearchAssumption DEF Real, Genes, Peak
<1>5. epoch.highest <= leader.fitness
  BY <1>1, <1>2 DEF Leaders
<1> QED
  BY <1>2, <1>3, <1>4, <1>5

LEMMA SelectBest == OnceInv /\ FittestInv /\ Select => FittestInv'
<1> SUFFICES ASSUME OnceInv, FittestInv, Select PROVE FittestInv'
  OBVIOUS
<1>1. epoch.step = "select" /\ UNCHANGED <<saved, ctxDone>>
  BY DEF Select
<1>2. CASE ctxDone
  BY <1>1, <1>2, IdleBest DEF Select
<1>3. CASE ~ctxDone
  <2>1. PICK leader \in Leaders(epoch.population) : \E waited, limit :
          epoch' = [epoch EXCEPT
            !.best = IF Gain(leader) >= EarlyStopMinDelta THEN leader ELSE @,
            !.patience = IF limit /\ epoch.ramps < MaxRamps THEN 0 ELSE waited,
            !.ramps = IF limit /\ @ < MaxRamps THEN @ + 1 ELSE @,
            !.step = IF limit /\ epoch.ramps = MaxRamps THEN "finish" ELSE "breed"]
    BY <1>3, Zenon DEF Select
  <2>2. /\ epoch'.step \in {"finish", "breed"} /\ epoch'.population = epoch.population
        /\ epoch'.best = IF Gain(leader) >= EarlyStopMinDelta THEN leader ELSE epoch.best
        /\ epoch'.highest = epoch.highest
    BY <2>1 DEF OnceInv, SearchTyped, EpochShape
  <2>3. Peak
    BY <1>1, <1>3 DEF FittestInv, Live
  <2>4. /\ Real(leader) /\ leader.fitness = epoch.highest
        /\ Real(epoch.best) /\ epoch.best.fitness <= epoch.highest /\ epoch.best.fitness \in Nat
    BY <1>1, <2>3, LeaderIsHighest
  <2>5. epoch.highest \in Nat /\ \E i \in Rated : i.fitness = epoch.highest
    BY <1>1, <2>3 DEF Peak
  <2>6. Rated' = Rated
    BY <2>2 DEF Rated, Fresh
  <2>7. Real(epoch'.best) /\ epoch'.best.fitness <= epoch'.highest
    BY <2>2, <2>4, <2>5
  <2>8. Peak'
    BY <2>2, <2>3, <2>5, <2>6, <2>7 DEF Peak
  <2>9. epoch'.highest - epoch'.best.fitness < EarlyStopMinDelta
    BY <2>2, <2>4, <2>5, SearchAssumption DEF Gain
  <2> QED
    BY <1>1, <2>8, <2>9 DEF FittestInv, BestIsSaved, ReportIsClose
<1> QED
  BY <1>2, <1>3

\* Among the elites is one with the highest fitness.
LEMMA ElitesKeepHighest ==
  ASSUME NEW population, NEW e \in Elites(population), NEW m \in population,
         \A i \in population : i.fitness \in Nat /\ i.fitness <= m.fitness
  PROVE  \E i \in e : i.fitness = m.fitness
<1>1. e # {}
  BY FS_EmptySet, SearchAssumption DEF Elites
<1>2. PICK i \in e : TRUE
  BY <1>1
<1>3. e \subseteq population
  BY DEF Elites
<1>4. CASE m \in e
  BY <1>4
<1>5. CASE m \notin e
  <2>1. m.fitness <= i.fitness
    BY <1>2, <1>5 DEF Elites
  <2>2. i.fitness <= m.fitness /\ i.fitness \in Nat /\ m.fitness \in Nat
    BY <1>2, <1>3
  <2> QED
    BY <1>2, <2>1, <2>2
<1> QED
  BY <1>4, <1>5

LEMMA NextGenerationBest == OnceInv /\ FittestInv /\ NextGeneration => FittestInv'
<1> SUFFICES ASSUME OnceInv, FittestInv, NextGeneration PROVE FittestInv'
  OBVIOUS
<1>1. epoch.step = "breed" /\ UNCHANGED <<saved, ctxDone>>
  BY DEF NextGeneration
<1>2. CASE epoch' = NoEpoch
  BY <1>1, <1>2, IdleBest
<1>3. ASSUME NEW elite \in Elites(epoch.population),
             NEW p \in Proposals(PopSize - Cardinality(elite), epoch.reserved),
             epoch' = [epoch EXCEPT
               !.step = "reserve", !.generation = @ + 1, !.reserved = @ \cup p,
               !.population = elite \cup {Individual(g, Unevaluated) : g \in p}]
      PROVE  FittestInv'
  <2>1. /\ epoch'.step = "reserve" /\ epoch'.best = epoch.best /\ epoch'.highest = epoch.highest
        /\ epoch'.population = elite \cup {Individual(g, Unevaluated) : g \in p}
    BY <1>3 DEF OnceInv, SearchTyped, EpochShape
  <2>2. SUFFICES ASSUME ~ctxDone PROVE Peak'
    BY <1>1, <2>1 DEF FittestInv, BestIsSaved, ReportIsClose, Live
  <2>3. Peak /\ Rated = epoch.population
    BY <1>1, <2>2 DEF FittestInv, Live, OnceInv, FreshIsNew, Rated
  <2>4. \A i \in epoch.population : Real(i) /\ i.fitness \in Nat /\ i.fitness <= epoch.highest
    BY <2>3, SearchAssumption DEF Peak, Real, Genes
  <2>5. elite \subseteq epoch.population
    BY DEF Elites
  <2>6. Rated' = elite
    <3>1. \A i \in elite : i.fitness # Unevaluated
      BY <2>4, <2>5 DEF Unevaluated
    <3> QED
      BY <2>1, <3>1 DEF Rated, Fresh, Individual
  <2>7. Real(epoch.best) /\ epoch.best.fitness <= epoch.highest
    BY <1>1, <2>3 DEF Peak
  <2>8. PICK m \in epoch.population : m.fitness = epoch.highest
    BY <1>1, <2>3 DEF Peak
  <2>9. \E i \in elite : i.fitness = epoch.highest
    BY <2>4, <2>8, ElitesKeepHighest
  <2> QED
    BY <2>1, <2>3, <2>4, <2>5, <2>6, <2>7, <2>9 DEF Peak
<1> QED
  BY <1>2, <1>3 DEF NextGeneration

LEMMA FinishBest == OnceInv /\ FittestInv /\ Finish => FittestInv'
<1> SUFFICES ASSUME OnceInv, FittestInv, Finish PROVE FittestInv'
  OBVIOUS
<1>1. epoch.step \in {"finish", "select"} /\ UNCHANGED ctxDone
  BY DEF Finish
<1>2. CASE epoch' = NoEpoch /\ UNCHANGED saved
  BY <1>2, IdleBest
<1>3. CASE ~(epoch' = NoEpoch /\ UNCHANGED saved)
  <2> DEFINE final(leader) == IF leader.fitness > epoch.best.fitness THEN leader ELSE epoch.best
  <2>1. PICK leader \in Leaders(epoch.population) :
          /\ ~ctxDone /\ epoch' = [epoch EXCEPT !.step = "saved"]
          /\ saved' = saved \cup {[gene |-> final(leader).gene, fitness |-> final(leader).fitness,
                                   highest |-> epoch.highest]}
    BY <1>3 DEF Finish
  <2>2. /\ epoch'.step = "saved" /\ epoch'.best = epoch.best /\ epoch'.highest = epoch.highest
        /\ epoch'.population = epoch.population
    BY <2>1 DEF OnceInv, SearchTyped, EpochShape
  <2>3. Peak
    BY <1>1, <2>1 DEF FittestInv, Live
  <2>4. /\ Real(leader) /\ leader.fitness = epoch.highest
        /\ Real(epoch.best) /\ epoch.best.fitness <= epoch.highest /\ epoch.best.fitness \in Nat
    BY <1>1, <2>3, LeaderIsHighest
  <2>5. final(leader).fitness = epoch.highest /\ final(leader).fitness = Score[final(leader).gene]
    <3>1. leader.fitness \in Nat /\ (leader.fitness > epoch.best.fitness \/ leader.fitness = epoch.best.fitness)
      BY <2>3, <2>4 DEF Peak
    <3>2. CASE leader.fitness > epoch.best.fitness
      BY <2>4, <3>2 DEF Real
    <3>3. CASE leader.fitness = epoch.best.fitness
      BY <2>4, <3>3 DEF Real
    <3> QED
      BY <3>1, <3>2, <3>3
  <2>6. BestIsSaved'
    BY <2>1, <2>5 DEF FittestInv, BestIsSaved
  <2>7. Peak'
    BY <1>1, <2>2, <2>3 DEF Peak, Rated, Fresh, Real
  <2> QED
    BY <2>2, <2>6, <2>7 DEF FittestInv, ReportIsClose
<1> QED
  BY <1>2, <1>3
-----------------------------------------------------------------------------
LEMMA NextBest == OnceInv /\ FittestInv /\ [SearchNext]_searchVars => FittestInv'
<1> SUFFICES ASSUME OnceInv, FittestInv, [SearchNext]_searchVars PROVE FittestInv'
  OBVIOUS
<1>1. CASE NewTask
  BY <1>1, RunEpochBest DEF NewTask
<1>2. CASE NextIteration
  BY <1>2, RunEpochBest DEF NextIteration
<1>3. CASE TaskEnds
  BY <1>3, IdleBest DEF TaskEnds
<1>4. CASE Cancel
  BY <1>4 DEF Cancel, FittestInv, BestIsSaved, ReportIsClose, Live
<1>5. CASE ReserveCandidates
  <2>1. CASE epoch' = NoEpoch
    BY <1>5, <2>1, IdleBest DEF ReserveCandidates
  <2>2. CASE epoch' = [epoch EXCEPT !.step = "evaluate"]
    <3>1. /\ epoch'.step = "evaluate" /\ epoch'.population = epoch.population
          /\ epoch'.best = epoch.best /\ epoch'.highest = epoch.highest
      BY <2>2 DEF OnceInv, SearchTyped, EpochShape
    <3> QED
      BY <1>5, <3>1, PassBest DEF ReserveCandidates
  <2> QED
    BY <1>5, <2>1, <2>2 DEF ReserveCandidates
<1>6. CASE Evaluate
  BY <1>6, EvaluateBest
<1>7. CASE Select
  BY <1>7, SelectBest
<1>8. CASE NextGeneration
  BY <1>8, NextGenerationBest
<1>9. CASE Finish
  BY <1>9, FinishBest
<1>10. CASE SearchCrash
  BY <1>10, IdleBest DEF SearchCrash
<1>11. CASE UNCHANGED searchVars
  BY <1>11 DEF searchVars, FittestInv, BestIsSaved, ReportIsClose, Live, Peak, Rated, Fresh, Real
<1> QED
  BY <1>1, <1>2, <1>3, <1>4, <1>5, <1>6, <1>7, <1>8, <1>9, <1>10, <1>11 DEF SearchNext

LEMMA BestHolds == SearchSpec => []FittestInv
<1>1. SearchInit => FittestInv
  BY DEF SearchInit, FittestInv, BestIsSaved, ReportIsClose, Live, NoEpoch
<1>2. OnceInv /\ [SearchNext]_searchVars => OnceInv'
  BY NextIInv
<1> QED
  BY <1>1, <1>2, InitIInv, NextBest, PTL DEF SearchSpec

\* A finished epoch saves the fittest of all it has evaluated, although the best
\* it tracks moves only by gains of EarlyStopMinDelta and elites may tie.
THEOREM FittestIsSaved == SearchSpec => []BestIsSaved
<1>1. FittestInv => BestIsSaved
  BY DEF FittestInv
<1> QED
  BY <1>1, BestHolds, PTL

\* What OnProgress reports, and a cancelled task can save, is less than
\* EarlyStopMinDelta below the fittest that was evaluated.
THEOREM ReportsAreClose == SearchSpec => []ReportIsClose
<1>1. FittestInv => ReportIsClose
  BY DEF FittestInv
<1> QED
  BY <1>1, BestHolds, PTL
=============================================================================
