--------------------------- MODULE BacktestsProofs ---------------------------
(***************************************************************************)
(* Proofs about the standardized backtest results, for every number of      *)
(* calls, rows and attempts and every budget of crashes, faults, damage and *)
(* maintenance.                                                            *)
(*                                                                         *)
(* The invariant IInv says what the columns of a row say together (RowOK),  *)
(* that an active key is held once (KeysUnique), that a row has at most one *)
(* call that owns it and what that call has done to it so far (Owns,        *)
(* Computes), what a verification may still rely on when its second query   *)
(* runs (Verifies), and how a Create call's run and its row belong together *)
(* (Links, RunOK).  Every action is shown to change one row at most, in a   *)
(* way that Moves allows, and no open row but its own (Acts), so that the   *)
(* other calls keep their part of the invariant (SparedKeeps).              *)
(***************************************************************************)
EXTENDS Backtests, TLAPS

\* The fields of a call and the columns of a row.
Fields == {"step", "kind", "row", "created", "try", "seen", "why", "outcome"}
RowFields == {"key", "status", "active", "content", "path"}

Typed ==
  /\ result = [r \in Results |-> result[r]] /\ \A r \in Results : result[r] = [f \in RowFields |-> result[r][f]]
  /\ run = [c \in Calls |-> run[c]] /\ \A c \in Calls : run[c] = [f \in {"status", "link"} |-> run[c][f]]
  /\ call = [c \in Calls |-> call[c]] /\ \A c \in Calls : DOMAIN call[c] = Fields
  /\ struck \in [{"crash", "fault", "rot", "maintain"} -> Nat]

\* What the columns of a row say together.
RowOK(s) ==
  /\ s.active \in BOOLEAN
  /\ \/ s.status = "unused" /\ ~s.active /\ s.content = "none" /\ s.path = "none"
     \/ s.status \in Open /\ s.active /\ s.content = "none" /\ s.path = "pending"
     \/ s.status \in Dropped \cup {"deleted"} /\ ~s.active /\ s.content = "none" /\ s.path = "pending"
     \/ s.status = "completed" /\ s.active /\ s.content \in {"sound", "rotten"} /\ s.path = "available"
     \/ s.status = "invalidated" /\ ~s.active /\ s.content \in {"sound", "rotten"} /\ s.path = "available"
     \/ s.status = "archived" /\ ~s.active /\ s.content \in {"sound", "rotten"} /\ s.path \in {"available", "deleted"}

KeysUnique == \A r, q \in Results : result[r].active /\ result[q].active /\ result[r].key = result[q].key => r = q

Steps == {"idle", "reserve", "lookup", "verify", "blocks", "spoil", "link", "start", "execute", "store", "drop",
          "withdraw", "finish", "unfinish", "runfails", "wait"}

\* The row of a call.
HasRow(c) ==
  call[c].step \notin {"idle", "reserve", "lookup", "runfails"} =>
    call[c].row \in Results /\ result[call[c].row].status # "unused"

\* The call that has inserted a row is the only one to compute it.
Owns(c) ==
  /\ call[c].created =>
       /\ call[c].row \in Results /\ result[call[c].row].status # "unused"
       /\ call[c].step \notin {"idle", "reserve", "lookup", "spoil", "wait"}
       /\ \A d \in Calls : call[d].created /\ call[d].row = call[c].row => d = c
  /\ call[c].step \in {"start", "execute", "store", "drop", "withdraw", "unfinish"} => call[c].created
  /\ call[c].step \in {"verify", "blocks"} =>
       /\ call[c].why = "own" => call[c].created
       /\ call[c].why = "reuse" => ~call[c].created

Computes(c) ==
  /\ (call[c].step = "link" /\ call[c].created) \/ call[c].step = "start" =>
       result[call[c].row].status = "pending" /\ result[call[c].row].key = KeyOf[c]
  /\ call[c].step \in {"execute", "store", "drop"} =>
       result[call[c].row].status = "running" /\ result[call[c].row].key = KeyOf[c]

Whys(c) ==
  /\ call[c].step \in {"reserve", "lookup", "spoil", "idle"} => call[c].why \in {"none", "reuse"}
  /\ call[c].step = "link" /\ call[c].created => call[c].why \in {"none", "reuse"}
  /\ call[c].step \in {"verify", "blocks"} => call[c].why \in {"reuse", "own", "again"}
  /\ call[c].step \in {"drop", "unfinish"} => call[c].outcome \in Dropped

\* What was stored when it was looked at still is.
Verifies(c) ==
  /\ \/ call[c].step \in {"verify", "blocks", "spoil", "withdraw", "finish"}
     \/ call[c].step = "link" /\ call[c].why = "again" /\ ~call[c].created
     => result[call[c].row].status \in Stored
  /\ call[c].step = "blocks" =>
       /\ RowOK(call[c].seen) /\ call[c].seen.path = "available" /\ call[c].seen.status \in Stored
       /\ result[call[c].row].status = "completed" => call[c].seen.status = "completed"
  /\ call[c].step \in {"spoil", "withdraw"} /\ result[call[c].row].status = "completed"
       => result[call[c].row].content = "rotten"

\* The run of a Create call.
Links(c) ==
  /\ call[c].kind = "create" /\ (\/ call[c].step \in {"reserve", "lookup", "spoil", "link"}
                                 \/ call[c].step \in {"verify", "blocks"} /\ call[c].why = "reuse")
       => run[c].link = NoRow
  /\ call[c].kind = "create" /\ call[c].created /\ call[c].step \notin {"link", "runfails"} => run[c].link = call[c].row
  /\ call[c].step = "unfinish" =>
       /\ call[c].kind = "create"
       /\ call[c].outcome = "cancelled" => result[call[c].row].status = "cancelled" \/ struck["fault"] > 0
  /\ call[c].step \in {"finish", "link"} => call[c].kind = "create"
  /\ call[c].kind = "create" => run[c].status # "none"

RunOK(c) ==
  /\ run[c].link \in Results \cup {NoRow}
  /\ run[c].link # NoRow => result[run[c].link].status \notin {"unused", "deleted"}
  /\ run[c].status = "none" => run[c].link = NoRow
  /\ run[c].status = "completed" => run[c].link # NoRow /\ result[run[c].link].status \in Stored
  /\ run[c].status = "cancelled" => /\ run[c].link # NoRow
                                    /\ result[run[c].link].status = "cancelled" \/ struck["fault"] > 0

CallOK(c) == /\ call[c].step \in Steps /\ call[c].created \in BOOLEAN
             /\ HasRow(c) /\ Owns(c) /\ Computes(c) /\ Whys(c) /\ Verifies(c) /\ Links(c)

IInv == /\ Typed
        /\ \A r \in Results : RowOK(result[r])
        /\ KeysUnique
        /\ \A c \in Calls : CallOK(c) /\ RunOK(c)

-----------------------------------------------------------------------------
(* How rows, runs and counters may move in one step *)

Columns(s) == s = [f \in RowFields |-> s[f]]

\* What a step may make of row r: a row is used once and keeps its key, what
\* was stored stays stored, and nothing a run is linked to is deleted.
Moves(r, s) ==
  /\ result[r].status # "unused" => s.status # "unused" /\ s.key = result[r].key
  /\ result[r].status \in Stored =>
       /\ s.status \in Stored
       /\ s.status = "completed" => result[r].status = "completed"
       /\ result[r].content = "rotten" => s.content = "rotten"
  /\ result[r].status = "cancelled" => s.status \in {"cancelled", "deleted"}
  /\ s.status = "deleted" => result[r].status = "deleted" \/ \A d \in Calls : run[d].link # r

RowsOK == /\ result = [r \in Results |-> result[r]]
          /\ \A r \in Results : Columns(result[r]) /\ RowOK(result[r])
          /\ KeysUnique

RowsMove == \A r \in Results : Moves(r, result'[r])

RunsOK == /\ run = [c \in Calls |-> run[c]]
          /\ \A c \in Calls : run[c] = [f \in {"status", "link"} |-> run[c][f]]
          /\ \A c \in Calls : RunOK(c)

CallsTyped == call = [c \in Calls |-> call[c]] /\ \A c \in Calls : DOMAIN call[c] = Fields

Hazards == {"crash", "fault", "rot", "maintain"}
Hit == struck' \in [Hazards -> Nat] /\ struck'["fault"] >= struck["fault"]

LEMMA InvParts == IInv <=> /\ RowsOK /\ RunsOK /\ CallsTyped
                           /\ struck \in [Hazards -> Nat]
                           /\ \A c \in Calls : CallOK(c)
BY DEF IInv, Typed, RowsOK, RunsOK, CallsTyped, Columns, Hazards

LEMMA InvPartsNext == IInv' <=> /\ RowsOK' /\ RunsOK' /\ CallsTyped'
                                /\ struck' \in [Hazards -> Nat]
                                /\ \A c \in Calls : CallOK(c)'
BY DEF IInv, Typed, RowsOK, RunsOK, CallsTyped, Columns, Hazards

LEMMA StrikeHits ==
  ASSUME struck \in [Hazards -> Nat], NEW h \in Hazards, Strike(h)
  PROVE  Hit /\ struck'[h] > 0
BY DEF Strike, Hit, Hazards

\* A step that changes one row leaves the table in order.
LEMMA OneRow ==
  ASSUME RowsOK, NEW r \in Results, NEW s, result' = [result EXCEPT ![r] = s],
         Columns(s), RowOK(s), Moves(r, s),
         s.active => (result[r].active /\ s.key = result[r].key) \/ Holders(s.key) = {}
  PROVE  RowsOK' /\ RowsMove /\ \A q \in Results : q # r => result'[q] = result[q]
<1>1. result'[r] = s /\ \A q \in Results : q # r => result'[q] = result[q]
  BY DEF RowsOK
<1>2. \A q \in Results : Moves(q, result[q])
  BY DEF Moves
<1>3. RowsMove
  BY <1>1, <1>2 DEF RowsMove
<1>4. result' = [q \in Results |-> result'[q]]
  BY DEF RowsOK
<1>5. \A q \in Results : Columns(result'[q]) /\ RowOK(result'[q])
  BY <1>1 DEF RowsOK
<1>6. KeysUnique'
  <2> SUFFICES ASSUME NEW p \in Results, NEW q \in Results, result'[p].active, result'[q].active,
                      result'[p].key = result'[q].key
               PROVE  p = q
    BY DEF KeysUnique
  <2>1. CASE p # r /\ q # r
    BY <2>1, <1>1 DEF RowsOK, KeysUnique
  <2>2. CASE p = r /\ q # r
    BY <2>2, <1>1 DEF RowsOK, KeysUnique, Holders
  <2>3. CASE p # r /\ q = r
    BY <2>3, <1>1 DEF RowsOK, KeysUnique, Holders
  <2> QED BY <2>1, <2>2, <2>3
<1>7. \A q \in Results : Columns(result[q])' /\ RowOK(result[q])'
  BY <1>5 DEF Columns, RowOK
<1> QED BY <1>1, <1>3, <1>4, <1>6, <1>7 DEF RowsOK

LEMMA SameRows ==
  ASSUME RowsOK, UNCHANGED result
  PROVE  RowsOK' /\ RowsMove
<1>1. RowsMove
  BY DEF RowsMove, Moves
<1>2. RowsOK'
  BY DEF RowsOK, Columns, RowOK, KeysUnique
<1> QED BY <1>1, <1>2

LEMMA SameRuns ==
  ASSUME RunsOK, RowsMove, Hit, struck \in [Hazards -> Nat], UNCHANGED run
  PROVE  RunsOK'
<1> SUFFICES ASSUME NEW c \in Calls PROVE RunOK(c)'
  BY DEF RunsOK
<1>1. RunOK(c)
  BY DEF RunsOK
<1>2. run[c].link # NoRow => run[c].link \in Results /\ Moves(run[c].link, result'[run[c].link])
  BY <1>1 DEF RunOK, RowsMove
<1>3. struck["fault"] > 0 => struck'["fault"] > 0
  BY DEF Hit, Hazards
<1>4. run[c].link # NoRow => result'[run[c].link].status # "unused"
  BY <1>1, <1>2 DEF RunOK, Moves
<1>5. run[c].link # NoRow => result'[run[c].link].status # "deleted"
  BY <1>1, <1>2 DEF RunOK, Moves
<1>6. run[c].status = "completed" => result'[run[c].link].status \in Stored
  BY <1>1, <1>2 DEF RunOK, Moves
<1>7. run[c].status = "cancelled" => result'[run[c].link].status = "cancelled" \/ struck'["fault"] > 0
  BY <1>1, <1>2, <1>3, <1>5 DEF RunOK, Moves
<1> QED BY <1>1, <1>4, <1>5, <1>6, <1>7 DEF RunOK

\* Another's step leaves a call as it is: the open row it owns is not touched,
\* nobody else becomes its owner, its run keeps its link.
Spared(d) ==
  /\ call'[d] = call[d]
  /\ call[d].created /\ result[call[d].row].status \in Open => result'[call[d].row] = result[call[d].row]
  /\ call[d].created => \A e \in Calls : call'[e].created /\ call'[e].row = call[d].row => e = d
  /\ run'[d].link = run[d].link
  /\ run[d].status # "none" => run'[d].status # "none"

LEMMA SparedKeeps ==
  ASSUME NEW d \in Calls, CallOK(d), RowsMove, RunsOK, Hit, struck \in [Hazards -> Nat], Spared(d)
  PROVE  CallOK(d)'
<1> DEFINE r == call[d].row
<1>1. call'[d] = call[d] /\ run'[d].link = run[d].link
  BY DEF Spared
<1>2. HasRow(d)'
  BY <1>1 DEF CallOK, HasRow, RowsMove, Moves
<1>3. Owns(d)'
  BY <1>1 DEF CallOK, Owns, RowsMove, Moves, Spared
<1>4. Computes(d)'
  <2>1. call[d].step \in {"start", "execute", "store", "drop"} => call[d].created
    BY DEF CallOK, Owns
  <2>2. call[d].created /\ result[r].status \in Open => result'[r] = result[r]
    BY DEF Spared
  <2> QED BY <1>1, <2>1, <2>2 DEF CallOK, Computes, Open
<1>5. Whys(d)'
  BY <1>1 DEF CallOK, Whys
<1>6. Verifies(d)'
  <2>1. call[d].step \in {"verify", "blocks", "spoil", "withdraw", "finish", "link"} => r \in Results
    BY DEF CallOK, HasRow
  <2>2. call[d].step \in {"verify", "blocks", "spoil", "withdraw", "finish"} => result[r].status \in Stored
    BY DEF CallOK, Verifies
  <2>3. r \in Results => Moves(r, result'[r])
    BY DEF RowsMove
  <2>4. RowOK(call'[d].seen) <=> RowOK(call[d].seen)
    BY <1>1
  <2>5. r \in Results /\ result[r].status \in Stored =>
          /\ result'[r].status \in Stored
          /\ result'[r].status = "completed" => result[r].status = "completed"
          /\ result[r].content = "rotten" => result'[r].content = "rotten"
    BY <2>3 DEF Moves
  <2>6. \/ call[d].step \in {"verify", "blocks", "spoil", "withdraw", "finish"}
        \/ call[d].step = "link" /\ call[d].why = "again" /\ ~call[d].created
        => result'[r].status \in Stored
    BY <2>1, <2>2, <2>5 DEF CallOK, Verifies
  <2>7. call[d].step = "blocks" =>
          /\ RowOK(call[d].seen) /\ call[d].seen.path = "available" /\ call[d].seen.status \in Stored
          /\ result'[r].status = "completed" => call[d].seen.status = "completed"
    BY <2>1, <2>2, <2>5 DEF CallOK, Verifies
  <2>8. call[d].step \in {"spoil", "withdraw"} /\ result'[r].status = "completed"
          => result'[r].content = "rotten"
    BY <2>1, <2>2, <2>5 DEF CallOK, Verifies
  <2> QED BY <1>1, <2>6, <2>7, <2>8 DEF Verifies, RowOK
<1>7. Links(d)'
  <2>1. call[d].step = "unfinish" => r \in Results /\ result[r].status # "unused"
    BY DEF CallOK, HasRow
  <2>2. r \in Results /\ result[r].status = "cancelled" => result'[r].status \in {"cancelled", "deleted"}
    BY DEF RowsMove, Moves
  <2>3. call[d].step = "unfinish" => run[d].link = r
    BY DEF CallOK, Links, Owns
  <2>4. r \in Results /\ run[d].link = r => result'[r].status # "deleted"
    <3>1. run[d].link # NoRow => result[run[d].link].status # "deleted"
      BY DEF RunsOK, RunOK
    <3>2. r \in Results => r # NoRow
      BY DEF Results, NoRow
    <3> QED BY <3>1, <3>2 DEF RowsMove, Moves
  <2>5. struck["fault"] > 0 => struck'["fault"] > 0
    BY DEF Hit, Hazards
  <2> QED BY <1>1, <2>1, <2>2, <2>3, <2>4, <2>5 DEF CallOK, Links, Spared
<1> QED BY <1>1, <1>2, <1>3, <1>4, <1>5, <1>6, <1>7 DEF CallOK

\* Call c acts: it takes over no row but an unused one, changes no open row
\* but its own, and no link of another's run.
Acts(c) ==
  /\ \A d \in Calls : d # c => call'[d] = call[d]
  /\ call'[c].created => \/ call[c].created /\ call'[c].row = call[c].row
                         \/ call'[c].row \in Results /\ result[call'[c].row].status = "unused"
  /\ \A r \in Results : result[r].status \in Open /\ result'[r] # result[r]
                          => call[c].created /\ call[c].row = r
  /\ \A d \in Calls : d # c => /\ run'[d].link = run[d].link
                               /\ run[d].status # "none" => run'[d].status # "none"

LEMMA CallStep ==
  ASSUME IInv, NEW c \in Calls, RowsOK', RowsMove, RunsOK', CallsTyped', Hit, Acts(c), CallOK(c)'
  PROVE  IInv'
<1>0. RunsOK /\ struck \in [Hazards -> Nat] /\ \A d \in Calls : CallOK(d)
  BY InvParts
<1>1. ASSUME NEW d \in Calls, d # c PROVE CallOK(d)'
  <2>1. call'[d] = call[d]
    BY <1>1 DEF Acts
  <2>2. call[d].created => call[d].row \in Results /\ result[call[d].row].status # "unused"
    BY <1>0 DEF CallOK, Owns
  <2>3. \A e \in Calls : call[d].created /\ call[e].created /\ call[e].row = call[d].row => e = d
    BY <1>0 DEF CallOK, Owns
  <2>4. call[d].created /\ result[call[d].row].status \in Open => result'[call[d].row] = result[call[d].row]
    BY <1>1, <2>2, <2>3 DEF Acts
  <2>5. call[d].created => \A e \in Calls : call'[e].created /\ call'[e].row = call[d].row => e = d
    BY <1>1, <2>2, <2>3 DEF Acts
  <2>6. run'[d].link = run[d].link /\ (run[d].status # "none" => run'[d].status # "none")
    BY <1>1 DEF Acts
  <2>7. Spared(d)
    BY <2>1, <2>4, <2>5, <2>6 DEF Spared
  <2> QED BY <1>0, <2>7, SparedKeeps
<1>2. \A d \in Calls : CallOK(d)'
  BY <1>1
<1>3. struck' \in [Hazards -> Nat]
  BY DEF Hit, Hazards
<1> QED BY <1>2, <1>3, InvPartsNext

\* Maintenance and the environment change no call and no open row.
LEMMA TableStep ==
  ASSUME IInv, RowsOK', RowsMove, RunsOK', Hit, UNCHANGED call,
         \A d \in Calls : /\ run'[d].link = run[d].link
                          /\ run[d].status # "none" => run'[d].status # "none",
         \A r \in Results : result[r].status \in Open => result'[r] = result[r]
  PROVE  IInv'
<1>0. RunsOK /\ struck \in [Hazards -> Nat] /\ (\A d \in Calls : CallOK(d)) /\ CallsTyped
  BY InvParts
<1>1. ASSUME NEW d \in Calls PROVE CallOK(d)'
  <2>1. call[d].created => call[d].row \in Results
    BY <1>0 DEF CallOK, Owns
  <2>2. call[d].created => \A e \in Calls : call[e].created /\ call[e].row = call[d].row => e = d
    BY <1>0 DEF CallOK, Owns
  <2>3. Spared(d)
    BY <2>1, <2>2 DEF Spared
  <2> QED BY <1>0, <2>3, SparedKeeps
<1>2. CallsTyped'
  BY <1>0 DEF CallsTyped
<1>3. struck' \in [Hazards -> Nat]
  BY DEF Hit, Hazards
<1> QED BY <1>1, <1>2, <1>3, InvPartsNext
-----------------------------------------------------------------------------
(* What the parts of an action do to the call *)

LEMMA GoDoes ==
  ASSUME CallsTyped, NEW c \in Calls, NEW changes, Go(c, changes)
  PROVE  /\ CallsTyped'
         /\ \A d \in Calls : d # c => call'[d] = call[d]
         /\ \A f \in Fields : call'[c][f] = IF f \in DOMAIN changes THEN changes[f] ELSE call[c][f]
BY DEF Go, CallsTyped

LEMMA IdleOK ==
  ASSUME CallsTyped, NEW c \in Calls, Returned(c)
  PROVE  /\ CallsTyped'
         /\ \A d \in Calls : d # c => call'[d] = call[d]
         /\ ~call'[c].created /\ CallOK(c)'
<1>1. call'[c] = Idle /\ \A d \in Calls : d # c => call'[d] = call[d]
  BY DEF Returned, CallsTyped
<1>2. CallsTyped'
  BY <1>1 DEF Returned, CallsTyped, Idle, Fields
<1>3. /\ call'[c].step = "idle" /\ call'[c].kind = "none" /\ call'[c].created = FALSE /\ call'[c].why = "none"
  BY <1>1 DEF Idle
<1>4. CallOK(c)'
  BY <1>3 DEF CallOK, Steps, HasRow, Owns, Computes, Whys, Verifies, Links
<1> QED BY <1>1, <1>2, <1>3, <1>4

LEMMA GiveUpOK ==
  ASSUME CallsTyped, NEW c \in Calls, CallOK(c), RowsMove, \A d \in Calls : CallOK(d), GiveUp(c),
         run'[c] = run[c]
  PROVE  /\ CallsTyped'
         /\ \A d \in Calls : d # c => call'[d] = call[d]
         /\ call'[c].created => call[c].created /\ call'[c].row = call[c].row
         /\ CallOK(c)'
<1>1. CASE call[c].kind = "create"
  <2>1. Go(c, [step |-> "runfails"])
    BY <1>1 DEF GiveUp
  <2>2. CallsTyped' /\ \A d \in Calls : d # c => call'[d] = call[d]
    BY <2>1, GoDoes
  <2>3. /\ call'[c].step = "runfails" /\ call'[c].kind = call[c].kind /\ call'[c].created = call[c].created
        /\ call'[c].row = call[c].row
    BY <2>1, GoDoes DEF Fields
  <2>4. Owns(c)'
    <3>1. call[c].created => /\ call[c].row \in Results /\ result[call[c].row].status # "unused"
                             /\ \A d \in Calls : call[d].created /\ call[d].row = call[c].row => d = c
      BY DEF CallOK, Owns
    <3>2. call[c].created => result'[call[c].row].status # "unused"
      BY <3>1 DEF RowsMove, Moves
    <3> QED BY <2>2, <2>3, <3>1, <3>2 DEF Owns
  <2>5. HasRow(c)' /\ Computes(c)' /\ Whys(c)' /\ Verifies(c)'
    BY <2>3 DEF HasRow, Computes, Whys, Verifies
  <2>6. Links(c)'
    BY <2>3 DEF Links, CallOK
  <2>7. call'[c].created \in BOOLEAN
    BY <2>3 DEF CallOK
  <2> QED BY <2>2, <2>3, <2>4, <2>5, <2>6, <2>7 DEF CallOK, Steps
<1>2. CASE call[c].kind # "create"
  BY <1>2, IdleOK DEF GiveUp
<1> QED BY <1>1, <1>2

\* A step of call c that writes neither a row nor a run.
LEMMA Quiet ==
  ASSUME IInv, NEW c \in Calls, UNCHANGED <<result, run>>, Hit, CallsTyped',
         \A d \in Calls : d # c => call'[d] = call[d],
         call'[c].created => call[c].created /\ call'[c].row = call[c].row,
         CallOK(c)'
  PROVE  IInv'
<1>1. RowsOK' /\ RowsMove /\ RunsOK'
  BY InvParts, SameRows, SameRuns
<1>2. Acts(c)
  BY DEF Acts
<1> QED BY <1>1, <1>2, CallStep

LEMMA QuietReturn ==
  ASSUME IInv, NEW c \in Calls, UNCHANGED <<result, run>>, Hit, Returned(c)
  PROVE  IInv'
<1>1. CallsTyped
  BY InvParts
<1>2. /\ CallsTyped' /\ (\A d \in Calls : d # c => call'[d] = call[d]) /\ ~call'[c].created /\ CallOK(c)'
  BY <1>1, IdleOK
<1> QED BY <1>2, Quiet

LEMMA QuietGiveUp ==
  ASSUME IInv, NEW c \in Calls, UNCHANGED <<result, run>>, Hit, GiveUp(c)
  PROVE  IInv'
<1>1. CallsTyped /\ RowsOK /\ \A d \in Calls : CallOK(d)
  BY InvParts
<1>2. RowsMove
  BY <1>1, SameRows
<1>3. /\ CallsTyped' /\ (\A d \in Calls : d # c => call'[d] = call[d])
      /\ (call'[c].created => call[c].created /\ call'[c].row = call[c].row) /\ CallOK(c)'
  BY <1>1, <1>2, GiveUpOK
<1> QED BY <1>3, Quiet

LEMMA NoHit == ASSUME struck \in [Hazards -> Nat], UNCHANGED struck PROVE Hit
BY DEF Hit, Hazards
-----------------------------------------------------------------------------
(* Reserve *)

LEMMA SubmitKeeps ==
  ASSUME IInv, NEW c \in Calls, Submit(c)
  PROVE  IInv'
<1>1. CallsTyped /\ RowsOK /\ RunsOK /\ struck \in [Hazards -> Nat] /\ CallOK(c) /\ RunOK(c)
  BY InvParts DEF RunsOK
<1>2. PICK kind : /\ Go(c, [step |-> "reserve", kind |-> kind])
                  /\ kind = "create" => run[c].status = "none"
                  /\ run' = IF kind = "create" THEN [run EXCEPT ![c].status = "running"] ELSE run
  BY DEF Submit
<1>3. call[c].step = "idle" /\ UNCHANGED <<result, struck>>
  BY DEF Submit, Busy
<1>4. CallsTyped' /\ \A d \in Calls : d # c => call'[d] = call[d]
  BY <1>1, <1>2, GoDoes
<1>5. /\ call'[c].step = "reserve" /\ call'[c].kind = kind /\ call'[c].created = call[c].created
      /\ call'[c].why = call[c].why
  BY <1>1, <1>2, GoDoes DEF Fields
<1>6. call[c].created = FALSE
  BY <1>1, <1>3 DEF CallOK, Owns
<1>7. /\ \A d \in Calls : d # c => run'[d] = run[d]
      /\ run'[c].link = run[c].link
      /\ kind = "create" => run'[c].status = "running" /\ run[c].link = NoRow
      /\ kind # "create" => run' = run
  BY <1>1, <1>2 DEF RunsOK, RunOK
<1>8. RunsOK'
  <2>1. run' = [d \in Calls |-> run'[d]] /\ \A d \in Calls : run'[d] = [f \in {"status", "link"} |-> run'[d][f]]
    BY <1>1, <1>2 DEF RunsOK
  <2>2. ASSUME NEW d \in Calls PROVE RunOK(d)'
    <3>1. RunOK(d)
      BY <1>1 DEF RunsOK
    <3>2. CASE d # c \/ kind # "create"
      BY <3>1, <3>2, <1>7, <1>3 DEF RunOK
    <3>3. CASE d = c /\ kind = "create"
      BY <3>1, <3>3, <1>7, <1>3 DEF RunOK
    <3> QED BY <3>2, <3>3
  <2> QED BY <2>1, <2>2 DEF RunsOK
<1>9. CallOK(c)'
  <2>1. call[c].why \in {"none", "reuse"}
    BY <1>1, <1>3 DEF CallOK, Whys
  <2>2. Links(c)'
    BY <1>5, <1>6, <1>7 DEF Links
  <2> QED BY <1>5, <1>6, <2>1, <2>2 DEF CallOK, Steps, HasRow, Owns, Computes, Whys, Verifies
<1>10. RowsOK' /\ RowsMove /\ Hit
  BY <1>1, <1>3, SameRows, NoHit
<1>11. Acts(c)
  BY <1>3, <1>4, <1>5, <1>6, <1>7 DEF Acts
<1> QED BY <1>4, <1>8, <1>9, <1>10, <1>11, CallStep

LEMMA InsertKeeps ==
  ASSUME IInv, NEW c \in Calls, Insert(c)
  PROVE  IInv'
<1>1. CallsTyped /\ RowsOK /\ RunsOK /\ struck \in [Hazards -> Nat] /\ \A d \in Calls : CallOK(d)
  BY InvParts
<1>2. call[c].step = "reserve" /\ UNCHANGED <<run, struck>>
  BY DEF Insert, Step
<1>3. Hit
  BY <1>1, <1>2, NoHit
<1>4. call[c].created = FALSE /\ call[c].why \in {"none", "reuse"}
  BY <1>1, <1>2 DEF CallOK, Owns, Whys
<1>5. call[c].kind = "create" => run[c].link = NoRow /\ run[c].status # "none"
  BY <1>1, <1>2 DEF CallOK, Links
<1>6. CASE Holders(KeyOf[c]) # {}
  <2>1. Go(c, [step |-> "lookup", try |-> call[c].try + 1]) /\ UNCHANGED result
    BY <1>6 DEF Insert
  <2>2. CallsTyped' /\ \A d \in Calls : d # c => call'[d] = call[d]
    BY <1>1, <2>1, GoDoes
  <2>3. /\ call'[c].step = "lookup" /\ call'[c].kind = call[c].kind /\ call'[c].created = call[c].created
        /\ call'[c].why = call[c].why
    BY <1>1, <2>1, GoDoes DEF Fields
  <2>4. CallOK(c)'
    BY <2>3, <1>2, <1>4, <1>5 DEF CallOK, Steps, HasRow, Owns, Computes, Whys, Verifies, Links
  <2> QED BY <1>2, <1>3, <1>4, <2>1, <2>2, <2>3, <2>4, Quiet
<1>7. CASE Holders(KeyOf[c]) = {}
  <2> DEFINE s == [key |-> KeyOf[c], status |-> "pending", active |-> TRUE, content |-> "none", path |-> "pending"]
             next == IF call[c].kind = "create" THEN "link" ELSE "start"
  <2>1. PICK r \in Results : /\ result[r].status = "unused" /\ result' = [result EXCEPT ![r] = s]
                             /\ Go(c, [step |-> next, row |-> r, created |-> TRUE, try |-> 0])
    BY <1>7 DEF Insert
  <2>2. CallsTyped' /\ \A d \in Calls : d # c => call'[d] = call[d]
    BY <1>1, <2>1, GoDoes
  <2>3. /\ call'[c].step = next /\ call'[c].kind = call[c].kind /\ call'[c].created = TRUE
        /\ call'[c].row = r /\ call'[c].why = call[c].why
    BY <1>1, <2>1, GoDoes DEF Fields
  <2>4. Columns(s) /\ RowOK(s) /\ s.key = KeyOf[c] /\ s.status = "pending"
    BY DEF Columns, RowOK, RowFields, Open
  <2>5. Moves(r, s)
    BY <2>1 DEF Moves, Stored
  <2> HIDE DEF s
  <2>6. RowsOK' /\ RowsMove /\ \A q \in Results : q # r => result'[q] = result[q]
    BY <1>1, <1>7, <2>1, <2>4, <2>5, OneRow
  <2>7. result'[r] = s
    BY <1>1, <2>1 DEF RowsOK
  <2>8. RunsOK'
    BY <1>1, <1>2, <1>3, <2>6, SameRuns
  <2>9. \A d \in Calls : d # c /\ call[d].created => call[d].row # r
    BY <1>1, <2>1 DEF CallOK, Owns
  <2>10. Owns(c)'
    BY <2>2, <2>3, <2>4, <2>7, <2>9 DEF Owns
  <2>11. Links(c)'
    BY <2>3, <1>2, <1>5 DEF Links
  <2>12. CallOK(c)'
    BY <1>4, <2>3, <2>4, <2>7, <2>10, <2>11 DEF CallOK, Steps, HasRow, Computes, Whys, Verifies
  <2>13. Acts(c)
    BY <1>2, <2>1, <2>2, <2>3, <2>6 DEF Acts, Open
  <2> QED BY <1>3, <2>2, <2>6, <2>8, <2>12, <2>13, CallStep
<1> QED BY <1>6, <1>7

LEMMA LookupKeeps ==
  ASSUME IInv, NEW c \in Calls, Lookup(c)
  PROVE  IInv'
<1>1. CallsTyped /\ RowsOK /\ RunsOK /\ struck \in [Hazards -> Nat] /\ \A d \in Calls : CallOK(d)
  BY InvParts
<1>2. call[c].step = "lookup" /\ UNCHANGED <<run, struck>>
  BY DEF Lookup, Step
<1>3. Hit
  BY <1>1, <1>2, NoHit
<1>4. call[c].created = FALSE /\ call[c].why \in {"none", "reuse"}
  BY <1>1, <1>2 DEF CallOK, Owns, Whys
<1>5. call[c].kind = "create" => run[c].link = NoRow /\ run[c].status # "none"
  BY <1>1, <1>2 DEF CallOK, Links
<1>6. CASE Holders(KeyOf[c]) = {}
  <2>1. Go(c, [step |-> "reserve"]) /\ UNCHANGED result
    BY <1>6 DEF Lookup
  <2>2. CallsTyped' /\ \A d \in Calls : d # c => call'[d] = call[d]
    BY <1>1, <2>1, GoDoes
  <2>3. /\ call'[c].step = "reserve" /\ call'[c].kind = call[c].kind /\ call'[c].created = call[c].created
        /\ call'[c].why = call[c].why
    BY <1>1, <2>1, GoDoes DEF Fields
  <2>4. CallOK(c)'
    BY <2>3, <1>2, <1>4, <1>5 DEF CallOK, Steps, HasRow, Owns, Computes, Whys, Verifies, Links
  <2> QED BY <1>2, <1>3, <1>4, <2>1, <2>2, <2>3, <2>4, Quiet
<1>7. CASE Holders(KeyOf[c]) # {}
  <2>1. PICK r \in Holders(KeyOf[c]) :
          CASE result[r].status = "completed" ->
                   /\ Go(c, [step |-> "verify", row |-> r, why |-> "reuse"])
                   /\ UNCHANGED result
              [] result[r].status \in Blocking ->
                   /\ CASE call[c].kind = "create" -> Go(c, [step |-> "link", row |-> r])
                        [] call[c].kind = "ensure" -> Go(c, [step |-> "wait", row |-> r])
                        [] OTHER -> Returned(c)
                   /\ UNCHANGED result
              [] OTHER ->
                   /\ result' = [result EXCEPT ![r].active = FALSE]
                   /\ Go(c, [step |-> "reserve"])
    BY <1>7 DEF Lookup
  <2>2. r \in Results /\ result[r].active /\ RowOK(result[r])
    BY <1>1 DEF Holders, RowsOK
  <2>3. result[r].status \in {"completed"} \cup Open
    BY <2>2 DEF RowOK
  <2>4. CASE result[r].status = "completed"
    <3>1. Go(c, [step |-> "verify", row |-> r, why |-> "reuse"]) /\ UNCHANGED result
      BY <2>1, <2>4 DEF Blocking, Open
    <3>2. CallsTyped' /\ \A d \in Calls : d # c => call'[d] = call[d]
      BY <1>1, <3>1, GoDoes
    <3>3. /\ call'[c].step = "verify" /\ call'[c].kind = call[c].kind /\ call'[c].created = call[c].created
          /\ call'[c].why = "reuse" /\ call'[c].row = r
      BY <1>1, <3>1, GoDoes DEF Fields
    <3>4. CallOK(c)'
      BY <2>2, <2>4, <3>1, <3>3, <1>2, <1>4, <1>5
      DEF CallOK, Steps, HasRow, Owns, Computes, Whys, Verifies, Links, Stored
    <3> QED BY <1>2, <1>3, <1>4, <3>1, <3>2, <3>3, <3>4, Quiet
  <2>5. CASE result[r].status \in Open
    <3>0. /\ CASE call[c].kind = "create" -> Go(c, [step |-> "link", row |-> r])
               [] call[c].kind = "ensure" -> Go(c, [step |-> "wait", row |-> r])
               [] OTHER -> Returned(c)
          /\ UNCHANGED result
      BY <2>1, <2>5 DEF Blocking, Open
    <3>1. CASE call[c].kind = "create"
      <4>1. Go(c, [step |-> "link", row |-> r])
        BY <3>0, <3>1
      <4>2. CallsTyped' /\ \A d \in Calls : d # c => call'[d] = call[d]
        BY <1>1, <4>1, GoDoes
      <4>3. /\ call'[c].step = "link" /\ call'[c].kind = call[c].kind /\ call'[c].created = call[c].created
            /\ call'[c].why = call[c].why /\ call'[c].row = r
        BY <1>1, <4>1, GoDoes DEF Fields
      <4>4. CallOK(c)'
        BY <2>2, <2>5, <3>0, <3>1, <4>3, <1>2, <1>4, <1>5
        DEF CallOK, Steps, HasRow, Owns, Computes, Whys, Verifies, Links, Open
      <4> QED BY <1>2, <1>3, <1>4, <3>0, <4>2, <4>3, <4>4, Quiet
    <3>2. CASE call[c].kind = "ensure"
      <4>1. Go(c, [step |-> "wait", row |-> r])
        BY <3>0, <3>2
      <4>2. CallsTyped' /\ \A d \in Calls : d # c => call'[d] = call[d]
        BY <1>1, <4>1, GoDoes
      <4>3. /\ call'[c].step = "wait" /\ call'[c].kind = call[c].kind /\ call'[c].created = call[c].created
            /\ call'[c].row = r
        BY <1>1, <4>1, GoDoes DEF Fields
      <4>4. CallOK(c)'
        BY <2>2, <2>5, <3>0, <3>2, <4>3, <1>2, <1>4
        DEF CallOK, Steps, HasRow, Owns, Computes, Whys, Verifies, Links, Open
      <4> QED BY <1>2, <1>3, <1>4, <3>0, <4>2, <4>3, <4>4, Quiet
    <3>3. CASE call[c].kind \notin {"create", "ensure"}
      <4>1. Returned(c)
        BY <3>0, <3>3
      <4> QED BY <1>2, <1>3, <3>0, <4>1, QuietReturn
    <3> QED BY <3>1, <3>2, <3>3
  <2> QED BY <2>3, <2>4, <2>5
<1> QED BY <1>6, <1>7
-----------------------------------------------------------------------------
(* VerifyResult *)

LEMMA AfterVerifiedKeeps ==
  ASSUME IInv, NEW c \in Calls, call[c].step \in {"verify", "blocks"}, NEW s, NEW blocks,
         AfterVerified(c, s, blocks), UNCHANGED <<result, run, struck>>,
         result[call[c].row].status = "completed" /\ result[call[c].row].content # "rotten"
           => Valid(s, blocks) /\ PathVerified(s, blocks)
  PROVE  IInv'
<1>1. CallsTyped /\ RowsOK /\ RunsOK /\ struck \in [Hazards -> Nat] /\ CallOK(c)
  BY InvParts
<1>2. Hit
  BY <1>1, NoHit
<1> DEFINE r == call[c].row
           valid == Valid(s, blocks)
           path == PathVerified(s, blocks)
           handed == valid /\ s.content # "none"
<1>3. /\ r \in Results /\ result[r].status # "unused" /\ result[r].status \in Stored
      /\ call[c].why \in {"reuse", "own", "again"}
      /\ call[c].created \in BOOLEAN
      /\ call[c].why = "own" => call[c].created
      /\ call[c].why = "reuse" => ~call[c].created
      /\ call[c].kind = "create" => run[c].status # "none"
      /\ call[c].kind = "create" /\ call[c].why = "reuse" => run[c].link = NoRow
      /\ call[c].kind = "create" /\ call[c].created => run[c].link = r
      /\ call[c].created => \A d \in Calls : call[d].created /\ call[d].row = r => d = c
  BY <1>1 DEF CallOK, HasRow, Owns, Whys, Verifies, Links
<1>4. ASSUME NEW step \in {"withdraw", "link", "finish", "verify"},
             Go(c, [step |-> step, why |-> "again", try |-> 0, seen |-> Unused]),
             step = "withdraw" => /\ call[c].created
                                  /\ result[r].status = "completed" => result[r].content = "rotten",
             step = "link" => call[c].why = "reuse" /\ call[c].kind = "create",
             step = "finish" => call[c].kind = "create",
             step = "verify" => call[c].kind # "create"
      PROVE  IInv'
  <2>1. CallsTyped' /\ \A d \in Calls : d # c => call'[d] = call[d]
    BY <1>1, <1>4, GoDoes
  <2>2. /\ call'[c].step = step /\ call'[c].why = "again" /\ call'[c].kind = call[c].kind
        /\ call'[c].created = call[c].created /\ call'[c].row = r
    BY <1>1, <1>4, GoDoes DEF Fields
  <2>3. HasRow(c)' /\ Owns(c)' /\ Computes(c)' /\ Whys(c)'
    BY <2>1, <2>2, <1>3, <1>4 DEF HasRow, Owns, Computes, Whys
  <2>4. Verifies(c)' /\ Links(c)'
    BY <2>2, <1>3, <1>4 DEF Verifies, Links
  <2>5. CallOK(c)'
    BY <2>2, <2>3, <2>4, <1>3, <1>4 DEF CallOK, Steps
  <2> QED BY <1>2, <2>1, <2>2, <2>5, Quiet
<1>5. CASE call[c].why = "reuse" /\ ~path
  <2>1. Go(c, [step |-> "spoil", seen |-> Unused])
    BY <1>5 DEF AfterVerified
  <2>2. CallsTyped' /\ \A d \in Calls : d # c => call'[d] = call[d]
    BY <1>1, <2>1, GoDoes
  <2>3. /\ call'[c].step = "spoil" /\ call'[c].why = "reuse" /\ call'[c].kind = call[c].kind
        /\ call'[c].created = FALSE /\ call'[c].row = r
    BY <1>1, <1>3, <1>5, <2>1, GoDoes DEF Fields
  <2>4. result[r].status = "completed" => result[r].content = "rotten"
    BY <1>5
  <2>5. CallOK(c)'
    BY <2>3, <2>4, <1>3, <1>5 DEF CallOK, Steps, HasRow, Owns, Computes, Whys, Verifies, Links
  <2> QED BY <1>2, <2>2, <2>3, <2>5, Quiet
<1>6. CASE call[c].why = "own" /\ ~valid
  <2>1. Go(c, [step |-> "withdraw", why |-> "again", try |-> 0, seen |-> Unused])
    BY <1>6 DEF AfterVerified
  <2> QED BY <2>1, <1>3, <1>4, <1>6
<1>7. CASE call[c].why = "again" /\ ~handed
  <2>1. GiveUp(c)
    BY <1>7 DEF AfterVerified
  <2> QED BY <1>2, <2>1, QuietGiveUp
<1>8. CASE /\ ~(call[c].why = "reuse" /\ ~path) /\ ~(call[c].why = "own" /\ ~valid)
           /\ ~(call[c].why = "again" /\ ~handed)
  <2>0. (CASE call[c].kind = "create" ->
               Go(c, [step |-> IF call[c].why = "reuse" THEN "link" ELSE "finish",
                      why |-> "again", try |-> 0, seen |-> Unused])
           [] call[c].kind = "ensure" /\ call[c].why # "again" ->
               Go(c, [step |-> "verify", why |-> "again", try |-> 0, seen |-> Unused])
           [] OTHER -> Returned(c))
    BY <1>8 DEF AfterVerified
  <2>1. CASE call[c].kind = "create" /\ call[c].why = "reuse"
    <3>1. Go(c, [step |-> "link", why |-> "again", try |-> 0, seen |-> Unused])
      BY <2>0, <2>1
    <3> QED BY <3>1, <2>1, <1>4
  <2>2. CASE call[c].kind = "create" /\ call[c].why # "reuse"
    <3>1. Go(c, [step |-> "finish", why |-> "again", try |-> 0, seen |-> Unused])
      BY <2>0, <2>2
    <3> QED BY <3>1, <2>2, <1>4
  <2>3. CASE call[c].kind = "ensure" /\ call[c].why # "again"
    <3>1. Go(c, [step |-> "verify", why |-> "again", try |-> 0, seen |-> Unused])
      BY <2>0, <2>3
    <3> QED BY <3>1, <2>3, <1>4
  <2>4. CASE call[c].kind # "create" /\ ~(call[c].kind = "ensure" /\ call[c].why # "again")
    <3>1. Returned(c)
      BY <2>0, <2>4
    <3> QED BY <3>1, <1>2, QuietReturn
  <2> QED BY <2>1, <2>2, <2>3, <2>4
<1> QED BY <1>5, <1>6, <1>7, <1>8

\* A row whose columns are in order passes the audit unless its blocks rotted.
LEMMA SoundIsValid ==
  ASSUME NEW s, RowOK(s), s.status \notin {"unused", "deleted"},
         NEW blocks, s.path = "available" => blocks = "sound"
  PROVE  Valid(s, blocks)
BY DEF RowOK, Valid, Open, Dropped, Stored

LEMMA ReadRowKeeps ==
  ASSUME IInv, NEW c \in Calls, ReadRow(c)
  PROVE  IInv'
<1>1. CallsTyped /\ RowsOK /\ RunsOK /\ struck \in [Hazards -> Nat] /\ CallOK(c)
  BY InvParts
<1>2. call[c].step = "verify" /\ UNCHANGED <<result, run, struck>>
  BY DEF ReadRow, Step
<1> DEFINE r == call[c].row
<1>3. r \in Results /\ RowOK(result[r]) /\ result[r].status \in Stored
  BY <1>1, <1>2 DEF CallOK, HasRow, Verifies, RowsOK
<1>4. CASE result[r].path = "available"
  <2>1. Go(c, [step |-> "blocks", seen |-> result[r]])
    BY <1>3, <1>4 DEF ReadRow, Mine, Stored
  <2>2. CallsTyped' /\ \A d \in Calls : d # c => call'[d] = call[d]
    BY <1>1, <2>1, GoDoes
  <2>3. /\ call'[c].step = "blocks" /\ call'[c].why = call[c].why /\ call'[c].kind = call[c].kind
        /\ call'[c].created = call[c].created /\ call'[c].row = r /\ call'[c].seen = result[r]
    BY <1>1, <2>1, GoDoes DEF Fields
  <2>4. HasRow(c)' /\ Owns(c)' /\ Computes(c)' /\ Whys(c)' /\ Links(c)'
    BY <1>1, <1>2, <2>2, <2>3 DEF CallOK, HasRow, Owns, Computes, Whys, Links
  <2>5. Verifies(c)'
    <3>1. RowOK(call'[c].seen)
      BY <1>3, <2>3
    <3> QED BY <1>2, <1>3, <1>4, <2>3, <3>1 DEF Verifies, RowOK
  <2>6. CallOK(c)'
    BY <1>1, <2>3, <2>4, <2>5 DEF CallOK, Steps
  <2>7. Hit
    BY <1>1, <1>2, NoHit
  <2> QED BY <1>2, <2>2, <2>3, <2>6, <2>7, Quiet
<1>5. CASE result[r].path # "available"
  <2>1. AfterVerified(c, result[r], "none")
    BY <1>5 DEF ReadRow, Mine
  <2>2. result[r].status # "completed"
    BY <1>3, <1>5 DEF RowOK, Open, Dropped
  <2> QED BY <1>2, <2>1, <2>2, AfterVerifiedKeeps
<1> QED BY <1>4, <1>5

LEMMA ReadBlocksKeeps ==
  ASSUME IInv, NEW c \in Calls, ReadBlocks(c)
  PROVE  IInv'
<1>1. CallsTyped /\ RowsOK /\ RunsOK /\ struck \in [Hazards -> Nat] /\ CallOK(c)
  BY InvParts
<1>2. call[c].step = "blocks" /\ UNCHANGED <<result, run, struck>>
  BY DEF ReadBlocks, Step
<1> DEFINE r == call[c].row
           s == call[c].seen
<1>3. AfterVerified(c, s, Blocks(r))
  BY DEF ReadBlocks, Mine
<1>4. /\ r \in Results /\ RowOK(result[r]) /\ RowOK(s) /\ s.path = "available"
      /\ result[r].status = "completed" => s.status = "completed"
  BY <1>1, <1>2 DEF CallOK, HasRow, Verifies, RowsOK
<1>5. ASSUME result[r].status = "completed", result[r].content # "rotten"
      PROVE  Valid(s, Blocks(r)) /\ PathVerified(s, Blocks(r))
  <2>1. s.status = "completed" /\ result[r].path = "available" /\ result[r].content = "sound"
    BY <1>4, <1>5 DEF RowOK, Open, Dropped
  <2>2. Blocks(r) = "sound"
    BY <2>1 DEF Blocks
  <2>3. Valid(s, Blocks(r))
    BY <1>4, <2>1, <2>2, SoundIsValid
  <2> QED BY <1>4, <2>1, <2>3 DEF PathVerified, Stored
<1> QED BY <1>2, <1>3, <1>5, AfterVerifiedKeeps

\* invalidateActive touches a completed row only.
LEMMA InvalidatedRows ==
  ASSUME RowsOK, RunsOK, NEW r \in Results, result' = Invalidated(r)
  PROVE  /\ RowsOK' /\ RowsMove
         /\ \A q \in Results : result[q].status \in Open => result'[q] = result[q]
<1>1. CASE result[r].status = "completed"
  <2> DEFINE s == [result[r] EXCEPT !.status = "invalidated", !.active = FALSE]
  <2>1. result' = [result EXCEPT ![r] = s]
    BY <1>1 DEF Invalidated, RowsOK
  <2>2. /\ Columns(s) /\ s.status = "invalidated" /\ s.active = FALSE /\ s.content = result[r].content
        /\ s.path = result[r].path /\ s.key = result[r].key
    BY DEF RowsOK, Columns, RowFields
  <2> HIDE DEF s
  <2>3. RowOK(s) /\ Moves(r, s)
    BY <1>1, <2>2 DEF RowsOK, RowOK, Moves, Stored, Open, Dropped
  <2>4. RowsOK' /\ RowsMove /\ \A q \in Results : q # r => result'[q] = result[q]
    BY <2>1, <2>2, <2>3, OneRow
  <2> QED BY <1>1, <2>4 DEF Open
<1>2. CASE result[r].status # "completed"
  <2>1. result' = result
    BY <1>2 DEF Invalidated
  <2> QED BY <2>1, SameRows
<1> QED BY <1>1, <1>2

LEMMA SpoilKeeps ==
  ASSUME IInv, NEW c \in Calls, Spoil(c)
  PROVE  IInv'
<1>1. CallsTyped /\ RowsOK /\ RunsOK /\ struck \in [Hazards -> Nat] /\ CallOK(c) /\ \A d \in Calls : CallOK(d)
  BY InvParts
<1>2. call[c].step = "spoil" /\ UNCHANGED <<run, struck>> /\ result' = Invalidated(call[c].row)
  BY DEF Spoil, Step, Mine
<1>3. call[c].row \in Results
  BY <1>1, <1>2 DEF CallOK, HasRow
<1>4. Hit
  BY <1>1, <1>2, NoHit
<1>5. /\ RowsOK' /\ RowsMove
      /\ \A q \in Results : result[q].status \in Open => result'[q] = result[q]
  BY <1>1, <1>2, <1>3, InvalidatedRows
<1>6. RunsOK'
  BY <1>1, <1>2, <1>4, <1>5, SameRuns
<1>7. call[c].created = FALSE /\ call[c].why \in {"none", "reuse"}
  BY <1>1, <1>2 DEF CallOK, Owns, Whys
<1>8. /\ CallsTyped' /\ (\A d \in Calls : d # c => call'[d] = call[d])
      /\ (call'[c].created => call[c].created /\ call'[c].row = call[c].row) /\ CallOK(c)'
  <2>1. CASE Go(c, [step |-> "reserve"])
    <3>1. CallsTyped' /\ \A d \in Calls : d # c => call'[d] = call[d]
      BY <1>1, <2>1, GoDoes
    <3>2. /\ call'[c].step = "reserve" /\ call'[c].kind = call[c].kind /\ call'[c].created = call[c].created
          /\ call'[c].why = call[c].why /\ call'[c].row = call[c].row
      BY <1>1, <2>1, GoDoes DEF Fields
    <3>3. Links(c)'
      BY <1>1, <1>2, <1>7, <3>2 DEF CallOK, Links
    <3>4. CallOK(c)'
      BY <3>2, <3>3, <1>2, <1>7 DEF CallOK, Steps, HasRow, Owns, Computes, Whys, Verifies
    <3> QED BY <3>1, <3>2, <3>4
  <2>2. CASE GiveUp(c)
    BY <1>1, <1>2, <1>5, <2>2, GiveUpOK
  <2> QED BY <2>1, <2>2 DEF Spoil
<1>9. Acts(c)
  BY <1>2, <1>5, <1>8 DEF Acts
<1> QED BY <1>4, <1>5, <1>6, <1>8, <1>9, CallStep
-----------------------------------------------------------------------------
(* The owner of a reservation *)

LEMMA LinkKeeps ==
  ASSUME IInv, NEW c \in Calls, Link(c)
  PROVE  IInv'
<1>1. CallsTyped /\ RowsOK /\ RunsOK /\ struck \in [Hazards -> Nat] /\ CallOK(c) /\ RunOK(c)
  BY InvParts DEF RunsOK
<1> DEFINE r == call[c].row
<1>2. call[c].step = "link" /\ UNCHANGED <<result, struck>>
  BY DEF Link, Step
<1>3. Hit /\ RowsMove /\ RowsOK'
  BY <1>1, <1>2, NoHit, SameRows
<1>4. /\ r \in Results /\ result[r].status # "unused" /\ call[c].kind = "create"
      /\ run[c].link = NoRow /\ run[c].status # "none"
      /\ call[c].created \in BOOLEAN
      /\ call[c].created => result[r].status = "pending" /\ result[r].key = KeyOf[c]
      /\ ~call[c].created /\ call[c].why = "again" => result[r].status \in Stored
      /\ call[c].created => \A d \in Calls : call[d].created /\ call[d].row = r => d = c
      /\ call[c].created => call[c].why # "again"
  BY <1>1, <1>2 DEF CallOK, HasRow, Owns, Computes, Whys, Verifies, Links
<1>5. CASE result[r].status = "deleted"
  <2>1. GiveUp(c) /\ UNCHANGED run
    BY <1>5 DEF Link, Mine
  <2> QED BY <1>2, <1>3, <2>1, QuietGiveUp
<1>6. CASE result[r].status # "deleted"
  <2>1. run' = [run EXCEPT ![c].link = r]
    BY <1>6 DEF Link, Mine
  <2>2. /\ \A d \in Calls : d # c => run'[d] = run[d]
        /\ run'[c].link = r /\ run'[c].status = run[c].status
    BY <1>1, <2>1 DEF RunsOK
  <2>3. RunsOK'
    <3>1. run' = [d \in Calls |-> run'[d]] /\ \A d \in Calls : run'[d] = [f \in {"status", "link"} |-> run'[d][f]]
      BY <1>1, <2>1 DEF RunsOK
    <3>2. ASSUME NEW d \in Calls, d # c PROVE RunOK(d)'
      <4>1. RunOK(d)
        BY <1>1 DEF RunsOK
      <4> QED BY <4>1, <3>2, <2>2, <1>2 DEF RunOK
    <3>3. RunOK(c)'
      <4>1. run[c].status \notin {"completed", "cancelled", "none"}
        BY <1>1, <1>4 DEF RunOK
      <4> QED BY <4>1, <2>2, <1>2, <1>4, <1>6 DEF RunOK
    <3> QED BY <3>1, <3>2, <3>3 DEF RunsOK
  <2>4. \/ call[c].created /\ Go(c, [step |-> "start"])
        \/ ~call[c].created /\ call[c].why = "again" /\ Go(c, [step |-> "verify"])
        \/ Returned(c)
    <3>1. CASE call[c].created
      BY <1>4, <1>6, <3>1 DEF Link, Mine
    <3>2. CASE ~call[c].created /\ call[c].why = "again"
      BY <1>6, <3>2 DEF Link, Mine
    <3>3. CASE ~call[c].created /\ call[c].why # "again"
      BY <1>6, <3>3 DEF Link, Mine
    <3> QED BY <3>1, <3>2, <3>3
  <2>5. ASSUME CallsTyped', \A d \in Calls : d # c => call'[d] = call[d],
               call'[c].created => call[c].created /\ call'[c].row = call[c].row, CallOK(c)'
        PROVE  IInv'
    <3>1. Acts(c)
      BY <2>2, <2>5, <1>2 DEF Acts
    <3> QED BY <1>3, <2>3, <2>5, <3>1, CallStep
  <2>6. CASE call[c].created /\ Go(c, [step |-> "start"])
    <3>1. CallsTyped' /\ \A d \in Calls : d # c => call'[d] = call[d]
      BY <1>1, <2>6, GoDoes
    <3>2. /\ call'[c].step = "start" /\ call'[c].kind = call[c].kind /\ call'[c].created = TRUE
          /\ call'[c].why = call[c].why /\ call'[c].row = r
      BY <1>1, <1>4, <2>6, GoDoes DEF Fields
    <3>3. Owns(c)'
      BY <1>2, <1>4, <2>6, <3>1, <3>2 DEF Owns
    <3>4. CallOK(c)'
      BY <3>2, <3>3, <1>2, <1>4, <2>2, <2>6 DEF CallOK, Steps, HasRow, Computes, Whys, Verifies, Links
    <3> QED BY <2>5, <2>6, <3>1, <3>2, <3>4
  <2>7. CASE ~call[c].created /\ call[c].why = "again" /\ Go(c, [step |-> "verify"])
    <3>1. CallsTyped' /\ \A d \in Calls : d # c => call'[d] = call[d]
      BY <1>1, <2>7, GoDoes
    <3>2. /\ call'[c].step = "verify" /\ call'[c].kind = call[c].kind /\ call'[c].created = FALSE
          /\ call'[c].why = "again" /\ call'[c].row = r
      BY <1>1, <1>4, <2>7, GoDoes DEF Fields
    <3>3. CallOK(c)'
      BY <3>2, <1>2, <1>4, <2>2, <2>7 DEF CallOK, Steps, HasRow, Owns, Computes, Whys, Verifies, Links
    <3> QED BY <2>5, <3>1, <3>2, <3>3
  <2>8. CASE Returned(c)
    BY <1>1, <2>5, <2>8, IdleOK
  <2> QED BY <2>4, <2>6, <2>7, <2>8
<1> QED BY <1>5, <1>6

\* markTerminal touches an open row only; no run is settled by it.
LEMMA EndedRows ==
  ASSUME RowsOK, RunsOK, NEW r \in Results, NEW status \in Dropped, result' = Ended(r, status)
  PROVE  /\ RowsOK' /\ RowsMove
         /\ \A q \in Results : q # r => result'[q] = result[q]
         /\ result[r].status \in Open => result'[r].status = status
<1>1. CASE result[r].status \in Open
  <2> DEFINE s == [result[r] EXCEPT !.status = status, !.active = FALSE]
  <2>1. result' = [result EXCEPT ![r] = s]
    BY <1>1 DEF Ended, RowsOK
  <2>2. /\ Columns(s) /\ s.status = status /\ s.active = FALSE /\ s.content = result[r].content
        /\ s.path = result[r].path /\ s.key = result[r].key
    BY DEF RowsOK, Columns, RowFields
  <2> HIDE DEF s
  <2>3. RowOK(s) /\ Moves(r, s)
    BY <1>1, <2>2 DEF RowsOK, RowOK, Moves, Stored, Open, Dropped
  <2>4. RowsOK' /\ RowsMove /\ \A q \in Results : q # r => result'[q] = result[q]
    BY <2>1, <2>2, <2>3, OneRow
  <2>5. result'[r] = s
    BY <2>1 DEF RowsOK
  <2> QED BY <2>2, <2>4, <2>5
<1>2. CASE result[r].status \notin Open
  <2>1. result' = result
    BY <1>2 DEF Ended
  <2> QED BY <1>2, <2>1, SameRows
<1> QED BY <1>1, <1>2

LEMMA LinkFailsKeeps ==
  ASSUME IInv, NEW c \in Calls, LinkFails(c)
  PROVE  IInv'
<1>1. CallsTyped /\ RowsOK /\ RunsOK /\ struck \in [Hazards -> Nat] /\ CallOK(c) /\ \A d \in Calls : CallOK(d)
  BY InvParts
<1> DEFINE r == call[c].row
<1>2. call[c].step = "link" /\ UNCHANGED run /\ GiveUp(c) /\ Strike("fault")
  BY DEF LinkFails, Step
<1>3. Hit
  BY <1>1, <1>2, StrikeHits DEF Hazards
<1>4. r \in Results
  BY <1>1, <1>2 DEF CallOK, HasRow
<1>5. CASE call[c].created
  <2>1. result' = Ended(r, "failed")
    BY <1>5 DEF LinkFails, Mine
  <2>2. RowsOK' /\ RowsMove /\ \A q \in Results : q # r => result'[q] = result[q]
    BY <1>1, <1>4, <2>1, EndedRows DEF Dropped
  <2>3. RunsOK'
    BY <1>1, <1>2, <1>3, <2>2, SameRuns
  <2>4. /\ CallsTyped' /\ (\A d \in Calls : d # c => call'[d] = call[d])
        /\ (call'[c].created => call[c].created /\ call'[c].row = call[c].row) /\ CallOK(c)'
    BY <1>1, <1>2, <2>2, GiveUpOK
  <2>5. Acts(c)
    BY <1>2, <1>5, <2>2, <2>4 DEF Acts
  <2> QED BY <1>3, <2>2, <2>3, <2>4, <2>5, CallStep
<1>6. CASE ~call[c].created
  <2>1. UNCHANGED result
    BY <1>6 DEF LinkFails
  <2> QED BY <1>2, <1>3, <2>1, QuietGiveUp
<1> QED BY <1>5, <1>6

\* The call's next step stays with the row it owns.
LEMMA OwnerGoes ==
  ASSUME IInv, NEW c \in Calls, call[c].created, RowsMove, NEW changes,
         Go(c, changes), DOMAIN changes \subseteq {"step", "why", "outcome"},
         call'[c].step \notin {"idle", "reserve", "lookup", "spoil", "wait"},
         call'[c].step \in {"verify", "blocks"} => call'[c].why # "reuse"
  PROVE  /\ CallsTyped'
         /\ \A d \in Calls : d # c => call'[d] = call[d]
         /\ call'[c].created = TRUE /\ call'[c].row = call[c].row /\ call'[c].kind = call[c].kind
         /\ HasRow(c)' /\ Owns(c)'
<1>1. CallsTyped /\ CallOK(c)
  BY InvParts
<1>2. CallsTyped' /\ \A d \in Calls : d # c => call'[d] = call[d]
  BY <1>1, GoDoes
<1>3. \A f \in Fields : call'[c][f] = IF f \in DOMAIN changes THEN changes[f] ELSE call[c][f]
  BY <1>1, GoDoes
<1>4. call'[c].created = TRUE /\ call'[c].row = call[c].row /\ call'[c].kind = call[c].kind
  BY <1>1, <1>3 DEF Fields, CallOK
<1>5. /\ call[c].row \in Results /\ result[call[c].row].status # "unused"
      /\ \A d \in Calls : call[d].created /\ call[d].row = call[c].row => d = c
  BY <1>1 DEF CallOK, Owns
<1>6. result'[call[c].row].status # "unused"
  BY <1>5 DEF RowsMove, Moves
<1>7. HasRow(c)' /\ Owns(c)'
  BY <1>2, <1>4, <1>5, <1>6 DEF HasRow, Owns
<1> QED BY <1>2, <1>4, <1>7

LEMMA StartKeeps ==
  ASSUME IInv, NEW c \in Calls, Start(c)
  PROVE  IInv'
<1>1. CallsTyped /\ RowsOK /\ RunsOK /\ struck \in [Hazards -> Nat] /\ CallOK(c)
  BY InvParts
<1> DEFINE r == call[c].row
<1>2. call[c].step = "start" /\ UNCHANGED <<run, struck>>
  BY DEF Start, Step
<1>3. Hit
  BY <1>1, <1>2, NoHit
<1>4. /\ r \in Results /\ call[c].created /\ result[r].status = "pending" /\ result[r].key = KeyOf[c]
      /\ call[c].kind = "create" => run[c].link = r /\ run[c].status # "none"
  BY <1>1, <1>2 DEF CallOK, HasRow, Owns, Computes, Links
<1> DEFINE s == [result[r] EXCEPT !.status = "running"]
<1>5. result' = [result EXCEPT ![r] = s] /\ Go(c, [step |-> "execute"])
  BY <1>4 DEF Start, Mine, RowsOK
<1>6. /\ Columns(s) /\ s.status = "running" /\ s.active = result[r].active /\ s.content = result[r].content
      /\ s.path = result[r].path /\ s.key = result[r].key
  BY <1>1, <1>4 DEF RowsOK, Columns, RowFields
<1> HIDE DEF s
<1>7. RowOK(s) /\ Moves(r, s)
  BY <1>1, <1>4, <1>6 DEF RowsOK, RowOK, Moves, Stored, Open, Dropped
<1>8. RowsOK' /\ RowsMove /\ \A q \in Results : q # r => result'[q] = result[q]
  BY <1>1, <1>4, <1>5, <1>6, <1>7, OneRow
<1>9. result'[r] = s
  BY <1>1, <1>4, <1>5 DEF RowsOK
<1>10. RunsOK'
  BY <1>1, <1>2, <1>3, <1>8, SameRuns
<1>11. call'[c].step = "execute"
  BY <1>1, <1>5, GoDoes DEF Fields
<1>12. /\ CallsTyped' /\ (\A d \in Calls : d # c => call'[d] = call[d])
       /\ call'[c].created = TRUE /\ call'[c].row = r /\ call'[c].kind = call[c].kind
       /\ HasRow(c)' /\ Owns(c)'
  <2>1. DOMAIN [step |-> "execute"] \subseteq {"step", "why", "outcome"}
    OBVIOUS
  <2> QED BY <1>4, <1>5, <1>8, <1>11, <2>1, OwnerGoes
<1>13. CallOK(c)'
  BY <1>2, <1>4, <1>6, <1>9, <1>11, <1>12 DEF CallOK, Steps, Computes, Whys, Verifies, Links
<1>14. Acts(c)
  BY <1>2, <1>4, <1>8, <1>12 DEF Acts
<1> QED BY <1>3, <1>8, <1>10, <1>12, <1>13, <1>14, CallStep

LEMMA StartFailsKeeps ==
  ASSUME IInv, NEW c \in Calls, StartFails(c)
  PROVE  IInv'
<1>1. struck \in [Hazards -> Nat] /\ Strike("fault") /\ UNCHANGED <<result, run>> /\ GiveUp(c)
  BY InvParts DEF StartFails
<1>2. Hit
  BY <1>1, StrikeHits DEF Hazards
<1> QED BY <1>1, <1>2, QuietGiveUp

\* The owner goes on to store its result, or to drop its reservation.
LEMMA OwnerMoves ==
  ASSUME IInv, NEW c \in Calls, call[c].step \in {"execute", "store"}, UNCHANGED <<result, run>>, Hit,
         Go(c, [step |-> "store"]) \/ \E outcome \in Dropped : Go(c, [step |-> "drop", outcome |-> outcome])
  PROVE  IInv'
<1>1. CallsTyped /\ RowsOK /\ CallOK(c)
  BY InvParts
<1>2. RowsMove
  BY <1>1, SameRows
<1>3. /\ call[c].created /\ result[call[c].row].status = "running" /\ result[call[c].row].key = KeyOf[c]
      /\ call[c].kind = "create" => run[c].link = call[c].row /\ run[c].status # "none"
  BY <1>1 DEF CallOK, Owns, Computes, Links
<1>4. CASE Go(c, [step |-> "store"])
  <2>1. call'[c].step = "store"
    BY <1>1, <1>4, GoDoes DEF Fields
  <2>2. /\ CallsTyped' /\ (\A d \in Calls : d # c => call'[d] = call[d])
        /\ call'[c].created = TRUE /\ call'[c].row = call[c].row /\ call'[c].kind = call[c].kind
        /\ HasRow(c)' /\ Owns(c)'
    <3>1. DOMAIN [step |-> "store"] \subseteq {"step", "why", "outcome"}
      OBVIOUS
    <3> QED BY <1>2, <1>3, <1>4, <2>1, <3>1, OwnerGoes
  <2>3. CallOK(c)'
    BY <1>3, <2>1, <2>2 DEF CallOK, Steps, Computes, Whys, Verifies, Links
  <2> QED BY <1>3, <2>2, <2>3, Quiet
<1>5. ASSUME NEW outcome \in Dropped, Go(c, [step |-> "drop", outcome |-> outcome])
      PROVE  IInv'
  <2>1. call'[c].step = "drop" /\ call'[c].outcome = outcome
    BY <1>1, <1>5, GoDoes DEF Fields
  <2>2. /\ CallsTyped' /\ (\A d \in Calls : d # c => call'[d] = call[d])
        /\ call'[c].created = TRUE /\ call'[c].row = call[c].row /\ call'[c].kind = call[c].kind
        /\ HasRow(c)' /\ Owns(c)'
    <3>1. DOMAIN [step |-> "drop", outcome |-> outcome] \subseteq {"step", "why", "outcome"}
      OBVIOUS
    <3> QED BY <1>2, <1>3, <1>5, <2>1, <3>1, OwnerGoes
  <2>3. CallOK(c)'
    BY <1>3, <2>1, <2>2 DEF CallOK, Steps, Computes, Whys, Verifies, Links
  <2> QED BY <1>3, <2>2, <2>3, Quiet
<1> QED BY <1>4, <1>5

LEMMA ExecuteKeeps ==
  ASSUME IInv, NEW c \in Calls, Execute(c)
  PROVE  IInv'
<1>1. call[c].step = "execute" /\ UNCHANGED <<result, run>> /\ Hit
  BY InvParts, NoHit DEF Execute, Step
<1>2. Go(c, [step |-> "store"]) \/ \E outcome \in Dropped : Go(c, [step |-> "drop", outcome |-> outcome])
  BY DEF Execute
<1> QED BY <1>1, <1>2, OwnerMoves

LEMMA StoreFailsKeeps ==
  ASSUME IInv, NEW c \in Calls, StoreFails(c)
  PROVE  IInv'
<1>1. struck \in [Hazards -> Nat] /\ Strike("fault") /\ call[c].step = "store" /\ UNCHANGED <<result, run>>
  BY InvParts DEF StoreFails, Step
<1>2. Hit
  BY <1>1, StrikeHits DEF Hazards
<1>3. Go(c, [step |-> "store"]) \/ \E outcome \in Dropped : Go(c, [step |-> "drop", outcome |-> outcome])
  BY DEF StoreFails
<1> QED BY <1>1, <1>2, <1>3, OwnerMoves

LEMMA StoreKeeps ==
  ASSUME IInv, NEW c \in Calls, Store(c)
  PROVE  IInv'
<1>1. CallsTyped /\ RowsOK /\ RunsOK /\ struck \in [Hazards -> Nat] /\ CallOK(c)
  BY InvParts
<1> DEFINE r == call[c].row
<1>2. call[c].step = "store" /\ UNCHANGED <<run, struck>>
  BY DEF Store, Step
<1>3. Hit
  BY <1>1, <1>2, NoHit
<1>4. /\ r \in Results /\ call[c].created /\ result[r].status = "running"
      /\ call[c].kind = "create" => run[c].link = r /\ run[c].status # "none"
  BY <1>1, <1>2 DEF CallOK, HasRow, Owns, Computes, Links
<1> DEFINE s == [result[r] EXCEPT !.status = "completed", !.content = "sound", !.path = "available"]
<1>5. result' = [result EXCEPT ![r] = s] /\ Go(c, [step |-> "verify", why |-> "own"])
  BY <1>4 DEF Store, Mine, RowsOK, Open
<1>6. /\ Columns(s) /\ s.status = "completed" /\ s.active = result[r].active /\ s.content = "sound"
      /\ s.path = "available" /\ s.key = result[r].key
  BY ZenonT(60), <1>1, <1>4 DEF RowsOK, Columns, RowFields
<1> HIDE DEF s
<1>7. RowOK(s) /\ Moves(r, s)
  BY <1>1, <1>4, <1>6 DEF RowsOK, RowOK, Moves, Stored, Open, Dropped
<1>8. RowsOK' /\ RowsMove /\ \A q \in Results : q # r => result'[q] = result[q]
  <2>1. s.active => result[r].active /\ s.key = result[r].key
    BY <1>6
  <2> QED BY <1>1, <1>4, <1>5, <1>6, <1>7, <2>1, OneRow
<1>9. result'[r] = s
  BY <1>1, <1>4, <1>5 DEF RowsOK
<1>10. RunsOK'
  BY <1>1, <1>2, <1>3, <1>8, SameRuns
<1>11. call'[c].step = "verify" /\ call'[c].why = "own"
  BY <1>1, <1>5, GoDoes DEF Fields
<1>12. /\ CallsTyped' /\ (\A d \in Calls : d # c => call'[d] = call[d])
       /\ call'[c].created = TRUE /\ call'[c].row = r /\ call'[c].kind = call[c].kind
       /\ HasRow(c)' /\ Owns(c)'
  <2>1. DOMAIN [step |-> "verify", why |-> "own"] \subseteq {"step", "why", "outcome"}
    OBVIOUS
  <2> QED BY <1>4, <1>5, <1>8, <1>11, <2>1, OwnerGoes
<1>13. CallOK(c)'
  BY <1>2, <1>4, <1>6, <1>9, <1>11, <1>12 DEF CallOK, Steps, Computes, Whys, Verifies, Links, Stored
<1>14. Acts(c)
  BY <1>2, <1>4, <1>8, <1>12 DEF Acts
<1> QED BY <1>3, <1>8, <1>10, <1>12, <1>13, <1>14, CallStep
LEMMA DropKeeps ==
  ASSUME IInv, NEW c \in Calls, Drop(c)
  PROVE  IInv'
<1>1. CallsTyped /\ RowsOK /\ RunsOK /\ struck \in [Hazards -> Nat] /\ CallOK(c)
  BY InvParts
<1> DEFINE r == call[c].row
<1>2. call[c].step = "drop" /\ UNCHANGED run
  BY DEF Drop, Step
<1>3. /\ r \in Results /\ call[c].created /\ result[r].status = "running" /\ call[c].outcome \in Dropped
      /\ call[c].kind = "create" => run[c].link = r /\ run[c].status # "none"
  BY <1>1, <1>2 DEF CallOK, HasRow, Owns, Computes, Whys, Links
<1>4. /\ Hit /\ RowsOK' /\ RowsMove /\ \A q \in Results : q # r => result'[q] = result[q]
      /\ result'[r].status = call[c].outcome \/ struck'["fault"] > 0
  <2>1. CASE result' = Ended(r, call[c].outcome) /\ UNCHANGED struck
    BY <1>1, <1>3, <2>1, EndedRows, NoHit DEF Open
  <2>2. CASE Strike("fault") /\ UNCHANGED result
    BY <1>1, <2>2, StrikeHits, SameRows DEF Hazards
  <2> QED BY <2>1, <2>2 DEF Drop, Mine
<1>5. RunsOK'
  BY <1>1, <1>2, <1>4, SameRuns
<1>6. CASE call[c].kind = "create"
  <2>1. Go(c, [step |-> "unfinish"])
    BY <1>6 DEF Drop
  <2>2. call'[c].step = "unfinish" /\ call'[c].outcome = call[c].outcome
    BY <1>1, <2>1, GoDoes DEF Fields
  <2>3. /\ CallsTyped' /\ (\A d \in Calls : d # c => call'[d] = call[d])
        /\ call'[c].created = TRUE /\ call'[c].row = r /\ call'[c].kind = call[c].kind
        /\ HasRow(c)' /\ Owns(c)'
    <3>1. DOMAIN [step |-> "unfinish"] \subseteq {"step", "why", "outcome"}
      OBVIOUS
    <3> QED BY <1>3, <1>4, <2>1, <2>2, <3>1, OwnerGoes
  <2>4. CallOK(c)'
    BY <1>2, <1>3, <1>4, <1>6, <2>2, <2>3 DEF CallOK, Steps, Computes, Whys, Verifies, Links
  <2>5. Acts(c)
    BY <1>2, <1>3, <1>4, <2>3 DEF Acts
  <2> QED BY <1>4, <1>5, <2>3, <2>4, <2>5, CallStep
<1>7. CASE call[c].kind # "create"
  <2>1. Returned(c)
    BY <1>7 DEF Drop
  <2>2. /\ CallsTyped' /\ (\A d \in Calls : d # c => call'[d] = call[d]) /\ ~call'[c].created /\ CallOK(c)'
    BY <1>1, <2>1, IdleOK
  <2>3. Acts(c)
    BY <1>2, <1>3, <1>4, <2>2 DEF Acts
  <2> QED BY <1>4, <1>5, <2>2, <2>3, CallStep
<1> QED BY <1>6, <1>7

LEMMA WithdrawKeeps ==
  ASSUME IInv, NEW c \in Calls, Withdraw(c)
  PROVE  IInv'
<1>1. CallsTyped /\ RowsOK /\ RunsOK /\ struck \in [Hazards -> Nat] /\ CallOK(c)
  BY InvParts
<1> DEFINE r == call[c].row
<1>2. call[c].step = "withdraw" /\ UNCHANGED <<run, struck>> /\ result' = Invalidated(r)
  BY DEF Withdraw, Step, Mine
<1>3. /\ r \in Results /\ call[c].created
      /\ call[c].kind = "create" => run[c].link = r /\ run[c].status # "none"
  BY <1>1, <1>2 DEF CallOK, HasRow, Owns, Links
<1>4. Hit /\ RowsOK' /\ RowsMove /\ \A q \in Results : result[q].status \in Open => result'[q] = result[q]
  BY <1>1, <1>2, <1>3, InvalidatedRows, NoHit
<1>5. RunsOK'
  BY <1>1, <1>2, <1>4, SameRuns
<1>6. CASE call[c].kind = "create"
  <2>1. Go(c, [step |-> "unfinish", outcome |-> "failed"])
    BY <1>6 DEF Withdraw
  <2>2. call'[c].step = "unfinish" /\ call'[c].outcome = "failed"
    BY <1>1, <2>1, GoDoes DEF Fields
  <2>3. /\ CallsTyped' /\ (\A d \in Calls : d # c => call'[d] = call[d])
        /\ call'[c].created = TRUE /\ call'[c].row = r /\ call'[c].kind = call[c].kind
        /\ HasRow(c)' /\ Owns(c)'
    <3>1. DOMAIN [step |-> "unfinish", outcome |-> "failed"] \subseteq {"step", "why", "outcome"}
      OBVIOUS
    <3> QED BY <1>3, <1>4, <2>1, <2>2, <3>1, OwnerGoes
  <2>4. CallOK(c)'
    BY <1>2, <1>3, <1>6, <2>2, <2>3 DEF CallOK, Steps, Computes, Whys, Verifies, Links, Dropped
  <2>5. Acts(c)
    BY <1>2, <1>3, <1>4, <2>3 DEF Acts
  <2> QED BY <1>4, <1>5, <2>3, <2>4, <2>5, CallStep
<1>7. CASE call[c].kind # "create"
  <2>1. Returned(c)
    BY <1>7 DEF Withdraw
  <2>2. /\ CallsTyped' /\ (\A d \in Calls : d # c => call'[d] = call[d]) /\ ~call'[c].created /\ CallOK(c)'
    BY <1>1, <2>1, IdleOK
  <2>3. Acts(c)
    BY <1>2, <1>3, <1>4, <2>2 DEF Acts
  <2> QED BY <1>4, <1>5, <2>2, <2>3, CallStep
<1> QED BY <1>6, <1>7
-----------------------------------------------------------------------------
(* The runs *)

\* Settling the runs of a row keeps them honest if the row's outcome is theirs.
LEMMA SettledRuns ==
  ASSUME RunsOK, NEW r \in Results, NEW status, run' = Settled(r, status), UNCHANGED <<result, struck>>,
         status \in Dropped \cup {"completed"},
         status = "completed" => result[r].status \in Stored,
         status = "cancelled" => result[r].status = "cancelled" \/ struck["fault"] > 0
  PROVE  /\ RunsOK'
         /\ \A d \in Calls : /\ run'[d].link = run[d].link
                             /\ run[d].status # "none" => run'[d].status # "none"
<1>1. ASSUME NEW d \in Calls
      PROVE  /\ run'[d] = [f \in {"status", "link"} |-> run'[d][f]]
             /\ run'[d].link = run[d].link
             /\ \/ run'[d].status = run[d].status
                \/ run'[d].status = status /\ run[d].link = r /\ run[d].status = "running"
  <2>1. run[d] = [f \in {"status", "link"} |-> run[d][f]]
    BY DEF RunsOK
  <2>2. CASE run[d].link = r /\ run[d].status = "running"
    <3>1. run'[d] = [run[d] EXCEPT !.status = status]
      BY <2>2 DEF Settled, LinkedRuns
    <3> QED BY <2>1, <2>2, <3>1
  <2>3. CASE ~(run[d].link = r /\ run[d].status = "running")
    <3>1. run'[d] = run[d]
      BY <2>3 DEF Settled, LinkedRuns
    <3> QED BY <2>1, <3>1
  <2> QED BY <2>2, <2>3
<1>2. run' = [d \in Calls |-> run'[d]]
  BY DEF Settled
<1>3. status # "none" /\ r # NoRow
  BY DEF Dropped, Results, NoRow
<1>4. ASSUME NEW d \in Calls PROVE RunOK(d)'
  <2>1. RunOK(d)
    BY DEF RunsOK
  <2>2. CASE run'[d].status = run[d].status
    BY <1>1, <2>1, <2>2 DEF RunOK
  <2>3. CASE run'[d].status = status /\ run[d].link = r /\ run[d].status = "running"
    BY <1>1, <1>3, <2>1, <2>3 DEF RunOK
  <2> QED BY <1>1, <2>2, <2>3
<1>5. \A d \in Calls : /\ run'[d].link = run[d].link
                       /\ run[d].status # "none" => run'[d].status # "none"
  BY <1>1, <1>3
<1>6. RunsOK'
  BY <1>1, <1>2, <1>4 DEF RunsOK
<1> QED BY <1>5, <1>6

\* A call that returns after settling runs.
LEMMA ReturnSettled ==
  ASSUME IInv, NEW c \in Calls, Returned(c), UNCHANGED <<result, struck>>, RunsOK',
         \A d \in Calls : d # c => /\ run'[d].link = run[d].link
                                   /\ run[d].status # "none" => run'[d].status # "none"
  PROVE  IInv'
<1>1. CallsTyped /\ RowsOK /\ struck \in [Hazards -> Nat]
  BY InvParts
<1>2. /\ CallsTyped' /\ (\A d \in Calls : d # c => call'[d] = call[d]) /\ ~call'[c].created /\ CallOK(c)'
  BY <1>1, IdleOK
<1>3. RowsOK' /\ RowsMove /\ Hit
  BY <1>1, SameRows, NoHit
<1>4. Acts(c)
  BY <1>2 DEF Acts
<1> QED BY <1>2, <1>3, <1>4, CallStep

LEMMA FinishKeeps ==
  ASSUME IInv, NEW c \in Calls, Finish(c)
  PROVE  IInv'
<1>1. RunsOK /\ CallOK(c)
  BY InvParts
<1>2. /\ call[c].step = "finish" /\ run' = Settled(call[c].row, "completed") /\ Returned(c)
      /\ UNCHANGED <<result, struck>>
  BY DEF Finish, Step, Mine
<1>3. call[c].row \in Results /\ result[call[c].row].status \in Stored
  BY <1>1, <1>2 DEF CallOK, HasRow, Verifies
<1>4. /\ RunsOK'
      /\ \A d \in Calls : /\ run'[d].link = run[d].link
                          /\ run[d].status # "none" => run'[d].status # "none"
  BY <1>1, <1>2, <1>3, SettledRuns
<1> QED BY <1>2, <1>4, ReturnSettled

LEMMA UnfinishKeeps ==
  ASSUME IInv, NEW c \in Calls, Unfinish(c)
  PROVE  IInv'
<1>1. RunsOK /\ CallOK(c)
  BY InvParts
<1>2. /\ call[c].step = "unfinish" /\ run' = Settled(call[c].row, call[c].outcome) /\ Returned(c)
      /\ UNCHANGED <<result, struck>>
  BY DEF Unfinish, Step, Mine
<1>3. /\ call[c].row \in Results /\ call[c].outcome \in Dropped
      /\ call[c].outcome = "cancelled" => result[call[c].row].status = "cancelled" \/ struck["fault"] > 0
  BY <1>1, <1>2 DEF CallOK, HasRow, Whys, Links
<1>4. call[c].outcome \in Dropped \cup {"completed"} /\ call[c].outcome # "completed"
  BY <1>3 DEF Dropped
<1>5. /\ RunsOK'
      /\ \A d \in Calls : /\ run'[d].link = run[d].link
                          /\ run[d].status # "none" => run'[d].status # "none"
  BY <1>1, <1>2, <1>3, <1>4, SettledRuns
<1> QED BY <1>2, <1>5, ReturnSettled

LEMMA RunFailsKeeps ==
  ASSUME IInv, NEW c \in Calls, RunFails(c)
  PROVE  IInv'
<1>1. RunsOK /\ CallOK(c)
  BY InvParts
<1>2. run' = [run EXCEPT ![c].status = "failed"] /\ Returned(c) /\ UNCHANGED <<result, struck>>
  BY DEF RunFails
<1>3. /\ \A d \in Calls : d # c => run'[d] = run[d]
      /\ run'[c].link = run[c].link /\ run'[c].status = "failed"
  BY <1>1, <1>2 DEF RunsOK
<1>4. RunsOK'
  <2>1. run' = [d \in Calls |-> run'[d]] /\ \A d \in Calls : run'[d] = [f \in {"status", "link"} |-> run'[d][f]]
    BY <1>1, <1>2 DEF RunsOK
  <2>2. ASSUME NEW d \in Calls PROVE RunOK(d)'
    <3>1. RunOK(d)
      BY <1>1 DEF RunsOK
    <3>2. CASE d # c
      BY <3>1, <3>2, <1>2, <1>3 DEF RunOK
    <3>3. CASE d = c
      BY <3>1, <3>3, <1>2, <1>3 DEF RunOK
    <3> QED BY <3>2, <3>3
  <2> QED BY <2>1, <2>2 DEF RunsOK
<1> QED BY <1>2, <1>3, <1>4, ReturnSettled

LEMMA WaitKeeps ==
  ASSUME IInv, NEW c \in Calls, Wait(c)
  PROVE  IInv'
<1>1. CallsTyped /\ RowsOK /\ RunsOK /\ struck \in [Hazards -> Nat] /\ CallOK(c)
  BY InvParts
<1>2. call[c].step = "wait" /\ UNCHANGED <<result, run, struck>>
  BY DEF Wait, Step
<1>3. Hit
  BY <1>1, <1>2, NoHit
<1>4. call[c].created = FALSE /\ call[c].row \in Results
  BY <1>1, <1>2 DEF CallOK, Owns, HasRow
<1>5. CASE result[call[c].row].status = "completed"
  <2>1. Go(c, [step |-> "verify", why |-> "again"])
    BY <1>5 DEF Wait, Mine
  <2>2. CallsTyped' /\ \A d \in Calls : d # c => call'[d] = call[d]
    BY <1>1, <2>1, GoDoes
  <2>3. /\ call'[c].step = "verify" /\ call'[c].why = "again" /\ call'[c].kind = call[c].kind
        /\ call'[c].created = FALSE /\ call'[c].row = call[c].row
    BY <1>1, <1>4, <2>1, GoDoes DEF Fields
  <2>4. Links(c)'
    BY <1>1, <1>2, <2>3 DEF CallOK, Links
  <2>5. CallOK(c)'
    BY <1>2, <1>4, <1>5, <2>3, <2>4 DEF CallOK, Steps, HasRow, Owns, Computes, Whys, Verifies, Stored
  <2> QED BY <1>2, <1>3, <2>2, <2>3, <2>5, Quiet
<1>6. CASE result[call[c].row].status # "completed"
  <2>1. Returned(c)
    BY <1>6 DEF Wait, Mine
  <2> QED BY <1>2, <1>3, <2>1, QuietReturn
<1> QED BY <1>5, <1>6

LEMMA GetKeeps ==
  ASSUME IInv, NEW c \in Calls, Get(c)
  PROVE  IInv'
<1>1. RowsOK /\ RunsOK /\ struck \in [Hazards -> Nat] /\ RunOK(c)
  BY InvParts DEF RunsOK
<1>2. /\ run[c].link # NoRow /\ result[run[c].link].status \in Stored
      /\ run' = Settled(run[c].link, "completed") /\ UNCHANGED <<result, call, struck>>
  BY DEF Get
<1>3. run[c].link \in Results
  BY <1>1, <1>2 DEF RunOK
<1>4. /\ RunsOK'
      /\ \A d \in Calls : /\ run'[d].link = run[d].link
                          /\ run[d].status # "none" => run'[d].status # "none"
  BY <1>1, <1>2, <1>3, SettledRuns
<1>5. RowsOK' /\ RowsMove /\ Hit
  BY <1>1, <1>2, SameRows, NoHit
<1> QED BY <1>2, <1>4, <1>5, TableStep
-----------------------------------------------------------------------------
(* Maintenance and the environment *)

\* They change one row that is not open.
LEMMA MaintenanceStep ==
  ASSUME IInv, NEW r \in Results, NEW s, result' = [result EXCEPT ![r] = s], Columns(s), RowOK(s), Moves(r, s),
         s.active => result[r].active /\ s.key = result[r].key,
         result[r].status \notin Open, NEW h \in Hazards, Strike(h), UNCHANGED <<run, call>>
  PROVE  IInv'
<1>1. RowsOK /\ RunsOK /\ struck \in [Hazards -> Nat]
  BY InvParts
<1>2. RowsOK' /\ RowsMove /\ \A q \in Results : q # r => result'[q] = result[q]
  BY <1>1, OneRow
<1>3. Hit
  BY <1>1, StrikeHits
<1>4. RunsOK'
  BY <1>1, <1>2, <1>3, SameRuns
<1> QED BY <1>2, <1>3, <1>4, TableStep

LEMMA MaintenanceKeeps ==
  ASSUME IInv, NEW r \in Results,
         Archive(r) \/ Invalidate(r) \/ DeletePathDetail(r) \/ DeleteFailed(r) \/ Rot(r)
  PROVE  IInv'
<1>1. RowsOK /\ RowOK(result[r]) /\ Columns(result[r])
  BY InvParts DEF RowsOK
<1>2. CASE Archive(r)
  <2> DEFINE s == [result[r] EXCEPT !.status = "archived", !.active = FALSE]
  <2>1. /\ result' = [result EXCEPT ![r] = s] /\ Strike("maintain") /\ UNCHANGED <<run, call>>
        /\ result[r].status \in {"completed", "invalidated"}
    BY <1>1, <1>2 DEF Archive
  <2>2. /\ Columns(s) /\ s.status = "archived" /\ s.active = FALSE /\ s.content = result[r].content
        /\ s.path = result[r].path /\ s.key = result[r].key
    BY <1>1 DEF Columns, RowFields
  <2> HIDE DEF s
  <2>3. RowOK(s) /\ Moves(r, s) /\ result[r].status \notin Open
    BY <1>1, <2>1, <2>2 DEF RowOK, Moves, Stored, Open, Dropped
  <2> QED BY <2>1, <2>2, <2>3, MaintenanceStep DEF Hazards
<1>3. CASE Invalidate(r)
  <2> DEFINE s == [result[r] EXCEPT !.status = "invalidated", !.active = FALSE]
  <2>1. /\ result' = [result EXCEPT ![r] = s] /\ Strike("maintain") /\ UNCHANGED <<run, call>>
        /\ result[r].status = "completed"
    BY <1>1, <1>3 DEF Invalidate, Invalidated
  <2>2. /\ Columns(s) /\ s.status = "invalidated" /\ s.active = FALSE /\ s.content = result[r].content
        /\ s.path = result[r].path /\ s.key = result[r].key
    BY <1>1 DEF Columns, RowFields
  <2> HIDE DEF s
  <2>3. RowOK(s) /\ Moves(r, s) /\ result[r].status \notin Open
    BY <1>1, <2>1, <2>2 DEF RowOK, Moves, Stored, Open, Dropped
  <2> QED BY <2>1, <2>2, <2>3, MaintenanceStep DEF Hazards
<1>4. CASE DeletePathDetail(r)
  <2> DEFINE s == [result[r] EXCEPT !.status = "archived", !.active = FALSE, !.path = "deleted"]
  <2>1. /\ result' = [result EXCEPT ![r] = s] /\ Strike("maintain") /\ UNCHANGED <<run, call>>
        /\ result[r].path = "available"
    BY <1>1, <1>4 DEF DeletePathDetail
  <2>2. /\ Columns(s) /\ s.status = "archived" /\ s.active = FALSE /\ s.content = result[r].content
        /\ s.path = "deleted" /\ s.key = result[r].key
    BY <1>1 DEF Columns, RowFields
  <2> HIDE DEF s
  <2>3. RowOK(s) /\ Moves(r, s) /\ result[r].status \notin Open
    BY <1>1, <2>1, <2>2 DEF RowOK, Moves, Stored, Open, Dropped
  <2> QED BY <2>1, <2>2, <2>3, MaintenanceStep DEF Hazards
<1>5. CASE DeleteFailed(r)
  <2> DEFINE s == [result[r] EXCEPT !.status = "deleted"]
  <2>1. /\ result' = [result EXCEPT ![r] = s] /\ Strike("maintain") /\ UNCHANGED <<run, call>>
        /\ result[r].status \in Dropped /\ \A c \in Calls : run[c].link # r
    BY <1>1, <1>5 DEF DeleteFailed
  <2>2. /\ Columns(s) /\ s.status = "deleted" /\ s.active = result[r].active /\ s.content = result[r].content
        /\ s.path = result[r].path /\ s.key = result[r].key
    BY <1>1 DEF Columns, RowFields
  <2> HIDE DEF s
  <2>3. RowOK(s) /\ Moves(r, s) /\ result[r].status \notin Open
    BY <1>1, <2>1, <2>2 DEF RowOK, Moves, Stored, Open, Dropped
  <2> QED BY <2>1, <2>2, <2>3, MaintenanceStep DEF Hazards
<1>6. CASE Rot(r)
  <2> DEFINE s == [result[r] EXCEPT !.content = "rotten"]
  <2>1. /\ result' = [result EXCEPT ![r] = s] /\ Strike("rot") /\ UNCHANGED <<run, call>>
        /\ result[r].content = "sound"
    BY <1>1, <1>6 DEF Rot
  <2>2. /\ Columns(s) /\ s.status = result[r].status /\ s.active = result[r].active /\ s.content = "rotten"
        /\ s.path = result[r].path /\ s.key = result[r].key
    BY <1>1 DEF Columns, RowFields
  <2> HIDE DEF s
  <2>3. RowOK(s) /\ Moves(r, s) /\ result[r].status \notin Open
    BY <1>1, <2>1, <2>2 DEF RowOK, Moves, Stored, Open, Dropped
  <2> QED BY <2>1, <2>2, <2>3, MaintenanceStep DEF Hazards
<1> QED BY <1>2, <1>3, <1>4, <1>5, <1>6

LEMMA CrashKeeps ==
  ASSUME IInv, Crash
  PROVE  IInv'
<1>1. RowsOK /\ RunsOK /\ struck \in [Hazards -> Nat]
  BY InvParts
<1>2. call' = [c \in Calls |-> Idle] /\ UNCHANGED <<result, run>> /\ Strike("crash")
  BY DEF Crash
<1>3. Hit /\ RowsOK' /\ RowsMove
  BY <1>1, <1>2, StrikeHits, SameRows DEF Hazards
<1>4. RunsOK'
  BY <1>1, <1>2, <1>3, SameRuns
<1>5. CallsTyped'
  BY <1>2 DEF CallsTyped, Idle, Fields
<1>6. ASSUME NEW c \in Calls PROVE CallOK(c)'
  <2>1. /\ call'[c].step = "idle" /\ call'[c].kind = "none" /\ call'[c].created = FALSE
        /\ call'[c].why = "none"
    BY <1>2 DEF Idle
  <2> QED BY <2>1 DEF CallOK, Steps, HasRow, Owns, Computes, Whys, Verifies, Links
<1>7. struck' \in [Hazards -> Nat]
  BY <1>3 DEF Hit
<1> QED BY <1>3, <1>4, <1>5, <1>6, <1>7, InvPartsNext
-----------------------------------------------------------------------------
(* The invariant, and what follows from it *)

LEMMA InitHolds == Init => IInv
<1> SUFFICES ASSUME Init PROVE IInv
  OBVIOUS
<1> USE DEF Init
<1>1. RowsOK
  BY DEF RowsOK, Columns, RowOK, KeysUnique, Unused, RowFields, Open, Dropped
<1>2. RunsOK
  BY DEF RunsOK, RunOK, NoRun
<1>3. CallsTyped
  BY DEF CallsTyped, Idle, Fields
<1>4. \A c \in Calls : CallOK(c)
  BY DEF CallOK, Idle, Steps, HasRow, Owns, Computes, Whys, Verifies, Links
<1>5. struck \in [Hazards -> Nat]
  BY DEF Hazards
<1> QED BY <1>1, <1>2, <1>3, <1>4, <1>5, InvParts

LEMMA StepKeeps == IInv /\ [Next]_vars => IInv'
<1> SUFFICES ASSUME IInv, [Next]_vars PROVE IInv'
  OBVIOUS
<1>1. ASSUME NEW c \in Calls, Submit(c) \/ Work(c) \/ StopWaiting(c) \/ Get(c) PROVE IInv'
  <2>1. CASE Submit(c)
    BY <2>1, SubmitKeeps
  <2>2. CASE Refuse(c) \/ OutOfTries(c)
    BY <2>2, InvParts, NoHit, QuietGiveUp DEF Refuse, OutOfTries
  <2>3. CASE Insert(c) \/ Lookup(c)
    BY <2>3, InsertKeeps, LookupKeeps
  <2>4. CASE ReadRow(c) \/ ReadBlocks(c) \/ Spoil(c)
    BY <2>4, ReadRowKeeps, ReadBlocksKeeps, SpoilKeeps
  <2>5. CASE Link(c) \/ LinkFails(c) \/ Start(c) \/ StartFails(c)
    BY <2>5, LinkKeeps, LinkFailsKeeps, StartKeeps, StartFailsKeeps
  <2>6. CASE Execute(c) \/ Store(c) \/ StoreFails(c) \/ Drop(c) \/ Withdraw(c)
    BY <2>6, ExecuteKeeps, StoreKeeps, StoreFailsKeeps, DropKeeps, WithdrawKeeps
  <2>7. CASE Finish(c) \/ Unfinish(c) \/ RunFails(c) \/ Wait(c) \/ Get(c)
    BY <2>7, FinishKeeps, UnfinishKeeps, RunFailsKeeps, WaitKeeps, GetKeeps
  <2>8. CASE StopWaiting(c)
    BY <2>8, InvParts, NoHit, QuietReturn DEF StopWaiting
  <2> QED BY <1>1, <2>1, <2>2, <2>3, <2>4, <2>5, <2>6, <2>7, <2>8 DEF Work
<1>2. CASE \E r \in Results : Archive(r) \/ Invalidate(r) \/ DeletePathDetail(r) \/ DeleteFailed(r) \/ Rot(r)
  BY <1>2, MaintenanceKeeps
<1>3. CASE Crash
  BY <1>3, CrashKeeps
<1>4. CASE UNCHANGED vars
  <2>1. UNCHANGED <<result, run, call, struck>>
    BY <1>4 DEF vars
  <2>2. RowsOK /\ RunsOK /\ struck \in [Hazards -> Nat] /\ Hit
    BY <2>1, InvParts, NoHit
  <2>3. RowsOK' /\ RowsMove
    BY <2>1, <2>2, SameRows
  <2>4. RunsOK'
    BY <2>1, <2>2, <2>3, SameRuns
  <2> QED BY <2>1, <2>2, <2>3, <2>4, TableStep
<1> QED BY <1>1, <1>2, <1>3, <1>4 DEF Next

LEMMA InvHolds == Spec => []IInv
BY InitHolds, StepKeeps, PTL DEF Spec

\* Two calls never compute the same backtest at once (Backtests!SingleExecution):
\* both would hold the one row that blocks their key, and a row has one owner.
THEOREM OneExecutionPerKey == Spec => []SingleExecution
<1>1. IInv => SingleExecution
  <2> SUFFICES ASSUME IInv, NEW a \in Calls, NEW b \in Calls, a # b,
                      {call[a].step, call[b].step} \subseteq {"execute", "store"}, KeyOf[a] = KeyOf[b]
               PROVE  FALSE
    BY DEF SingleExecution
  <2>1. RowsOK /\ CallOK(a) /\ CallOK(b)
    BY InvParts
  <2>2. ASSUME NEW c \in {a, b}
        PROVE  /\ call[c].created /\ call[c].row \in Results
               /\ result[call[c].row].active /\ result[call[c].row].key = KeyOf[c]
    <3>1. CallOK(c) /\ call[c].step \in {"execute", "store"} /\ c \in Calls
      BY <2>1, <2>2
    <3>2. /\ call[c].created /\ call[c].row \in Results
          /\ result[call[c].row].status = "running" /\ result[call[c].row].key = KeyOf[c]
      BY <3>1 DEF CallOK, HasRow, Owns, Computes
    <3>3. RowOK(result[call[c].row])
      BY <2>1, <3>2 DEF RowsOK
    <3>4. result[call[c].row].active
      BY <3>2, <3>3 DEF RowOK, Stored, Dropped, Open
    <3> QED BY <3>2, <3>4
  <2>3. call[a].row = call[b].row
    BY <2>1, <2>2 DEF RowsOK, KeysUnique
  <2> QED BY <2>1, <2>2, <2>3 DEF CallOK, Owns
<1> QED BY <1>1, InvHolds, PTL

\* The store's audit, VerifyResult, accepts every row at every moment, also
\* between the statements of an operation (Backtests!AuditPasses).
THEOREM EveryRowPassesTheAudit == Spec => []AuditPasses
<1>1. IInv => AuditPasses
  <2> SUFFICES ASSUME IInv, NEW r \in Results, result[r].status \notin {"unused", "deleted"},
                      result[r].content # "rotten"
               PROVE  Valid(result[r], Blocks(r))
    BY DEF AuditPasses
  <2>1. RowOK(result[r])
    BY InvParts DEF RowsOK
  <2>2. result[r].path = "available" => Blocks(r) = "sound"
    BY <2>1 DEF RowOK, Blocks, Open, Dropped
  <2> QED BY <2>1, <2>2, SoundIsValid
<1> QED BY <1>1, InvHolds, PTL

\* A run says completed or cancelled only if the result it is linked to is
\* stored or cancelled, but for a failed statement (Backtests!RunsAgree).
THEOREM RunsAgreeWithResults == Spec => []RunsAgree
<1>1. IInv => RunsAgree
  BY InvParts DEF RunsAgree, RunsOK, RunOK
<1> QED BY <1>1, InvHolds, PTL

\* What a step may do to a row that is stored.
Immutable(r) ==
  /\ result[r].status \in Stored =>
       /\ result'[r].status \in Stored
       /\ result'[r].content # result[r].content => struck'["rot"] > struck["rot"]
  /\ result[r].status = "archived" => result'[r].status = "archived"
  /\ result[r].status = "invalidated" => result'[r].status # "completed"
  /\ result[r].status = "completed" /\ result'[r].status # "completed"
       => result[r].content = "rotten" \/ struck'["maintain"] > struck["maintain"]

LEMMA SameIsImmutable ==
  ASSUME NEW r \in Results, result'[r] = result[r] \/ result[r].status \notin Stored
  PROVE  Immutable(r)
BY DEF Immutable, Stored

\* A verification withdraws what it has found rotten.
LEMMA WithdrawnIsRotten ==
  ASSUME IInv, NEW c \in Calls, call[c].step \in {"spoil", "withdraw"}, result' = Invalidated(call[c].row),
         NEW r \in Results
  PROVE  Immutable(r)
<1>1. RowsOK /\ CallOK(c)
  BY InvParts
<1>2. CASE r = call[c].row /\ result[r].status = "completed"
  <2>1. result[r].content = "rotten"
    BY <1>1, <1>2 DEF CallOK, Verifies
  <2>2. result'[r] = [result[r] EXCEPT !.status = "invalidated", !.active = FALSE]
    BY <1>1, <1>2 DEF Invalidated, RowsOK
  <2>3. result'[r].status = "invalidated" /\ result'[r].content = result[r].content
    BY <1>1, <2>2 DEF RowsOK, Columns, RowFields
  <2> QED BY <1>2, <2>1, <2>3 DEF Immutable, Stored
<1>3. CASE ~(r = call[c].row /\ result[r].status = "completed")
  <2>1. result'[r] = result[r]
    BY <1>1, <1>3 DEF Invalidated, RowsOK
  <2> QED BY <2>1, SameIsImmutable
<1> QED BY <1>2, <1>3

\* What the calls write, they write to rows that are not stored yet, but for
\* the rotten results they withdraw.
LEMMA CallsKeepStored ==
  ASSUME IInv, NEW c \in Calls, Submit(c) \/ Work(c) \/ StopWaiting(c) \/ Get(c), NEW r \in Results
  PROVE  Immutable(r)
<1>1. RowsOK /\ CallOK(c)
  BY InvParts
<1> DEFINE m == call[c].row
<1>2. CASE \/ Submit(c) \/ Refuse(c) \/ OutOfTries(c) \/ ReadRow(c) \/ ReadBlocks(c) \/ Link(c)
           \/ StartFails(c) \/ Execute(c) \/ StoreFails(c) \/ Finish(c) \/ Unfinish(c) \/ RunFails(c)
           \/ Wait(c) \/ StopWaiting(c) \/ Get(c)
  <2>1. result' = result
    BY <1>2 DEF Submit, Refuse, OutOfTries, ReadRow, ReadBlocks, Link, StartFails, Execute, StoreFails,
                Finish, Unfinish, RunFails, Wait, StopWaiting, Get
  <2> QED BY <2>1, SameIsImmutable
<1>3. CASE Insert(c)
  <2>1. result'[r] = result[r] \/ result[r].status = "unused"
    BY <1>1, <1>3 DEF Insert, RowsOK
  <2> QED BY <2>1, SameIsImmutable DEF Stored
<1>4. CASE Lookup(c)
  <2>1. result'[r] = result[r] \/ result[r].status \notin Stored
    <3>1. CASE Holders(KeyOf[c]) = {}
      BY <1>4, <3>1 DEF Lookup
    <3>2. CASE Holders(KeyOf[c]) # {}
      <4>1. PICK q \in Holders(KeyOf[c]) : result[q].status \in {"completed"} \cup Blocking => UNCHANGED result
        BY <1>4, <3>2 DEF Lookup, Blocking, Open
      <4>2. RowOK(result[q]) /\ result[q].active
        BY <1>1 DEF Holders, RowsOK
      <4>3. result[q].status \in {"completed"} \cup Blocking
        BY <4>2 DEF RowOK, Blocking, Open, Dropped
      <4> QED BY <4>1, <4>3
    <3> QED BY <3>1, <3>2
  <2> QED BY <2>1, SameIsImmutable
<1>5. CASE Spoil(c) \/ Withdraw(c)
  BY <1>5, WithdrawnIsRotten DEF Spoil, Withdraw, Step, Mine
<1>6. CASE LinkFails(c) \/ Drop(c)
  <2>1. result'[r] = result[r] \/ result[r].status \in Open
    <3>1. result' = result \/ \E status \in {"failed", call[c].outcome} : result' = Ended(m, status)
      BY <1>6 DEF LinkFails, Drop, Mine
    <3> QED BY <1>1, <3>1 DEF Ended, RowsOK
  <2> QED BY <2>1, SameIsImmutable DEF Open, Stored
<1>7. CASE Start(c) \/ Store(c)
  <2>1. result' = result \/ (result[m].status \in Open /\ \E s : result' = [result EXCEPT ![m] = s])
    <3>1. CASE Start(c)
      BY <1>1, <3>1 DEF Start, Mine, Open, RowsOK
    <3>2. CASE Store(c)
      BY <1>1, <3>2 DEF Store, Mine, RowsOK
    <3> QED BY <1>7, <3>1, <3>2
  <2>2. result'[r] = result[r] \/ result[r].status \in Open
    BY <1>1, <2>1 DEF RowsOK
  <2> QED BY <2>2, SameIsImmutable DEF Open, Stored
<1> QED BY <1>2, <1>3, <1>4, <1>5, <1>6, <1>7 DEF Work

LEMMA MaintenanceIsCounted ==
  ASSUME IInv, NEW q \in Results,
         Archive(q) \/ Invalidate(q) \/ DeletePathDetail(q) \/ DeleteFailed(q) \/ Rot(q),
         NEW r \in Results
  PROVE  Immutable(r)
<1>1. RowsOK /\ RowOK(result[q]) /\ Columns(result[q]) /\ struck \in [Hazards -> Nat]
  BY InvParts DEF RowsOK
<1>2. CASE r # q
  <2>1. result'[r] = result[r]
    BY <1>1, <1>2 DEF Archive, Invalidate, Invalidated, DeletePathDetail, DeleteFailed, Rot, RowsOK
  <2> QED BY <2>1, SameIsImmutable
<1>3. CASE r = q /\ Rot(q)
  <2>1. result'[q] = [result[q] EXCEPT !.content = "rotten"] /\ struck'["rot"] = struck["rot"] + 1
    BY <1>1, <1>3 DEF Rot, Strike, RowsOK, Hazards
  <2>2. result'[q].status = result[q].status
    BY <1>1, <2>1 DEF Columns, RowFields
  <2>3. struck'["rot"] > struck["rot"]
    BY <1>1, <2>1 DEF Hazards
  <2> QED BY <1>3, <2>2, <2>3 DEF Immutable, Stored
<1>4. CASE r = q /\ DeleteFailed(q)
  BY <1>4, SameIsImmutable DEF DeleteFailed, Dropped, Stored
<1>5. CASE r = q /\ (Archive(q) \/ Invalidate(q) \/ DeletePathDetail(q))
  <2>1. struck'["maintain"] = struck["maintain"] + 1
    BY <1>1, <1>5 DEF Archive, Invalidate, DeletePathDetail, Strike, Hazards
  <2>2. struck'["maintain"] > struck["maintain"]
    BY <1>1, <2>1 DEF Hazards
  <2>3. \/ /\ result'[q].status = "archived" /\ result'[q].content = result[q].content
        \/ /\ result'[q].status = "invalidated" /\ result'[q].content = result[q].content
           /\ result[q].status = "completed"
    <3>1. CASE Archive(q)
      BY <1>1, <3>1 DEF Archive, RowsOK, Columns, RowFields
    <3>2. CASE Invalidate(q)
      BY <1>1, <3>2 DEF Invalidate, Invalidated, RowsOK, Columns, RowFields
    <3>3. CASE DeletePathDetail(q)
      BY <1>1, <3>3 DEF DeletePathDetail, RowsOK, Columns, RowFields
    <3> QED BY <1>5, <3>1, <3>2, <3>3
  <2> QED BY <1>5, <2>2, <2>3 DEF Immutable, Stored
<1> QED BY <1>2, <1>3, <1>4, <1>5

\* Stored content never changes but by damage, a retired result never comes
\* back, and the calls retire none that is sound (Backtests!StoredIsImmutable).
THEOREM StoredStaysStored == Spec => StoredIsImmutable
<1>1. IInv /\ [Next]_vars => [\A r \in Results : Immutable(r)]_vars
  <2> SUFFICES ASSUME IInv, Next, NEW r \in Results PROVE Immutable(r)
    OBVIOUS
  <2>1. CASE \E c \in Calls : Submit(c) \/ Work(c) \/ StopWaiting(c) \/ Get(c)
    BY <2>1, CallsKeepStored
  <2>2. CASE \E q \in Results : Archive(q) \/ Invalidate(q) \/ DeletePathDetail(q) \/ DeleteFailed(q) \/ Rot(q)
    BY <2>2, MaintenanceIsCounted
  <2>3. CASE Crash
    BY <2>3, SameIsImmutable DEF Crash
  <2> QED BY <2>1, <2>2, <2>3 DEF Next
<1>2. [\A r \in Results : Immutable(r)]_vars =>
        [\A r \in Results :
           /\ result[r].status \in Stored =>
                /\ result'[r].status \in Stored
                /\ result'[r].content # result[r].content => struck'["rot"] > struck["rot"]
           /\ result[r].status = "archived" => result'[r].status = "archived"
           /\ result[r].status = "invalidated" => result'[r].status # "completed"
           /\ result[r].status = "completed" /\ result'[r].status # "completed"
                => result[r].content = "rotten" \/ struck'["maintain"] > struck["maintain"]]_vars
  BY DEF Immutable
<1> QED BY <1>1, <1>2, InvHolds, PTL DEF Spec, StoredIsImmutable
=============================================================================
