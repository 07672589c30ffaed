---------------------------- MODULE ResultLedger ----------------------------
(***************************************************************************)
(* What the compute-task service promises about results, without workers,   *)
(* leases, requests or crashes.  Each cache key carries a numbered result,  *)
(* usable until it spoils.  An item receives one result, once: either it    *)
(* commits a new one, which is allowed only while the key has no usable     *)
(* result, or it is handed a result that was found usable; between finding  *)
(* a result and handing it out, the result may have spoiled.                *)
(***************************************************************************)
EXTENDS Naturals

CONSTANTS Items, Keys, KeyOf

VARIABLES
  version,  \* key -> how many results have been committed under it
  usable,   \* key -> the last of them may be handed out
  received, \* item -> number of the result it received, 0 if none
  quoted,   \* item -> results found usable for it and not yet handed out
  spoiled   \* how many results the outside world has spoiled

ledger == <<version, usable, received, quoted, spoiled>>

Init ==
  /\ version = [c \in Keys |-> 0]
  /\ usable = [c \in Keys |-> FALSE]
  /\ received = [i \in Items |-> 0]
  /\ quoted = [i \in Items |-> {}]
  /\ spoiled = 0

Usable(i) == IF usable[KeyOf[i]] THEN {version[KeyOf[i]]} ELSE {}

Commit(i) ==
  LET c == KeyOf[i] IN
    /\ received[i] = 0 /\ ~usable[c]
    /\ version' = [version EXCEPT ![c] = @ + 1]
    /\ usable' = [usable EXCEPT ![c] = TRUE]
    /\ received' = [received EXCEPT ![i] = version[c] + 1]
    /\ UNCHANGED <<quoted, spoiled>>

\* Look up usable results; a quote may be dropped at any time.
Quote ==
  /\ DOMAIN quoted' = Items
  /\ \A i \in Items : quoted'[i] \subseteq quoted[i] \cup Usable(i)
  /\ UNCHANGED <<version, usable, received, spoiled>>

\* Items without a result receive one that is usable, or was when quoted.
HandOut ==
  /\ DOMAIN received' = Items /\ DOMAIN quoted' = Items
  /\ \A i \in Items :
       /\ quoted'[i] \subseteq quoted[i]
       /\ received'[i] # received[i] => received[i] = 0 /\ received'[i] \in quoted[i] \cup Usable(i)
  /\ UNCHANGED <<version, usable, spoiled>>

Spoil(c) ==
  /\ usable[c]
  /\ spoiled' = spoiled + 1
  /\ usable' = [usable EXCEPT ![c] = FALSE]
  /\ UNCHANGED <<version, received, quoted>>

Next == \/ \E i \in Items : Commit(i)
        \/ Quote
        \/ HandOut
        \/ \E c \in Keys : Spoil(c)

Spec == Init /\ [][Next]_ledger
=============================================================================
