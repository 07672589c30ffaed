------------------------------ MODULE MCDesk ------------------------------
(***************************************************************************)
(* Small instances, for TLC, of four parts that share nothing but the       *)
(* database server and of which safety is checked: live trading (module     *)
(* MCTrading), the genetic search, the parameter library and the runs of    *)
(* parameter research.  A behaviour is one of one of them; the others keep  *)
(* their initial state.                                                     *)
(***************************************************************************)
EXTENDS MCTrading, GeneSearch, Champions, ResearchRuns

VARIABLE part \* the part of this behaviour

\* Seven genes with ties, gains below, at and above the threshold, and an early stop.
SomeScores == <<1, 1, 2, 4, 4, 5, 7>>
CrashOrFault == {[crash |-> 1, fault |-> 0], [crash |-> 0, fault |-> 1]}

\* Three records in two scopes.
TwoScopes == [a |-> "x", b |-> "x", c |-> "y"]

\* A run of single points, and two clients with two requests in all, or one
\* request and a result that goes bad.
SomeKinds == <<{"start", "global"}, {"start", "global", "local", "paused", "resume", "get"}>>
RequestsOrRot == {[requests |-> 2, rot |-> 0], [requests |-> 1, rot |-> 1]}

DeskInit ==
  /\ part \in {"trading", "search", "library", "research"}
  /\ Init /\ SearchInit /\ RolesInit
  /\ ResearchInit /\ (part = "research" \/ stages = <<>>)
  /\ (part = "trading" \/ left = CHOOSE f \in Faults : TRUE)

TradingStep == /\ part = "trading" /\ Next
               /\ UNCHANGED <<part, searchVars, rolesVars, researchVars>>

SearchStep == /\ part = "search" /\ SearchNext
              /\ UNCHANGED <<part, vars, rolesVars, researchVars>>

LibraryStep == /\ part = "library" /\ RolesNext
               /\ UNCHANGED <<part, vars, searchVars, researchVars>>

ResearchStep == /\ part = "research" /\ ResearchNext
                /\ UNCHANGED <<part, vars, searchVars, rolesVars>>

DeskNext == TradingStep \/ SearchStep \/ LibraryStep \/ ResearchStep

DeskSpec == DeskInit /\ [][DeskNext]_<<part, vars, searchVars, rolesVars, researchVars>>
=============================================================================
