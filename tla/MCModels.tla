------------------------------- MODULE MCModels -------------------------------
(***************************************************************************)
(* What the windows show and what the tools build, each part by itself:    *)
(* the initial state chooses the part that moves, and the others stay in   *)
(* one of their initial states.  Each part is its own module, unchanged.   *)
(***************************************************************************)
EXTENDS MicroProjection, Presence, DetailLists, BuildWindows, RateWindow, RateHistory

VARIABLE part

all == <<part, vars, historyVars, rateVars, presenceVars, listVars, buildVars>>

Parts == {"projection", "history", "rate", "presence", "lists", "tool"}

AllInit ==
    /\ part \in Parts
    /\ Init /\ HistoryInit /\ RateInit /\ PresenceInit /\ ListsInit /\ BuildInit

(* Only part p moves.                                                       *)
Moves(p) ==
    /\ part = p /\ UNCHANGED part
    /\ p # "projection" => UNCHANGED vars
    /\ p # "history"    => UNCHANGED historyVars
    /\ p # "rate"       => UNCHANGED rateVars
    /\ p # "presence"   => UNCHANGED presenceVars
    /\ p # "lists"      => UNCHANGED listVars
    /\ p # "tool"       => UNCHANGED buildVars

AllNext ==
    \/ Moves("projection") /\ Next
    \/ Moves("history") /\ HistoryNext
    \/ Moves("rate") /\ RateNext
    \/ Moves("presence") /\ PresenceNext
    \/ Moves("lists") /\ ListsNext
    \/ Moves("tool") /\ BuildNext

AllSpec == AllInit /\ [][AllNext]_all
-----------------------------------------------------------------------------
(* The parts keep their types and their bounds: an application is recorded  *)
(* once and within the caps, the window of rates holds no more than it      *)
(* needs, and a challenger leads the latest snapshot.                       *)
PartsStaySound ==
    /\ TypeOK /\ HistoryTypeOK /\ RateTypeOK /\ PresenceTypeOK /\ ListsTypeOK /\ BuildTypeOK
    /\ MemoryBounded /\ HistoryBounded /\ ChallengerIsCurrent
=============================================================================
