------------------------------ MODULE MCDesktop ------------------------------
(***************************************************************************)
(* Parts of the program that share no state, checked side by side: the     *)
(* initial state chooses the part that moves, and the others stay in one   *)
(* of their initial states.  Each part is its own module, unchanged.       *)
(***************************************************************************)
EXTENDS Preferences, IconCache, WindowGeometry, MicroCard, KeyButton, CollectorProbe

VARIABLE part

all == <<part, vars, iconVars, geometryVars, cardVars, buttonVars, probeVars>>

Parts == {"preferences", "icons", "geometry", "card", "button", "probe"}

(* What a part that does not move makes of its choices.                     *)
Still ==
    /\ part # "preferences" => newest = CHOOSE i \in Instances : TRUE
    /\ part # "geometry" => screens = CHOOSE a \in Layouts : TRUE
    /\ part # "geometry" => micro = FitRect(Rect(0, 0, Micro), screens, 0)
    /\ part # "card" => mode = "micro" /\ ~pins.tray
    /\ part # "button" => key = None
    /\ part # "probe" => lingers

AllInit ==
    /\ part \in Parts
    /\ Init /\ IconInit /\ GeometryInit /\ CardInit /\ ButtonInit /\ ProbeInit
    /\ Still

(* Only part p moves.                                                       *)
Moves(p) ==
    /\ part = p /\ UNCHANGED part
    /\ p # "preferences" => UNCHANGED vars
    /\ p # "icons"       => UNCHANGED iconVars
    /\ p # "geometry"    => UNCHANGED geometryVars
    /\ p # "card"        => UNCHANGED cardVars
    /\ p # "button"      => UNCHANGED buttonVars
    /\ p # "probe"       => UNCHANGED probeVars

AllNext ==
    \/ Moves("preferences") /\ Next
    \/ Moves("icons") /\ IconNext
    \/ Moves("geometry") /\ GeometryNext
    \/ Moves("card") /\ CardNext
    \/ Moves("button") /\ ButtonNext
    \/ Moves("probe") /\ ProbeNext

(* The fairness of each part while it is the one that moves.                *)
AllFairness ==
    /\ \A i \in Instances : WF_all(Moves("preferences") /\ i \in leaving /\ (Saving(i) \/ End(i)))
    /\ WF_all(Moves("icons") /\ (PollTake \/ PollDone)) /\ WF_all(Moves("icons") /\ PollCall)
    /\ WF_all(Moves("icons") /\ (DrainTake \/ DrainDone \/ JoinReturns))
    /\ WF_all(Moves("icons") /\ Worker)
    /\ WF_all(Moves("card") /\ HoverFires) /\ WF_all(Moves("card") /\ CollapseFires)
    /\ WF_all(Moves("probe") /\ Parent) /\ WF_all(Moves("probe") /\ MeasureEnds)
    /\ WF_all(Moves("probe") /\ IdleEnds) /\ WF_all(Moves("probe") /\ ServerEnds)
    /\ WF_all(Moves("probe") /\ killed /\ ChildDies)

AllSpec == AllInit /\ [][AllNext]_all /\ AllFairness
-----------------------------------------------------------------------------
MCLayouts ==
    LET R(x, y, w, h) == [x |-> x, y |-> y, width |-> w, height |-> h]
        primary == R(0, 0, 12, 9)
    IN  {{primary}, {primary, R(-9, 0, 9, 7)}, {primary, R(12, 3, 6, 4)}, {R(0, 1, 5, 5)},
         {primary, R(4, 2, 9, 9)}}
MCMicro  == [width |-> 3, height |-> 2]
MCCard   == [width |-> 4, height |-> 5]
MCPoints == {-11, -6, -2, -1, 0, 1, 4, 8, 10, 13} \X {-3, 1, 3, 6, 8}

(* The probe ends whenever it is the part that moves.                       *)
ProbeEnds == part = "probe" => RunEnds

(* The parts keep their types and their bounds: the card belongs to the     *)
(* visible micro window, the check in the tray is the topmost flag, what is *)
(* pending is in flight, and the icons are bounded.                         *)
PartsStaySound ==
    /\ TypeOK /\ IconTypeOK /\ CardTypeOK /\ ButtonTypeOK /\ ProbeTypeOK
    /\ CardNeedsMicro /\ PinsAgree
    /\ PendingIsInFlight /\ CacheBounded
=============================================================================
