--------------------------- MODULE WindowGeometry ---------------------------
(***************************************************************************)
(* Where the micro window and its card are while screens come and go, the  *)
(* user drags and the program restarts: screen_for, fit_rect and place_card *)
(* over integer rectangles, and the places of the controller that call      *)
(* them.                                                                    *)
(***************************************************************************)
EXTENDS Integers

CONSTANTS Layouts,   (* sets of available areas, one of them plugged in       *)
          Micro,     (* MICRO_SIZE                                            *)
          Card,      (* the size of the card                                  *)
          Gap, Snap, (* distance of the card, reach of an edge                *)
          Points,    (* where a drag or the preference file may leave it      *)
          Nowhere    (* the place of a card that is hidden                    *)

Sizes == [width : Nat \ {0}, height : Nat \ {0}]
Rects == [x : Int, y : Int, width : Nat \ {0}, height : Nat \ {0}]

(* Every screen has room for the micro window.                              *)
ASSUME GeometryAssumption ==
    /\ Micro \in Sizes /\ Card \in Sizes /\ Gap \in Nat /\ Snap \in Nat
    /\ Layouts # {}
    /\ \A areas \in Layouts :
         /\ areas # {} /\ areas \subseteq Rects
         /\ \A a \in areas : Micro.width <= a.width /\ Micro.height <= a.height
    /\ Points \subseteq Int \X Int

VARIABLES screens,  (* screens()                                              *)
          micro,    (* the place of the micro window                          *)
          card,     (* the place of the card, or Nowhere                      *)
          gesture   (* "drag" while _dragging, or "none"                      *)

geometryVars == <<screens, micro, card, gesture>>

-----------------------------------------------------------------------------
Least(a, b)    == IF a <= b THEN a ELSE b
Greatest(a, b) == IF a >= b THEN a ELSE b
Distance(a, b) == IF a <= b THEN b - a ELSE a - b

Rect(x, y, size) == [x |-> x, y |-> y, width |-> size.width, height |-> size.height]
Right(r)         == r.x + r.width
Bottom(r)        == r.y + r.height

Within(area, r) ==
    area.x <= r.x /\ area.y <= r.y /\ Right(r) <= Right(area) /\ Bottom(r) <= Bottom(area)

Overlap(r, area) ==
    Greatest(0, Least(Right(r), Right(area)) - Greatest(r.x, area.x))
      * Greatest(0, Least(Bottom(r), Bottom(area)) - Greatest(r.y, area.y))

Apart(r, area) ==
    LET dx == (r.x + r.width \div 2) - (area.x + area.width \div 2)
        dy == (r.y + r.height \div 2) - (area.y + area.height \div 2)
    IN  dx * dx + dy * dy

(* screen_for: the most overlap, then the nearest center.                   *)
Prefers(r, a, b) ==
    \/ Overlap(r, a) > Overlap(r, b)
    \/ Overlap(r, a) = Overlap(r, b) /\ Apart(r, a) < Apart(r, b)

ScreenFor(r, areas) == CHOOSE a \in areas : \A b \in areas : ~Prefers(r, b, a)

(* One dimension of fit_rect: clamped, then pulled to an edge within snap.  *)
Clamped(low, high, length, at) == Greatest(low, Least(at, high - length))

Pulled(low, high, length, at, snap) ==
    IF Distance(at, low) <= snap THEN low
    ELSE IF Distance(at + length, high) <= snap THEN high - length
    ELSE at

Along(low, high, length, at, snap) ==
    Pulled(low, high, length, Clamped(low, high, length, at), snap)

FitIn(r, area, snap) ==
    LET width  == Least(r.width, area.width)
        height == Least(r.height, area.height)
    IN  [x |-> Along(area.x, Right(area), width, r.x, snap),
         y |-> Along(area.y, Bottom(area), height, r.y, snap),
         width |-> width, height |-> height]

FitRect(r, areas, snap) == FitIn(r, ScreenFor(r, areas), snap)

(* place_card: right, left, below or above, the first with room for it.     *)
Candidates(anchor, size) ==
    <<Rect(Right(anchor) + Gap, anchor.y, size),
      Rect(anchor.x - Gap - size.width, anchor.y, size),
      Rect(anchor.x, Bottom(anchor) + Gap, size),
      Rect(anchor.x, anchor.y - Gap - size.height, size)>>

PlaceCard(anchor, areas) ==
    LET area  == ScreenFor(anchor, areas)
        sides == Candidates(anchor, [width  |-> Least(Card.width, area.width),
                                     height |-> Least(Card.height, area.height)])
        room  == {i \in 1..4 : Within(area, sides[i])}
    IN  IF room = {} THEN FitIn(sides[1], area, 0)
        ELSE sides[CHOOSE i \in room : \A j \in room : i <= j]

-----------------------------------------------------------------------------
(* Faulty: the card stays where it was when the micro window moves.         *)
LeftBehindFaulty == UNCHANGED card

(* _position_card, after the micro window has moved.                        *)
PositionCard == card' = IF card = Nowhere THEN Nowhere ELSE PlaceCard(micro', screens')

(* Faulty: the windows that are out of sight are left where they are.       *)
VisibleOnlyFaulty ==
    /\ micro' = IF \E a \in screens' : Overlap(micro, a) > 0 THEN micro
                ELSE FitRect(micro, screens', 0)
    /\ PositionCard

(* Faulty: recovery pulls to the edges as the end of a drag does.           *)
SnapAgainFaulty ==
    /\ micro' = FitRect(micro, screens', Snap)
    /\ PositionCard

(* _recover_positions                                                       *)
RecoverPositions ==
    /\ micro' = FitRect(micro, screens', 0)
    /\ PositionCard

GeometryInit ==
    /\ screens \in Layouts
    /\ \E p \in Points : micro = FitRect(Rect(p[1], p[2], Micro), screens, 0)
    /\ card = Nowhere /\ gesture = "none"

(* A screen is plugged in, unplugged or changes its available area.         *)
ScreensChange(areas) ==
    /\ areas # screens /\ screens' = areas
    /\ UNCHANGED gesture
    /\ RecoverPositions

(* show_primary                                                             *)
ShowPrimary ==
    /\ UNCHANGED <<screens, gesture>>
    /\ RecoverPositions

ShowCard ==
    /\ gesture = "none" /\ card' = PlaceCard(micro, screens)
    /\ UNCHANGED <<screens, micro, gesture>>

CollapseCard == card # Nowhere /\ card' = Nowhere /\ UNCHANGED <<screens, micro, gesture>>

(* mouseMoveEvent past the drag distance: the card goes, the window follows *)
(* the pointer, whatever moved it since the press.                          *)
Drag(p) ==
    /\ gesture' = "drag" /\ card' = Nowhere
    /\ micro' = Rect(p[1], p[2], Micro)
    /\ UNCHANGED screens

(* mouseReleaseEvent and _finish_drag.                                      *)
FinishDrag ==
    /\ gesture = "drag" /\ gesture' = "none"
    /\ micro' = FitRect(micro, screens, Snap)
    /\ UNCHANGED <<screens, card>>

(* The program ends, which saves the place, and starts with what it saved.  *)
Restart(areas) ==
    /\ gesture = "none" /\ screens' = areas
    /\ micro' = FitRect(Rect(micro.x, micro.y, Micro), screens', 0)
    /\ card' = Nowhere /\ UNCHANGED gesture

GeometryNext ==
    \/ \E areas \in Layouts : ScreensChange(areas) \/ Restart(areas)
    \/ ShowPrimary \/ ShowCard \/ CollapseCard
    \/ \E p \in Points : Drag(p)
    \/ FinishDrag

GeometrySpec == GeometryInit /\ [][GeometryNext]_geometryVars

-----------------------------------------------------------------------------
(* Unless it is being dragged, the micro window is on one of the screens as *)
(* a whole, wherever it was dropped and whichever screens are left          *)
(* (controller.py:377-397, window_geometry.py:38-51).                       *)
OnScreen == gesture = "none" => \E a \in screens : Within(a, micro)

Disjoint(r, s) ==
    Right(r) <= s.x \/ Right(s) <= r.x \/ Bottom(r) <= s.y \/ Bottom(s) <= r.y

(* A card that is shown lies on the screen of the micro window and does not *)
(* cover it, unless that screen has no room on any side of it               *)
(* (controller.py:384-391, window_geometry.py:54-64).                       *)
CardBeside ==
    card # Nowhere =>
        LET area  == ScreenFor(micro, screens)
            sides == Candidates(micro, card)
        IN  /\ Within(area, card)
            /\ Disjoint(card, micro) \/ \A i \in 1..4 : ~Within(area, sides[i])

AtRest == gesture = "none" /\ gesture' = "none" /\ screens' = screens

(* A window at rest stays where the user left it: neither showing it again  *)
(* nor a restart on the same screens moves it.                              *)
StaysPut == [][AtRest => micro' = micro]_geometryVars
-----------------------------------------------------------------------------
(* Why they hold: a place on a screen fits as it is, and a drag hides the   *)
(* card.                                                                    *)
GeometryInv ==
    /\ screens \in Layouts /\ gesture \in {"none", "drag"}
    /\ micro \in Rects /\ micro.width = Micro.width /\ micro.height = Micro.height
    /\ OnScreen /\ CardBeside /\ (gesture = "drag" => card = Nowhere)
=============================================================================
