--------------------------- MODULE Windows_proofs ---------------------------
(***************************************************************************)
(* Proofs about the windows.  WindowGeometry: for all integer coordinates, *)
(* sizes and sets of screens, a fitted window is on a screen as a whole,   *)
(* fitting it again leaves it alone, and a card lies beside it.  MicroCard *)
(* and KeyButton: what clicks, timers, menus and refreshes make of the     *)
(* micro window, its card and the button on it.                            *)
(***************************************************************************)
EXTENDS WindowGeometry, MicroCard, KeyButton, DataLemmas

USE DEF Least, Greatest, Right, Bottom

-----------------------------------------------------------------------------
(* One dimension: what fits stays inside, and stays where it is if nothing  *)
(* pulls.                                                                   *)
LEMMA AlongInside ==
  ASSUME NEW low \in Int, NEW high \in Int, NEW length \in Int, NEW at \in Int,
         NEW snap \in Nat, low + length <= high
  PROVE  /\ Along(low, high, length, at, snap) \in Int
         /\ low <= Along(low, high, length, at, snap)
         /\ Along(low, high, length, at, snap) + length <= high
  BY DEF Along, Pulled, Clamped

LEMMA AlongFixed ==
  ASSUME NEW low \in Int, NEW high \in Int, NEW length \in Int, NEW at \in Int,
         low <= at, at + length <= high
  PROVE  Along(low, high, length, at, 0) = at
  BY DEF Along, Pulled, Clamped, Distance

(* fit_rect puts a rectangle into the area as a whole.                      *)
LEMMA FitInside ==
  ASSUME NEW r \in Rects, NEW area \in Rects, NEW snap \in Nat
  PROVE  LET f == FitIn(r, area, snap)
         IN  /\ f \in Rects /\ Within(area, f)
             /\ r.width <= area.width => f.width = r.width
             /\ r.height <= area.height => f.height = r.height
  <1> DEFINE width  == Least(r.width, area.width)
             height == Least(r.height, area.height)
  <1>1. /\ width \in Nat \ {0} /\ height \in Nat \ {0}
        /\ width <= area.width /\ height <= area.height
    BY DEF Rects
  <1>2. /\ area.x \in Int /\ Right(area) \in Int /\ r.x \in Int
        /\ area.y \in Int /\ Bottom(area) \in Int /\ r.y \in Int
        /\ area.x + width <= Right(area) /\ area.y + height <= Bottom(area)
    BY <1>1 DEF Rects
  <1>3. /\ Along(area.x, Right(area), width, r.x, snap) \in Int
        /\ area.x <= Along(area.x, Right(area), width, r.x, snap)
        /\ Along(area.x, Right(area), width, r.x, snap) + width <= Right(area)
    <2> HIDE DEF width, height, Right
    <2>1. width \in Int
      BY <1>1
    <2> QED
      BY <2>1, <1>2, AlongInside
  <1>4. /\ Along(area.y, Bottom(area), height, r.y, snap) \in Int
        /\ area.y <= Along(area.y, Bottom(area), height, r.y, snap)
        /\ Along(area.y, Bottom(area), height, r.y, snap) + height <= Bottom(area)
    <2> HIDE DEF width, height, Bottom
    <2>1. height \in Int
      BY <1>1
    <2> QED
      BY <2>1, <1>2, AlongInside
  <1> QED
    BY <1>1, <1>3, <1>4 DEF FitIn, Rects, Within

(* What is inside the area already is left where it is.                     *)
LEMMA FitFixed ==
  ASSUME NEW r \in Rects, NEW area \in Rects, Within(area, r)
  PROVE  FitIn(r, area, 0) = r
  <1>1. r.width <= area.width /\ r.height <= area.height
    BY DEF Rects, Within
  <1>2. Along(area.x, Right(area), r.width, r.x, 0) = r.x
    BY AlongFixed DEF Rects, Within
  <1>3. Along(area.y, Bottom(area), r.height, r.y, 0) = r.y
    BY AlongFixed DEF Rects, Within
  <1>4. FitIn(r, area, 0) = [x |-> r.x, y |-> r.y, width |-> r.width, height |-> r.height]
    BY <1>1, <1>2, <1>3 DEF FitIn, Rects
  <1> QED
    BY <1>4 DEF Rects
-----------------------------------------------------------------------------
(* Products of naturals grow with their factors.                            *)
LEMMA ProductBound ==
  ASSUME NEW a \in Nat, NEW b \in Nat, NEW c \in Nat, NEW d \in Nat, a <= c, b <= d
  PROVE  a * b \in Nat /\ a * b <= c * d
  OBVIOUS

LEMMA ProductFull ==
  ASSUME NEW a \in Nat, NEW b \in Nat, NEW c \in Nat \ {0}, NEW d \in Nat \ {0},
         a <= c, b <= d, a * b = c * d
  PROVE  a = c /\ b = d
  OBVIOUS

Area(r) == r.width * r.height

(* The overlap is at most the rectangle, and all of it if and only if the   *)
(* screen contains the rectangle.                                           *)
LEMMA OverlapBounds ==
  ASSUME NEW r \in Rects, NEW a \in Rects
  PROVE  /\ Overlap(r, a) \in Nat /\ Area(r) \in Nat /\ Overlap(r, a) <= Area(r)
         /\ Within(a, r) <=> Overlap(r, a) = Area(r)
  <1> DEFINE across == Greatest(0, Least(Right(r), Right(a)) - Greatest(r.x, a.x))
             down   == Greatest(0, Least(Bottom(r), Bottom(a)) - Greatest(r.y, a.y))
  <1>1. /\ across \in Nat /\ across <= r.width /\ r.width \in Nat \ {0}
        /\ across = r.width <=> a.x <= r.x /\ Right(r) <= Right(a)
    BY DEF Rects
  <1>2. /\ down \in Nat /\ down <= r.height /\ r.height \in Nat \ {0}
        /\ down = r.height <=> a.y <= r.y /\ Bottom(r) <= Bottom(a)
    BY DEF Rects
  <1>3. Overlap(r, a) = across * down
    BY DEF Overlap
  <1>4. Within(a, r) <=> across = r.width /\ down = r.height
    BY <1>1, <1>2 DEF Within
  <1> HIDE DEF across, down
  <1>5. across * down \in Nat /\ across * down <= r.width * r.height
    BY <1>1, <1>2, ProductBound
  <1>6. r.width * r.height \in Nat
    BY <1>1, <1>2, ProductBound
  <1>7. across * down = r.width * r.height => across = r.width /\ down = r.height
    BY <1>1, <1>2, ProductFull
  <1> QED
    BY <1>3, <1>4, <1>5, <1>6, <1>7 DEF Area
-----------------------------------------------------------------------------
(* The distance of two centers is a natural number.                         *)
LEMMA ApartNatural ==
  ASSUME NEW r \in Rects, NEW a \in Rects
  PROVE  Apart(r, a) \in Nat
  <1>1. /\ (r.x + r.width \div 2) - (a.x + a.width \div 2) \in Int
        /\ (r.y + r.height \div 2) - (a.y + a.height \div 2) \in Int
    BY DEF Rects
  <1>2. \A n, k \in Int : n * n + k * k \in Nat
    OBVIOUS
  <1> QED
    BY <1>1, <1>2 DEF Apart

(* screen_for returns one of the screens, and none is preferred to it.      *)
LEMMA BestScreen ==
  ASSUME NEW r \in Rects, NEW areas, areas \subseteq Rects, areas # {}
  PROVE  /\ ScreenFor(r, areas) \in areas
         /\ \A b \in areas : ~Prefers(r, b, ScreenFor(r, areas))
  <1> DEFINE Missing(a) == Area(r) - Overlap(r, a)
             Deficits   == {Missing(a) : a \in areas}
  <1>1. \A a \in areas : Missing(a) \in Nat /\ Overlap(r, a) \in Nat
    BY OverlapBounds
  <1>2. PICK m \in Deficits : \A n \in Deficits : m <= n
    <2> HIDE DEF Missing
    <2>1. Deficits \subseteq Nat /\ Deficits # {}
      BY <1>1
    <2> HIDE DEF Deficits
    <2> QED
      BY <2>1, LeastNumber
  <1> DEFINE Largest   == {a \in areas : Missing(a) = m}
             Distances == {Apart(r, a) : a \in Largest}
  <1>3. PICK d \in Distances : \A n \in Distances : d <= n
    <2>1. Largest # {}
      BY <1>2
    <2>2. Distances \subseteq Nat /\ Distances # {}
      BY <2>1, ApartNatural
    <2> HIDE DEF Distances
    <2> QED
      BY <2>2, LeastNumber
  <1>4. PICK best \in areas : Missing(best) = m /\ Apart(r, best) = d
    BY <1>3
  <1>5. ASSUME NEW b \in areas PROVE ~Prefers(r, b, best)
    <2>1. Missing(best) <= Missing(b)
      BY <1>2, <1>4
    <2>2. Missing(b) = Missing(best) => Apart(r, best) <= Apart(r, b)
      BY <1>3, <1>4
    <2>3. Apart(r, b) \in Nat /\ Apart(r, best) \in Nat /\ Area(r) \in Nat
      BY ApartNatural, OverlapBounds
    <2> QED
      BY <1>1, <2>1, <2>2, <2>3 DEF Prefers
  <1> QED
    BY <1>5 DEF ScreenFor
-----------------------------------------------------------------------------
(* fit_rect over all the screens: the best screen contains what it returns, *)
(* which is as large as before where there is room.                         *)
LEMMA FitOnBest ==
  ASSUME NEW r \in Rects, NEW areas \in Layouts, NEW snap \in Nat
  PROVE  /\ ScreenFor(r, areas) \in areas /\ ScreenFor(r, areas) \in Rects
         /\ FitRect(r, areas, snap) \in Rects
         /\ Within(ScreenFor(r, areas), FitRect(r, areas, snap))
         /\ r.width = Micro.width /\ r.height = Micro.height =>
              /\ FitRect(r, areas, snap).width = Micro.width
              /\ FitRect(r, areas, snap).height = Micro.height
  <1>1. areas \subseteq Rects /\ areas # {}
    BY GeometryAssumption DEF GeometryAssumption
  <1>2. ScreenFor(r, areas) \in areas
    BY <1>1, BestScreen
  <1>3. /\ Micro.width <= ScreenFor(r, areas).width
        /\ Micro.height <= ScreenFor(r, areas).height
    BY <1>2, GeometryAssumption DEF GeometryAssumption
  <1> QED
    BY <1>1, <1>2, <1>3, FitInside DEF FitRect

(* A rectangle that some screen contains is left where it is: the screen    *)
(* that is chosen for it contains it too.                                   *)
LEMMA Refit ==
  ASSUME NEW r \in Rects, NEW areas \in Layouts, \E a \in areas : Within(a, r)
  PROVE  FitRect(r, areas, 0) = r
  <1>1. areas \subseteq Rects /\ areas # {}
    BY GeometryAssumption DEF GeometryAssumption
  <1> DEFINE best == ScreenFor(r, areas)
  <1>2. best \in areas /\ \A b \in areas : ~Prefers(r, b, best)
    BY <1>1, BestScreen
  <1> HIDE DEF best
  <1>3. PICK a \in areas : Within(a, r)
    OBVIOUS
  <1>4. Overlap(r, a) = Area(r) /\ Overlap(r, a) \in Nat
    BY <1>1, <1>3, OverlapBounds
  <1>5. Overlap(r, best) <= Area(r) /\ Overlap(r, best) \in Nat
    BY <1>1, <1>2, OverlapBounds
  <1>6. ~(Overlap(r, a) > Overlap(r, best))
    BY <1>2 DEF Prefers
  <1>7. Within(best, r)
    BY <1>1, <1>2, <1>4, <1>5, <1>6, OverlapBounds
  <1>8. best \in Rects
    BY <1>1, <1>2
  <1> QED
    BY <1>7, <1>8, FitFixed DEF FitRect, best
-----------------------------------------------------------------------------
(* The four places of a card do not cover its anchor.                       *)
LEMMA SidesDisjoint ==
  ASSUME NEW anchor \in Rects, NEW size, size.width \in Nat, size.height \in Nat,
         NEW i \in 1..4
  PROVE  Disjoint(Candidates(anchor, size)[i], anchor)
  <1>1. Gap \in Nat
    BY GeometryAssumption DEF GeometryAssumption
  <1>2. i = 1 \/ i = 2 \/ i = 3 \/ i = 4
    OBVIOUS
  <1> QED
    BY <1>1, <1>2 DEF Candidates, Rect, Disjoint, Rects

(* The first of some places exists.                                         *)
LEMMA FirstPlace ==
  ASSUME NEW room, room \subseteq 1..4, room # {}
  PROVE  (CHOOSE i \in room : \A j \in room : i <= j) \in room
  <1>1. PICK m \in room : \A n \in room : m <= n
    <2>1. room \subseteq Nat
      OBVIOUS
    <2> QED
      BY <2>1, LeastNumber
  <1> QED
    BY <1>1

(* place_card: on the screen of the anchor, and beside it unless no side of *)
(* it has room.                                                             *)
LEMMA CardPlaced ==
  ASSUME NEW anchor \in Rects, NEW areas \in Layouts
  PROVE  LET area  == ScreenFor(anchor, areas)
             p     == PlaceCard(anchor, areas)
             sides == Candidates(anchor, p)
         IN  /\ Within(area, p)
             /\ Disjoint(p, anchor) \/ \A i \in 1..4 : ~Within(area, sides[i])
  <1> DEFINE area  == ScreenFor(anchor, areas)
             width  == Least(Card.width, area.width)
             height == Least(Card.height, area.height)
             size  == [width |-> width, height |-> height]
             sides == Candidates(anchor, size)
             room  == {i \in 1..4 : Within(area, sides[i])}
             first == CHOOSE i \in room : \A j \in room : i <= j
  <1>1. area \in Rects
    BY FitOnBest
  <1>2. Card \in Sizes /\ Gap \in Nat
    BY GeometryAssumption DEF GeometryAssumption
  <1> HIDE DEF area
  <1>3. /\ width \in Nat \ {0} /\ height \in Nat \ {0}
        /\ width <= area.width /\ height <= area.height
    BY <1>1, <1>2 DEF Rects, Sizes
  <1> HIDE DEF width, height
  <1>4. \A i \in 1..4 : sides[i].width = width /\ sides[i].height = height
    <2>1. \A i \in 1..4 : i = 1 \/ i = 2 \/ i = 3 \/ i = 4
      OBVIOUS
    <2> QED
      BY <2>1 DEF Candidates, Rect
  <1>5. PlaceCard(anchor, areas) =
          IF room = {} THEN FitIn(sides[1], area, 0) ELSE sides[first]
    BY DEF PlaceCard, area, width, height
  <1>6. CASE room = {}
    <2>1. sides[1] \in Rects
      BY <1>2, <1>3 DEF Candidates, Rect, Rects
    <2>2. /\ Within(area, FitIn(sides[1], area, 0))
          /\ FitIn(sides[1], area, 0).width = width
          /\ FitIn(sides[1], area, 0).height = height
      <3>1. sides[1].width = width /\ sides[1].height = height
        BY <1>4
      <3>2. \A r \in Rects : r.width <= area.width /\ r.height <= area.height =>
              /\ Within(area, FitIn(r, area, 0))
              /\ FitIn(r, area, 0).width = r.width /\ FitIn(r, area, 0).height = r.height
        BY <1>1, FitInside
      <3> HIDE DEF sides
      <3> QED
        BY <1>3, <2>1, <3>1, <3>2
    <2>3. Candidates(anchor, FitIn(sides[1], area, 0)) = sides
      BY <2>2 DEF Candidates, Rect
    <2> QED
      BY <1>5, <1>6, <2>2, <2>3 DEF area
  <1>7. CASE room # {}
    <2>1. first \in room
      BY <1>7, FirstPlace
    <2>2. first \in 1..4 /\ Within(area, sides[first])
      BY <2>1
    <2>3. Disjoint(sides[first], anchor)
      BY <1>3, <2>2, SidesDisjoint
    <2> QED
      BY <1>5, <1>7, <2>2, <2>3 DEF area
  <1> QED
    BY <1>6, <1>7
-----------------------------------------------------------------------------
(* Every place a user, the preference file or a screen leaves it at.        *)
LEMMA MicroRect ==
  ASSUME NEW x \in Int, NEW y \in Int
  PROVE  LET r == Rect(x, y, Micro)
         IN  r \in Rects /\ r.width = Micro.width /\ r.height = Micro.height
  BY GeometryAssumption DEF Rect, Rects, Sizes

(* A fitted place establishes what the invariant says of the micro window.  *)
LEMMA FittedPlace ==
  ASSUME NEW r \in Rects, r.width = Micro.width, r.height = Micro.height,
         NEW areas \in Layouts, NEW snap \in Nat
  PROVE  LET f == FitRect(r, areas, snap)
         IN  /\ f \in Rects /\ f.width = Micro.width /\ f.height = Micro.height
             /\ \E a \in areas : Within(a, f)
  BY FitOnBest

(* The micro window starts on a screen, without a card.                     *)
LEMMA InitInv == GeometryInit => GeometryInv
  <1> SUFFICES ASSUME GeometryInit PROVE GeometryInv
    OBVIOUS
  <1>1. PICK p \in Points : micro = FitRect(Rect(p[1], p[2], Micro), screens, 0)
    BY DEF GeometryInit
  <1>2. p[1] \in Int /\ p[2] \in Int
    BY GeometryAssumption
  <1>3. screens \in Layouts /\ gesture = "none" /\ card = Nowhere
    BY DEF GeometryInit
  <1> QED
    BY <1>1, <1>2, <1>3, MicroRect, FittedPlace DEF GeometryInv, OnScreen, CardBeside

(* Fitting the window to the screens, and the card to the window.           *)
LEMMA RecoverKeepsInv ==
  ASSUME GeometryInv, screens' \in Layouts, RecoverPositions, UNCHANGED gesture
  PROVE  GeometryInv'
  <1>1. /\ micro' = FitRect(micro, screens', 0)
        /\ card' = IF card = Nowhere THEN Nowhere ELSE PlaceCard(micro', screens')
    BY DEF RecoverPositions, PositionCard
  <1>2. /\ micro' \in Rects /\ micro'.width = Micro.width /\ micro'.height = Micro.height
        /\ \E a \in screens' : Within(a, micro')
    BY <1>1, FittedPlace DEF GeometryInv
  <1>3. CardBeside'
    <2>1. CASE card = Nowhere
      BY <1>1, <2>1 DEF CardBeside
    <2>2. CASE card # Nowhere
      BY <1>1, <1>2, <2>2, CardPlaced DEF CardBeside
    <2> QED
      BY <2>1, <2>2
  <1> QED
    BY <1>1, <1>2, <1>3 DEF GeometryInv, OnScreen

(* The card opens beside the window, or closes.                             *)
LEMMA CardKeepsInv ==
  ASSUME GeometryInv, ShowCard \/ CollapseCard
  PROVE  GeometryInv'
  <1>1. CASE ShowCard
    <2>1. card' = PlaceCard(micro, screens) /\ UNCHANGED <<screens, micro, gesture>>
      BY <1>1 DEF ShowCard
    <2>2. gesture = "none"
      BY <1>1 DEF ShowCard
    <2>3. CardBeside'
      BY <2>1, CardPlaced DEF GeometryInv, CardBeside
    <2> QED
      BY <2>1, <2>2, <2>3 DEF GeometryInv, OnScreen
  <1>2. CASE CollapseCard
    BY <1>2 DEF CollapseCard, GeometryInv, OnScreen, CardBeside
  <1> QED
    BY <1>1, <1>2

(* The user moves the window and lets it go.                                *)
LEMMA DragKeepsInv ==
  ASSUME GeometryInv, (\E p \in Points : Drag(p)) \/ FinishDrag
  PROVE  GeometryInv'
  <1>1. ASSUME NEW p \in Points, Drag(p) PROVE GeometryInv'
    <2>1. p[1] \in Int /\ p[2] \in Int
      BY GeometryAssumption
    <2>2. /\ micro' \in Rects /\ micro'.width = Micro.width
          /\ micro'.height = Micro.height
      BY <1>1, <2>1, MicroRect DEF Drag
    <2> QED
      BY <1>1, <2>2 DEF Drag, GeometryInv, OnScreen, CardBeside
  <1>2. CASE FinishDrag
    <2>1. Snap \in Nat
      BY GeometryAssumption
    <2>2. /\ micro' \in Rects /\ micro'.width = Micro.width
          /\ micro'.height = Micro.height /\ \E a \in screens : Within(a, micro')
      BY <1>2, <2>1, FittedPlace DEF FinishDrag, GeometryInv
    <2> QED
      BY <1>2, <2>2 DEF FinishDrag, GeometryInv, OnScreen, CardBeside
  <1> QED
    BY <1>1, <1>2

(* The program ends and starts again, perhaps on other screens.             *)
LEMMA RestartKeepsInv ==
  ASSUME GeometryInv, NEW areas \in Layouts, Restart(areas)
  PROVE  GeometryInv'
  <1>1. /\ screens' = areas /\ card' = Nowhere /\ gesture' = "none"
        /\ micro' = FitRect(Rect(micro.x, micro.y, Micro), areas, 0)
    BY DEF Restart
  <1>2. micro.x \in Int /\ micro.y \in Int
    BY DEF GeometryInv, Rects
  <1>3. /\ micro' \in Rects /\ micro'.width = Micro.width
        /\ micro'.height = Micro.height /\ \E a \in areas : Within(a, micro')
    BY <1>1, <1>2, MicroRect, FittedPlace
  <1> QED
    BY <1>1, <1>3 DEF GeometryInv, OnScreen, CardBeside

(* The inductive step.                                                      *)
LEMMA NextInv == GeometryInv /\ [GeometryNext]_geometryVars => GeometryInv'
  <1> SUFFICES ASSUME GeometryInv, [GeometryNext]_geometryVars PROVE GeometryInv'
    OBVIOUS
  <1>1. CASE UNCHANGED geometryVars
    BY <1>1 DEF geometryVars, GeometryInv, OnScreen, CardBeside
  <1>2. ASSUME NEW areas \in Layouts, ScreensChange(areas) PROVE GeometryInv'
    BY <1>2, RecoverKeepsInv DEF ScreensChange
  <1>3. CASE ShowPrimary
    BY <1>3, RecoverKeepsInv DEF ShowPrimary, GeometryInv
  <1> QED
    BY <1>1, <1>2, <1>3, CardKeepsInv, DragKeepsInv, RestartKeepsInv DEF GeometryNext

LEMMA GeometryHolds == GeometrySpec => []GeometryInv
  BY InitInv, NextInv, PTL DEF GeometrySpec

(* For all coordinates, sizes and screens with room for it, the micro       *)
(* window is on a screen as a whole unless it is being dragged.             *)
THEOREM MicroOnScreen == GeometrySpec => []OnScreen
  BY GeometryHolds, PTL DEF GeometryInv

(* And a card that is shown is on its screen and beside it wherever a side  *)
(* of it has room.                                                          *)
THEOREM CardNeverCovers == GeometrySpec => []CardBeside
  BY GeometryHolds, PTL DEF GeometryInv

(* At rest it stays where it was left: what recovery or a restart fits was  *)
(* fitted before, also where screens overlap.                               *)
THEOREM MicroStaysPut == GeometrySpec => StaysPut
  <1>1. GeometryInv /\ [GeometryNext]_geometryVars
          => [AtRest => micro' = micro]_geometryVars
    <2> SUFFICES ASSUME GeometryInv, GeometryNext, AtRest PROVE micro' = micro
      OBVIOUS
    <2>1. micro \in Rects /\ screens \in Layouts /\ \E a \in screens : Within(a, micro)
      BY DEF GeometryInv, OnScreen, AtRest
    <2>2. FitRect(micro, screens, 0) = micro
      BY <2>1, Refit
    <2>3. Rect(micro.x, micro.y, Micro) = micro
      BY DEF GeometryInv, Rects, Rect
    <2>4. CASE RecoverPositions
      BY <2>2, <2>4 DEF RecoverPositions, AtRest
    <2>5. ASSUME NEW areas \in Layouts, Restart(areas) PROVE micro' = micro
      BY <2>2, <2>3, <2>5 DEF Restart, AtRest
    <2> QED
      BY <2>4, <2>5 DEF GeometryNext, ScreensChange, ShowPrimary, ShowCard, CollapseCard,
                        Drag, FinishDrag, AtRest
  <1> QED
    BY <1>1, GeometryHolds, PTL DEF GeometrySpec, StaysPut

-----------------------------------------------------------------------------
(* MicroCard: what the handlers make of the card.                           *)
CardStates == [card : BOOLEAN, persistent : BOOLEAN, hover : BOOLEAN, collapse : BOOLEAN]

(* A handler that shows or hides no window may start and stop timers and    *)
(* keep the card.                                                           *)
LEMMA HandlersKeepCard ==
  ASSUME NEW u \in CardStates, NEW place, popup \in {"none", "main", "chooser"}
  PROVE  \A v \in {LeaveRegion(u), EnterMicro(u), EnterCard(u), KeepCard(u), Leaves(place, u),
                   Enters(place, u)} :
           v \in CardStates /\ v.card = u.card /\ (u.persistent => v.persistent)
  <1>1. \A v \in {LeaveRegion(u), EnterMicro(u), EnterCard(u), KeepCard(u)} :
           v \in CardStates /\ v.card = u.card /\ (u.persistent => v.persistent)
    BY DEF CardStates, LeaveRegion, EnterMicro, EnterCard, KeepCard
  <1>2. /\ Leaves(place, u) \in {u, LeaveRegion(u)}
        /\ Enters(place, u) \in {u, EnterMicro(u), EnterCard(u)}
    BY DEF Leaves, Enters
  <1> QED
    BY <1>1, <1>2

LEMMA CollapseMakes ==
  ASSUME CollapseFires
  PROVE  \/ Becomes(Quiet, shown) /\ ~ui.persistent /\ popup = "none"
         \/ Becomes([ui EXCEPT !.collapse = FALSE], shown)
  BY Zenon DEF CollapseFires, MayCollapse

LEMMA CardStarts == CardInit => CardInv
  <1> SUFFICES ASSUME CardInit PROVE CardInv
    OBVIOUS
  <1>1. pins.tray = pins[mode] /\ pins \in [micro : BOOLEAN, compact : BOOLEAN, tray : BOOLEAN]
    <2>1. PICK top \in BOOLEAN :
            pins = [micro |-> top, compact |-> FALSE, tray |-> mode = "micro" /\ top]
      BY DEF CardInit
    <2>2. CASE mode = "micro"
      BY <2>1, <2>2
    <2>3. CASE mode = "compact"
      BY <2>1, <2>3
    <2> QED
      BY <2>2, <2>3 DEF CardInit
  <1> QED
    BY <1>1, PlacesAssumption DEF CardInit, CardInv, CardTypeOK, CardNeedsMicro, PinsAgree, Quiet

LEMMA TimersKeepCard ==
  ASSUME NEW u \in CardStates
  PROVE  /\ \A v \in {[u EXCEPT !.hover = FALSE], [u EXCEPT !.collapse = FALSE],
                      [u EXCEPT !.hover = FALSE, !.collapse = FALSE]} :
              v \in CardStates /\ v.card = u.card /\ v.persistent = u.persistent
         /\ LET v == [KeepCard(u) EXCEPT !.hover = FALSE]
            IN  v \in CardStates /\ v.card = u.card /\ v.persistent
         /\ LET v == [u EXCEPT !.card = FALSE, !.hover = FALSE, !.collapse = FALSE]
            IN  v \in CardStates /\ ~v.card
         /\ KeepCard(u).persistent
         /\ LeaveRegion(u).persistent = u.persistent
         /\ \A interactive \in BOOLEAN :
              LET v == CardShown(u, interactive)
              IN  v \in CardStates /\ v.card /\ v.persistent = (u.persistent \/ interactive)
  BY DEF CardStates, KeepCard, CardShown, LeaveRegion

LEMMA QuietState ==
  Quiet \in CardStates /\ ~Quiet.card /\ ~Quiet.persistent
  BY DEF Quiet, CardStates

LEMMA CardTypes ==
  ASSUME CardInv
  PROVE  ui \in CardStates /\ shown \in BOOLEAN /\ popup \in {"none", "main", "chooser"}
  BY DEF CardInv, CardTypeOK, CardStates

(* What a handler has to see to when it sets the card to u and shows the    *)
(* micro window or not.                                                     *)
LEMMA BecomesKeepsCardInv ==
  ASSUME CardInv, NEW u \in CardStates, NEW visible \in BOOLEAN, Becomes(u, visible),
         mode' \in {"micro", "compact"}, shut' \in BOOLEAN,
         pins' \in [micro : BOOLEAN, compact : BOOLEAN, tray : BOOLEAN], pins'.tray = pins'[mode'],
         press' \in {"up", "down", "drag"}, popup' \in {"none", "main", "chooser"},
         visible => mode' = "micro" /\ ~shut',
         u.card => visible,
         ui.card /\ u.card => (ui.persistent => u.persistent),
         popup' = "chooser" => u.card /\ u.persistent,
         press' # "up" => visible /\ popup' = "none" /\ pointer # "card",
         popup' # "none" => ~shut'
  PROVE  CardInv'
  <1>1. ui' = u /\ shown' = visible /\ engaged' = (engaged /\ u.card)
    BY DEF Becomes
  <1>2. /\ pointer' \in Places
        /\ pointer' = "micro" => visible
        /\ pointer' = "card" => u.card /\ pointer = "card"
    BY PlacesAssumption DEF Becomes, Under, CardInv, CardTypeOK
  <1>3. engaged' \in BOOLEAN /\ (engaged' => u.card /\ u.persistent)
    BY <1>1 DEF CardInv, CardTypeOK, CardStates
  <1> QED
    BY <1>1, <1>2, <1>3 DEF CardInv, CardTypeOK, CardNeedsMicro, PinsAgree, CardStates

(* The same for one that leaves the windows and the pointer where they are. *)
LEMMA KeepingKeepsCardInv ==
  ASSUME CardInv, ui' \in CardStates, engaged' \in BOOLEAN,
         popup' \in {"none", "main", "chooser"}, press' \in {"up", "down", "drag"},
         UNCHANGED <<mode, shown, pointer, pins, shut>>,
         ui'.card => shown, ui.card => ui'.card,
         engaged' => ui'.card /\ ui'.persistent,
         popup' = "chooser" => ui'.card /\ ui'.persistent,
         press' # "up" => shown /\ popup' = "none" /\ pointer # "card",
         popup' # "none" => ~shut
  PROVE  CardInv'
  BY DEF CardInv, CardTypeOK, CardNeedsMicro, PinsAgree, CardStates

LEMMA PointerKeepsCardInv == ASSUME CardInv, PointerMoves PROVE CardInv'
  <1>1. PICK place \in Places \ {pointer} :
          /\ place = "micro" => shown
          /\ place = "card" => ui.card
          /\ ui' = IF popup = "none" THEN Enters(place, Leaves(pointer, ui)) ELSE ui
          /\ pointer' = place
    BY DEF PointerMoves
  <1>2. ui \in CardStates /\ popup \in {"none", "main", "chooser"}
    BY DEF CardInv, CardTypeOK, CardStates
  <1>3. ui' \in CardStates /\ ui'.card = ui.card /\ (ui.persistent => ui'.persistent)
    <2> DEFINE left == Leaves(pointer, ui)
    <2>1. left \in CardStates /\ left.card = ui.card /\ (ui.persistent => left.persistent)
      BY <1>2, HandlersKeepCard
    <2> HIDE DEF left
    <2>2. /\ Enters(place, left) \in CardStates /\ Enters(place, left).card = left.card
          /\ left.persistent => Enters(place, left).persistent
      BY <1>2, <2>1, HandlersKeepCard
    <2>3. ui' = IF popup = "none" THEN Enters(place, left) ELSE ui
      BY <1>1 DEF left
    <2> QED
      BY <1>2, <2>1, <2>2, <2>3
  <1> QED
    BY <1>1, <1>3
    DEF CardInv, CardTypeOK, CardNeedsMicro, PinsAgree, CardStates, PointerMoves

(* A timer only clears itself when the card stays as it is.                 *)
LEMMA TimerIsCleared ==
  ASSUME NEW u \in CardStates
  PROVE  \A v \in {[u EXCEPT !.collapse = FALSE], [u EXCEPT !.hover = FALSE]} :
            v \in CardStates /\ v.card = u.card /\ v.persistent = u.persistent
  BY DEF CardStates

LEMMA TimersKeepCardInv == ASSUME CardInv, Timers PROVE CardInv'
  <1>1. PICK u \in CardStates :
          /\ Becomes(u, shown)
          /\ u.card => (shown /\ mode = "micro") \/ ui.card
          /\ \/ ui.card => u.card /\ u.persistent = ui.persistent
             \/ u = Quiet /\ popup = "none"
    <2>1. CASE HoverFires
      <3>1. CardShown(ui, FALSE) \in CardStates /\ CardShown(ui, FALSE).card
              /\ CardShown(ui, FALSE).persistent = ui.persistent
        BY CardTypes, TimersKeepCard DEF CardStates
      <3>2. CASE Becomes(CardShown(ui, FALSE), shown) /\ shown /\ mode = "micro"
        BY <3>1, <3>2
      <3>3. CASE Becomes([ui EXCEPT !.hover = FALSE], shown)
        BY <3>3, CardTypes, TimerIsCleared
      <3> QED
        BY <2>1, <3>2, <3>3 DEF HoverFires
    <2>2. CASE CollapseFires
      <3>1. CASE Becomes(Quiet, shown) /\ popup = "none"
        BY <3>1, QuietState
      <3>2. CASE Becomes([ui EXCEPT !.collapse = FALSE], shown)
        BY <3>2, CardTypes, TimerIsCleared
      <3> QED
        BY <2>2, <3>1, <3>2, CollapseMakes
    <2> QED
      BY <2>1, <2>2 DEF Timers
  <1>2. UNCHANGED <<mode, popup, press, pins, shut>>
    BY DEF Timers, HoverFires, CollapseFires
  <1>3. ui.card /\ u.card => (ui.persistent => u.persistent)
    BY <1>1, QuietState
  <1>4. popup = "chooser" => u.card /\ u.persistent
    BY <1>1 DEF CardInv, CardTypeOK
  <1> QED
    BY <1>1, <1>2, <1>3, <1>4, CardTypes, BecomesKeepsCardInv
    DEF CardInv, CardTypeOK, CardNeedsMicro, PinsAgree

(* Presses, drags and clicks on the micro window and its card.              *)
LEMMA ClicksKeepCardInv ==
  ASSUME CardInv, MousePress \/ MouseDrag \/ MouseRelease \/ CardEvents
  PROVE  CardInv'
  <1>1. /\ KeepCard(ui) \in CardStates /\ KeepCard(ui).card = ui.card /\ KeepCard(ui).persistent
        /\ CardShown(ui, TRUE) \in CardStates /\ CardShown(ui, TRUE).card
        /\ CardShown(ui, TRUE).persistent
    BY CardTypes, HandlersKeepCard, TimersKeepCard
  <1>2. CASE MousePress
    BY <1>2, CardTypes, KeepingKeepsCardInv
    DEF CardInv, CardTypeOK, CardNeedsMicro, MousePress
  <1>3. CASE MouseDrag \/ CardCloses
    <2>1. /\ Becomes(Quiet, shown) /\ UNCHANGED <<mode, popup, pins, shut>>
          /\ popup = "none" /\ press' \in {"up", "down", "drag"}
          /\ press' # "up" => shown /\ pointer # "card"
      BY <1>3 DEF MouseDrag, CardCloses, CardInv, CardTypeOK
    <2>2. /\ mode' \in {"micro", "compact"} /\ shut' \in BOOLEAN /\ popup' = "none"
          /\ pins' \in [micro : BOOLEAN, compact : BOOLEAN, tray : BOOLEAN]
          /\ pins'.tray = pins'[mode'] /\ (shown => mode' = "micro" /\ ~shut')
      BY <2>1 DEF CardInv, CardTypeOK, PinsAgree
    <2> QED
      BY <2>1, <2>2, CardTypes, QuietState, BecomesKeepsCardInv
  <1>4. CASE MouseRelease
    BY <1>1, <1>4, CardTypes, KeepingKeepsCardInv
    DEF CardInv, CardTypeOK, CardNeedsMicro, MouseRelease
  <1>5. CASE CardPress \/ ShowChooser
    BY <1>1, <1>5, CardTypes, KeepingKeepsCardInv
    DEF CardInv, CardTypeOK, CardNeedsMicro, CardPress, ShowChooser
  <1>6. CASE ChooserCloses
    BY <1>1, <1>6, CardTypes, KeepingKeepsCardInv
    DEF CardInv, CardTypeOK, CardNeedsMicro, ChooserCloses
  <1> QED
    BY <1>2, <1>3, <1>4, <1>5, <1>6 DEF CardEvents

(* The menu, while it is open and when it returns.                          *)
LEMMA MenuKeepsCardInv == ASSUME CardInv, Menu PROVE CardInv'
  <1>1. CASE ShowMenu
    <2>1. /\ popup' = "main" /\ popup = "none" /\ press = "up" /\ ~shut
          /\ UNCHANGED <<mode, press, pins, shut>>
      BY <1>1 DEF ShowMenu
    <2>2. CASE pointer = "card" /\ engaged' = TRUE /\ ui' = [KeepCard(ui) EXCEPT !.hover = FALSE]
               /\ UNCHANGED <<shown, pointer>>
      BY <2>1, <2>2, CardTypes, TimersKeepCard, KeepingKeepsCardInv
      DEF CardInv, CardTypeOK, CardNeedsMicro
    <2>3. CASE Becomes([ui EXCEPT !.hover = FALSE, !.collapse = FALSE], shown)
      <3> DEFINE u == [ui EXCEPT !.hover = FALSE, !.collapse = FALSE]
      <3>1. u \in CardStates /\ u.card = ui.card /\ u.persistent = ui.persistent
        BY CardTypes, TimersKeepCard
      <3>2. Becomes(u, shown)
        BY <2>3
      <3> HIDE DEF u
      <3> QED
        BY <2>1, <3>1, <3>2, CardTypes, BecomesKeepsCardInv
        DEF CardInv, CardTypeOK, CardNeedsMicro, PinsAgree
    <2> QED
      BY <1>1, <2>2, <2>3 DEF ShowMenu
  <1>2. CASE MenuDismissed \/ MenuPin
    <2>1. /\ LeaveRegion(ui) \in CardStates /\ LeaveRegion(ui).card = ui.card
          /\ LeaveRegion(ui).persistent = ui.persistent
      BY CardTypes, HandlersKeepCard, TimersKeepCard
    <2>2. pins' \in [micro : BOOLEAN, compact : BOOLEAN, tray : BOOLEAN] /\ pins'.tray = pins'[mode]
      BY <1>2 DEF CardInv, CardTypeOK, PinsAgree, MenuDismissed, MenuPin, Pinned
    <2>3. /\ Becomes(LeaveRegion(ui), shown) /\ mode' = mode /\ press' = press /\ shut' = shut
          /\ popup' = "none" /\ popup = "main"
      BY <1>2 DEF MenuDismissed, MenuPin, MenuReturns
    <2> QED
      BY <2>1, <2>2, <2>3, CardTypes, BecomesKeepsCardInv DEF CardInv, CardTypeOK, CardNeedsMicro
  <1>3. CASE MenuMode \/ MenuHide
    <2>1. LeaveRegion(Quiet) \in CardStates /\ ~LeaveRegion(Quiet).card
      BY QuietState, CardTypes, HandlersKeepCard
    <2>2. pins' \in [micro : BOOLEAN, compact : BOOLEAN, tray : BOOLEAN] /\ pins'.tray = pins'[mode']
      BY <1>3 DEF CardInv, CardTypeOK, PinsAgree, MenuMode, MenuHide, PinsIn
    <2>3. PICK visible \in BOOLEAN :
            /\ Becomes(LeaveRegion(Quiet), visible) /\ mode' \in {"micro", "compact"}
            /\ visible => mode' = "micro"
            /\ popup = "main" /\ popup' = "none" /\ press' = press /\ shut' = shut
      BY <1>3 DEF CardInv, CardTypeOK, MenuMode, MenuHide, MenuReturns, Dismissed
    <2> QED
      BY <2>1, <2>2, <2>3, BecomesKeepsCardInv DEF CardInv, CardTypeOK
  <1> QED
    BY <1>1, <1>2, <1>3 DEF Menu

(* The tray, a close of the primary and the end of the program.             *)
LEMMA TrayKeepsCardInv ==
  ASSUME CardInv, TrayPin \/ TrayShow \/ ClosePrimary \/ ShutdownAll
  PROVE  CardInv'
  <1>1. CASE TrayPin
    <2>1. pins' \in [micro : BOOLEAN, compact : BOOLEAN, tray : BOOLEAN] /\ pins'.tray = pins'[mode]
      BY <1>1 DEF CardInv, CardTypeOK, PinsAgree, TrayPin, Pinned
    <2> QED
      BY <1>1, <2>1 DEF CardInv, CardTypeOK, CardNeedsMicro, PinsAgree, TrayPin
  <1>2. CASE TrayShow
    BY <1>2 DEF CardInv, CardTypeOK, CardNeedsMicro, PinsAgree, TrayShow
  <1>3. CASE ClosePrimary
    BY <1>3, QuietState, BecomesKeepsCardInv
    DEF CardInv, CardTypeOK, PinsAgree, ClosePrimary, Dismissed
  <1>4. CASE ShutdownAll
    <2>1. PICK u \in CardStates : ~u.card /\ Becomes(u, FALSE)
      BY <1>4, CardTypes, TimersKeepCard DEF ShutdownAll
    <2> QED
      BY <1>4, <2>1, BecomesKeepsCardInv DEF CardInv, CardTypeOK, PinsAgree, ShutdownAll
  <1> QED
    BY <1>1, <1>2, <1>3, <1>4

LEMMA CardStep == CardInv /\ [CardNext]_cardVars => CardInv'
  <1> SUFFICES ASSUME CardInv, [CardNext]_cardVars PROVE CardInv'
    OBVIOUS
  <1>1. CASE UNCHANGED cardVars
    BY <1>1 DEF cardVars, CardInv, CardTypeOK, CardNeedsMicro, PinsAgree
  <1> QED
    BY <1>1, PointerKeepsCardInv, TimersKeepCardInv, ClicksKeepCardInv, MenuKeepsCardInv,
       TrayKeepsCardInv
    DEF CardNext

LEMMA CardInvariant == CardSpec => []CardInv
  BY CardStarts, CardStep, PTL DEF CardSpec

(* No timer, click or menu leaves the card behind when the micro window is  *)
(* hidden or the mode changes, or brings it back after shutdown             *)
(* (controller.py).                                                         *)
THEOREM CardWithMicro == CardSpec => []CardNeedsMicro
  BY CardInvariant, PTL DEF CardInv

(* The check in the tray is the topmost flag of the current primary.        *)
THEOREM TrayShowsPin == CardSpec => []PinsAgree
  BY CardInvariant, PTL DEF CardInv

(* A card the user engaged is not closed by a timer or the pointer          *)
(* (README.md:92).                                                          *)
THEOREM EngagedCardStays == CardSpec => EngagedStays
  <1>1. CardInv /\ [CardNext]_cardVars
          => [Timers \/ PointerMoves => (engaged /\ ui.card => ui'.card)]_cardVars
    <2> SUFFICES ASSUME CardInv, Timers \/ PointerMoves, engaged PROVE ui'.card
      BY DEF CardInv
    <2>1. ui.persistent /\ ui.card
      BY DEF CardInv
    <2>2. CASE HoverFires
      BY <2>1, <2>2, CardTypes, TimersKeepCard DEF HoverFires, Becomes
    <2>3. CASE CollapseFires
      <3>1. Becomes([ui EXCEPT !.collapse = FALSE], shown)
        BY <2>1, <2>3, CollapseMakes
      <3> QED
        BY <2>1, <3>1, CardTypes, TimerIsCleared DEF Becomes
    <2>4. CASE PointerMoves
      <3>1. Leaves(pointer, ui) \in CardStates /\ Leaves(pointer, ui).card
        BY <2>1, CardTypes, HandlersKeepCard
      <3>2. \A place : Enters(place, Leaves(pointer, ui)).card
        BY <3>1, CardTypes, HandlersKeepCard
      <3> QED
        BY <2>1, <2>4, <3>2 DEF PointerMoves
    <2> QED
      BY <2>2, <2>3, <2>4 DEF Timers
  <1> QED
    BY <1>1, CardInvariant, PTL DEF CardSpec, EngagedStays

-----------------------------------------------------------------------------
(* KeyButton                                                                *)
LEMMA ButtonInvariant == ButtonSpec => []ButtonInv
  <1>1. ButtonInit => ButtonInv
    BY DEF ButtonInit, ButtonInv, ButtonTypeOK
  <1>2. ButtonInv /\ [ButtonNext]_buttonVars => ButtonInv'
    BY DEF ButtonInv, ButtonTypeOK, ButtonNext, buttonVars, Bind, MayBind, Press, Return, Capture,
           Leave, Click, Abort, Released
  <1> QED
    BY <1>1, <1>2, PTL DEF ButtonSpec

(* A click activates what the button named when it went down and still      *)
(* names, whatever was rebound and refreshed in between.                    *)
THEOREM ClickIsOfShown == ButtonSpec => ClickFollowsShown
  <1>1. ButtonInv /\ [ButtonNext]_buttonVars
          => [Click /\ key # None => activated' = atDown /\ activated' = key]_buttonVars
    BY DEF ButtonInv, Click
  <1> QED
    BY <1>1, ButtonInvariant, PTL DEF ButtonSpec, ClickFollowsShown
=============================================================================
