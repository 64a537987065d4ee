------------------------------ MODULE MicroCard ------------------------------
(***************************************************************************)
(* The micro window, its card and their menus: what UiController and the   *)
(* widgets do with the pointer, the two single-shot timers, drags, popups, *)
(* modes and the topmost flag.  One action is one event of the GUI thread  *)
(* with every handler it reaches; a popup runs its own event loop.  Qt     *)
(* tells a window that the pointer entered or left it, never where else it *)
(* moves, and tells nothing while a popup is open.                         *)
(***************************************************************************)
EXTENDS Naturals

CONSTANTS Places,  (* where the pointer may be: micro, card, away, and edge,  *)
                   (* the 8 pixels around a window                            *)
          HasTray  (* is a system tray available?                             *)

ASSUME PlacesAssumption ==
    {"micro", "card", "away"} \subseteq Places /\ Places \subseteq {"micro", "card", "away", "edge"}

VARIABLES mode,    (* mode: micro or compact                                  *)
          shown,   (* is the micro window visible?                            *)
          ui,      (* card and persistent, and which timers run               *)
          popup,   (* none, main for _main_menu_open, chooser for _menu_open  *)
          pointer, (* where the mouse is                                      *)
          press,   (* the left button on the micro window: up, down, drag     *)
          pins,    (* topmost flag of each primary, and the check of the tray *)
          shut,    (* _shutdown_complete                                      *)
          engaged  (* ghost: the user clicked to open or use this card        *)

cardVars == <<mode, shown, ui, popup, pointer, press, pins, shut, engaged>>

Quiet == [card |-> FALSE, persistent |-> FALSE, hover |-> FALSE, collapse |-> FALSE]

CardInit ==
    /\ mode \in {"micro", "compact"} /\ shown = (mode = "micro")
    /\ ui = Quiet /\ popup = "none" /\ pointer = "away" /\ press = "up"
    /\ \E top \in BOOLEAN :
           pins = [micro |-> top, compact |-> FALSE, tray |-> mode = "micro" /\ top]
    /\ shut = FALSE /\ engaged = FALSE
-----------------------------------------------------------------------------
(* Handlers, as what they make of the card and its timers                   *)

(* Faulty: the end of a hover does not start the collapse.                  *)
HoverOnlyFaulty(u) == [u EXCEPT !.hover = FALSE, !.collapse = @ \/ (~u.persistent /\ ~u.card)]

LeaveRegion(u) == [u EXCEPT !.hover = FALSE, !.collapse = @ \/ ~u.persistent]

EnterMicro(u) ==
    [u EXCEPT !.collapse = FALSE, !.hover = @ \/ (~u.card /\ popup # "main")]

EnterCard(u) == [u EXCEPT !.collapse = FALSE]

(* Faulty: stops the timer and forgets why.                                 *)
StopOnlyFaulty(u) == [u EXCEPT !.collapse = FALSE]

KeepCard(u) == [u EXCEPT !.persistent = TRUE, !.collapse = FALSE]

CardShown(u, interactive) ==
    [card |-> TRUE, persistent |-> u.persistent \/ interactive,
     hover |-> FALSE, collapse |-> FALSE]

(* Where the pointer is when the windows are these.                         *)
Under(place, u, visible) ==
    IF (place = "micro" /\ visible) \/ (place = "card" /\ u.card) THEN place ELSE "away"

(* Every handler sets the card through here.                                *)
Becomes(u, visible) ==
    /\ ui' = u /\ shown' = visible
    /\ pointer' = IF u.card = ui.card /\ visible = shown THEN pointer
                  ELSE Under(pointer, u, visible)
    /\ engaged' = (engaged /\ u.card)
-----------------------------------------------------------------------------
Leaves(place, u) == IF place \in {"micro", "card"} THEN LeaveRegion(u) ELSE u

Enters(place, u) ==
    CASE place = "micro" -> EnterMicro(u)
      [] place = "card" -> EnterCard(u)
      [] OTHER -> u

PointerMoves ==
    \E place \in Places \ {pointer} :
        /\ press = "up" /\ ~shut
        /\ place = "micro" => shown
        /\ place = "card" => ui.card
        /\ place = "edge" => shown \/ ui.card
        /\ ui' = IF popup = "none" THEN Enters(place, Leaves(pointer, ui)) ELSE ui
        /\ pointer' = place
        /\ UNCHANGED <<mode, shown, popup, press, pins, shut, engaged>>

(* _hover_preview                                                           *)
HoverFires ==
    /\ ui.hover
    /\ IF shown /\ pointer = "micro" /\ mode = "micro"
       THEN Becomes(CardShown(ui, FALSE), shown)
       ELSE Becomes([ui EXCEPT !.hover = FALSE], shown)
    /\ UNCHANGED <<mode, popup, press, pins, shut>>

(* _collapse_if_outside counts the 8 pixels around a window as inside.      *)
MayCollapse == ~ui.persistent /\ popup = "none" /\ pointer = "away"

CollapseFires ==
    /\ ui.collapse
    /\ Becomes(IF MayCollapse THEN Quiet ELSE [ui EXCEPT !.collapse = FALSE], shown)
    /\ UNCHANGED <<mode, popup, press, pins, shut>>

MousePress ==
    /\ pointer = "micro" /\ press = "up" /\ popup = "none"
    /\ press' = "down"
    /\ UNCHANGED <<mode, shown, ui, popup, pointer, pins, shut, engaged>>

MouseDrag ==
    /\ press = "down" /\ press' = "drag"
    /\ Becomes(Quiet, shown)
    /\ UNCHANGED <<mode, popup, pins, shut>>

(* A click shows the card for good; the end of a drag, or a release outside *)
(* the window, does not.                                                    *)
MouseRelease ==
    /\ press # "up" /\ press' = "up"
    /\ \/ /\ press = "down" /\ mode = "micro"
          /\ ui' = CardShown(ui, TRUE) /\ engaged' = TRUE
          /\ UNCHANGED <<shown, pointer>>
       \/ UNCHANGED <<shown, ui, pointer, engaged>>
    /\ UNCHANGED <<mode, popup, pins, shut>>

(* eventFilter of the card                                                  *)
CardPress ==
    /\ pointer = "card" /\ popup = "none"
    /\ ui' = KeepCard(ui) /\ engaged' = TRUE
    /\ UNCHANGED <<mode, shown, popup, pointer, press, pins, shut>>

(* Escape in the card, or a close of its window.                            *)
CardCloses ==
    /\ ui.card /\ popup = "none"
    /\ Becomes(Quiet, shown)
    /\ UNCHANGED <<mode, popup, press, pins, shut>>

ShowChooser ==
    /\ pointer = "card" /\ popup = "none"
    /\ popup' = "chooser" /\ ui' = KeepCard(ui) /\ engaged' = TRUE
    /\ UNCHANGED <<mode, shown, pointer, press, pins, shut>>

(* Escape, a click outside, or a choice, which is followed.                 *)
ChooserCloses ==
    /\ popup = "chooser" /\ popup' = "none"
    /\ ui' = KeepCard(ui) \/ UNCHANGED ui
    /\ UNCHANGED <<mode, shown, pointer, press, pins, shut, engaged>>
-----------------------------------------------------------------------------
(* show_menu: the loop of QMenu.exec, one choice or none, and its finally   *)

ShowMenu ==
    /\ popup = "none" /\ press = "up" /\ ~shut
    /\ \/ pointer = "micro" /\ Becomes([ui EXCEPT !.hover = FALSE, !.collapse = FALSE], shown)
       \/ /\ pointer = "card" /\ engaged' = TRUE
          /\ ui' = [KeepCard(ui) EXCEPT !.hover = FALSE]
          /\ UNCHANGED <<shown, pointer>>
       \/ mode = "compact" /\ Becomes([ui EXCEPT !.hover = FALSE, !.collapse = FALSE], shown)
    /\ popup' = "main"
    /\ UNCHANGED <<mode, press, pins, shut>>

(* set_mode: the tray shows the flag of the primary that is shown now.      *)
PinsIn(m) == [pins EXCEPT !.tray = pins[m]]

(* set_always_on_top, from the menu, the tray or the button of Compact.     *)
Pinned(on) == [pins EXCEPT ![mode] = on, !.tray = on]

(* Faulty: hides the micro window and leaves its card.                      *)
KeepsCardFaulty(u) == u

Dismissed(u) == Quiet

MenuReturns(u, visible) ==
    /\ popup = "main" /\ popup' = "none"
    /\ Becomes(LeaveRegion(u), visible)
    /\ UNCHANGED <<press, shut>>

MenuDismissed == MenuReturns(ui, shown) /\ UNCHANGED <<mode, pins>>

MenuPin ==
    /\ \E on \in BOOLEAN : pins' = Pinned(on)
    /\ MenuReturns(ui, shown) /\ UNCHANGED mode

MenuMode ==
    \E m \in {"micro", "compact"} :
        /\ MenuReturns(Quiet, m = "micro")
        /\ mode' = m /\ pins' = PinsIn(m)

MenuHide ==
    /\ HasTray /\ MenuReturns(Dismissed(ui), FALSE)
    /\ UNCHANGED <<mode, pins>>

TrayPin ==
    /\ popup = "none" /\ ~shut /\ (HasTray \/ mode = "compact")
    /\ \E on \in BOOLEAN : pins' = Pinned(on)
    /\ UNCHANGED <<mode, shown, ui, popup, pointer, press, shut, engaged>>

(* show_primary                                                             *)
TrayShow ==
    /\ HasTray /\ popup = "none" /\ ~shut
    /\ shown' = (mode = "micro")
    /\ UNCHANGED <<mode, ui, popup, pointer, press, pins, shut, engaged>>

(* _close_primary of the micro window, with a tray to come back from.       *)
ClosePrimary ==
    /\ HasTray /\ mode = "micro" /\ shown /\ popup = "none" /\ press = "up"
    /\ Becomes(Dismissed(ui), FALSE)
    /\ UNCHANGED <<mode, popup, press, pins, shut>>

(* shutdown: by a choice of the menu, the tray, or a close without a tray.  *)
(* Hiding the card closes its chooser.                                      *)
ShutdownAll ==
    /\ ~shut /\ shut' = TRUE
    /\ Becomes([ui EXCEPT !.card = FALSE, !.hover = FALSE, !.collapse = FALSE], FALSE)
    /\ popup' = "none" /\ press' = "up"
    /\ UNCHANGED <<mode, pins>>

Timers == HoverFires \/ CollapseFires

CardEvents == CardPress \/ CardCloses \/ ShowChooser \/ ChooserCloses

Menu == ShowMenu \/ MenuDismissed \/ MenuPin \/ MenuMode \/ MenuHide

CardNext ==
    \/ PointerMoves \/ Timers \/ MousePress \/ MouseDrag \/ MouseRelease
    \/ CardEvents \/ Menu \/ TrayPin \/ TrayShow \/ ClosePrimary \/ ShutdownAll

CardSpec == CardInit /\ [][CardNext]_cardVars

(* Qt fires a timer that runs.                                              *)
CardFairSpec == CardSpec /\ WF_cardVars(HoverFires) /\ WF_cardVars(CollapseFires)
-----------------------------------------------------------------------------
CardTypeOK ==
    /\ mode \in {"micro", "compact"} /\ shown \in BOOLEAN /\ shut \in BOOLEAN
    /\ ui \in [card : BOOLEAN, persistent : BOOLEAN, hover : BOOLEAN, collapse : BOOLEAN]
    /\ popup \in {"none", "main", "chooser"} /\ pointer \in Places
    /\ press \in {"up", "down", "drag"} /\ engaged \in BOOLEAN
    /\ pins \in [micro : BOOLEAN, compact : BOOLEAN, tray : BOOLEAN]
    /\ popup = "chooser" => ui.card /\ ui.persistent

(* The card belongs to the visible micro window: no timer, click or menu    *)
(* leaves it behind, or brings it back, when the window is hidden, the mode *)
(* changes or the program shuts down.                                       *)
CardNeedsMicro == ui.card => shown /\ mode = "micro" /\ ~shut

(* The check in the tray is the topmost flag of the primary of the mode,    *)
(* wherever the flag was changed and however modes were switched.           *)
PinsAgree == pins.tray = pins[mode]

(* README.md:92.  Once the user opened the card by a click or touched it,   *)
(* no timer and no movement of the pointer closes it.                       *)
EngagedStays ==
    [][Timers \/ PointerMoves => (engaged /\ ui.card => ui'.card)]_cardVars

(* README.md:92.  A preview closes after the pointer left the region of the *)
(* two windows, unless it comes back, a menu opens or the user engages.     *)
PreviewLeft == ui.card /\ ~engaged /\ pointer = "away" /\ popup = "none"

PreviewEnds == PreviewLeft ~> ~PreviewLeft
-----------------------------------------------------------------------------
(* Why they hold: an engaged card is persistent until it closes, and a      *)
(* popup or a pressed button, whose events may still show the card or a     *)
(* window, exists only on visible windows that were not shut down.          *)
CardInv ==
    /\ CardTypeOK /\ CardNeedsMicro /\ PinsAgree
    /\ engaged => ui.card /\ ui.persistent
    /\ shown => mode = "micro" /\ ~shut
    /\ pointer = "micro" => shown
    /\ pointer = "card" => ui.card
    /\ press # "up" => shown /\ popup = "none" /\ pointer # "card"
    /\ popup # "none" => ~shut
=============================================================================
