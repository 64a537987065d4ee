------------------------------ MODULE KeyButton ------------------------------
(***************************************************************************)
(* KeyButton, the follow button and the Top 3 rows of the card: refreshes  *)
(* bind another application to the button while the user presses it.  Qt   *)
(* emits pressed and released each time the pointer enters and leaves the  *)
(* button with the mouse held, and clicked after a release inside it.      *)
(***************************************************************************)
EXTENDS PythonNone

CONSTANT Keys  (* application keys; None is an empty or absent one            *)

ASSUME NoneAssumption == None \notin Keys

VARIABLES key,         (* key, with its text                                  *)
          pressedKey,  (* _pressed_key                                        *)
          releasedKey, (* _released_key                                       *)
          mouse,       (* up, or held with the pointer in or out              *)
          atDown,      (* ghost: what it named when it last went down         *)
          activated    (* the key last emitted by key_activated               *)

buttonVars == <<key, pressedKey, releasedKey, mouse, atDown, activated>>

ButtonInit ==
    /\ key \in Keys \cup {None} /\ pressedKey = None /\ releasedKey = None
    /\ mouse = "up" /\ atDown = None /\ activated = None

(* Faulty: rebinds a button that is held down.                              *)
AlwaysFaulty == TRUE

(* Not isDown(): then bind changes nothing.                                 *)
MayBind == mouse # "in"

Bind(k) ==
    /\ MayBind /\ key' = k
    /\ UNCHANGED <<pressedKey, releasedKey, mouse, atDown, activated>>

(* pressed: _capture.                                                       *)
Capture == pressedKey' = key /\ releasedKey' = None /\ atDown' = key /\ mouse' = "in"

Press ==
    /\ mouse = "up" /\ Capture
    /\ UNCHANGED <<key, activated>>

Return == mouse = "out" /\ Capture /\ UNCHANGED <<key, activated>>

(* _release                                                                 *)
Released == None

Leave ==
    /\ mouse = "in" /\ mouse' = "out"
    /\ releasedKey' = pressedKey /\ pressedKey' = Released
    /\ UNCHANGED <<key, atDown, activated>>

(* released and clicked, one after the other: _activate takes the key of    *)
(* the release, or the current one, and emits it if there is one.           *)
Click ==
    LET k == IF pressedKey # None THEN pressedKey ELSE key IN
    /\ mouse = "in" /\ mouse' = "up"
    /\ activated' = IF k # None THEN k ELSE activated
    /\ releasedKey' = None /\ pressedKey' = Released
    /\ UNCHANGED <<key, atDown>>

(* The button is released outside.                                          *)
Abort ==
    /\ mouse = "out" /\ mouse' = "up"
    /\ UNCHANGED <<key, pressedKey, releasedKey, atDown, activated>>

ButtonNext ==
    \/ \E k \in Keys \cup {None} : Bind(k)
    \/ Press \/ Return \/ Leave \/ Click \/ Abort

ButtonSpec == ButtonInit /\ [][ButtonNext]_buttonVars
-----------------------------------------------------------------------------
ButtonTypeOK ==
    /\ {key, pressedKey, releasedKey, atDown, activated} \subseteq Keys \cup {None}
    /\ mouse \in {"up", "in", "out"}
    /\ pressedKey # None => mouse = "in"

(* A click activates what the button named when it went down and still      *)
(* names, whatever was sorted and refreshed in between.                     *)
ClickFollowsShown ==
    [][Click /\ key # None => activated' = atDown /\ activated' = key]_buttonVars
-----------------------------------------------------------------------------
(* Why it holds: while the button is down nothing rebinds it, so the key it *)
(* has, the one captured and the one the user saw are the same.             *)
ButtonInv == ButtonTypeOK /\ (mouse = "in" => pressedKey = key /\ atDown = key)
=============================================================================
