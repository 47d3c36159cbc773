------------------------------ MODULE AddressPicker ------------------------------
(***************************************************************************)
(* The page GET /geo/map: a customer types an address and clicks, the map  *)
(* service is asked, and its answer changes the map, the marker, the       *)
(* notice and the message, and is posted to the app the page runs in.      *)
(* Nothing stops a second click before the answer to the first: answers    *)
(* arrive in any order, or not at all.                                     *)
(*                                                                         *)
(* A sight stands for an exact address with the point it is at; every      *)
(* answer that is not exact, or empty, is Vague.  The map service's Map,   *)
(* once destroyed, is of no use.                                           *)
(***************************************************************************)
EXTENDS Naturals

CONSTANTS Sights,    \* exact answers
          Vague,     \* an inexact or empty answer
          NoSight,
          Clicks     \* slots for questions not yet answered

ASSUME PickerAssumption == Vague \notin Sights /\ NoSight \notin Sights \cup {Vague}

VARIABLES clicked,   \* clicks waiting for the map service
          map,       \* the Map the page's variable holds, or none
          placemark, \* what the marker shows
          notice,    \* the notice that the address is not found is displayed
          message,   \* the text under the map: an address, a hint or nothing
          posted     \* what was last posted to the app

pickerVars == <<clicked, map, placemark, notice, message, posted>>

PickerTypeOK ==
    /\ clicked \subseteq Clicks
    /\ map \in {"none", "alive", "destroyed"}
    /\ placemark \in Sights \cup {NoSight}
    /\ notice \in BOOLEAN
    /\ message \in Sights \cup {Vague, NoSight}
    /\ posted \in Sights \cup {NoSight}

\* init() of the page.
PickerInit ==
    /\ clicked = {}
    /\ map = "none"
    /\ placemark = NoSight
    /\ notice = FALSE
    /\ message = NoSight
    /\ posted = NoSight

\* geocode(), up to the call of the map service.
Click(k) ==
    /\ k \notin clicked
    /\ clicked' = clicked \cup {k}
    /\ UNCHANGED <<map, placemark, notice, message, posted>>

\* createMap: the marker is made with a new map and moved with an old one.
createMap(s) ==
    /\ map' = IF map = "none" THEN "alive" ELSE map
    /\ placemark' = s

\* showResult; the app, when there is one, is told the address.
showResult(s, inApp) ==
    /\ posted' = IF inApp THEN s ELSE posted
    /\ notice' = FALSE
    /\ createMap(s)
    /\ message' = s

\* Mutant: the variable keeps the map that was destroyed.
showErrorKeepsMap ==
    /\ notice' = TRUE
    /\ map' = IF map = "none" THEN map ELSE "destroyed"
    /\ message' = Vague
    /\ UNCHANGED <<placemark, posted>>

\* showError, then showMessage with a hint: the map is destroyed and forgotten.
showError ==
    /\ notice' = TRUE
    /\ map' = "none"
    /\ message' = Vague
    /\ UNCHANGED <<placemark, posted>>

\* The map service answers a click: the last branch is a failure, only logged.
Answer(k, a, inApp) ==
    /\ k \in clicked
    /\ clicked' = clicked \ {k}
    /\ IF a = Vague THEN showError ELSE showResult(a, inApp)

AnswerFails(k) ==
    /\ k \in clicked
    /\ clicked' = clicked \ {k}
    /\ UNCHANGED <<map, placemark, notice, message, posted>>

PickerNext ==
    \E k \in Clicks :
        \/ Click(k)
        \/ \E a \in Sights \cup {Vague}, inApp \in BOOLEAN : Answer(k, a, inApp)
        \/ AnswerFails(k)

PickerSpec == PickerInit /\ [][PickerNext]_pickerVars

\* Whatever the order of the answers, the page is of one of them: a map that
\* works, its marker and the text are of one address and no notice is shown, or
\* there is no map, and the notice and a hint are shown.
PageShowsOneAnswer ==
    \/ map = "none" /\ message = NoSight /\ ~notice
    \/ map = "none" /\ message = Vague /\ notice
    \/ map = "alive" /\ message = placemark /\ placemark \in Sights /\ ~notice
=============================================================================
