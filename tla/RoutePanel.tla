----------------------------- MODULE RoutePanel -----------------------------
(***************************************************************************)
(* The dispatcher's panel for a new route (useCreateRoute.ts,              *)
(* RouteCreatePanel.tsx) and what the server makes of its two requests.    *)
(* The preview and the save are asynchronous: the panel can be closed and  *)
(* opened again under them, and while a preview loads the pickers of pool, *)
(* base and crew are locked but the mode and the list of stops are not.    *)
(***************************************************************************)
EXTENDS Naturals, FiniteSets

CONSTANTS PanelPool, PanelBase, PanelStop,
          PoolBase,    \* the base attached to a pool, NoChoice without one
          NoChoice     \* "", the empty entry of a picker

ASSUME PanelAssumption == /\ NoChoice \notin PanelPool \union PanelBase
                          /\ PoolBase \in [PanelPool -> PanelBase \union {NoChoice}]

VARIABLES panel,           \* the form
          loadingOptions,  \* the pickers' lists are being loaded
          preview,         \* what the preview on screen shows
          asked,           \* the preview request under way
          saving,          \* the save request under way
          made             \* the run the server made last

panelVars == <<panel, loadingOptions, preview, asked, saving, made>>

Mode == {"pool", "adhoc"}
Plan == [pool : PanelPool, from : {"pool", "list"}]
Selection == [pool : PanelPool \union {NoChoice}, adhoc : BOOLEAN, stops : SUBSET PanelStop]
Blank == [open |-> FALSE, pool |-> NoChoice, base |-> NoChoice, ul |-> FALSE,
          mode |-> "pool", stops |-> {}]

PanelTypeOK ==
    /\ panel \in [open : BOOLEAN, pool : PanelPool \union {NoChoice},
                  base : PanelBase \union {NoChoice}, ul : BOOLEAN,
                  mode : Mode, stops : SUBSET PanelStop]
    /\ loadingOptions \in BOOLEAN
    /\ preview \in Plan \union {NoChoice}
    /\ asked \in Selection \union {NoChoice}
    /\ saving = NoChoice \/ (saving.request \in Selection /\ saving.shown \in Plan)
    /\ made = NoChoice \/ (made.request \in Selection /\ made.from \in {"pool", "list"}
                           /\ made.shown \in Plan)

PanelInit == /\ panel = Blank
             /\ loadingOptions = FALSE
             /\ preview = NoChoice
             /\ asked = NoChoice
             /\ saving = NoChoice
             /\ made = NoChoice

-----------------------------------------------------------------------------
(* The effect on [isOpen, getAccessToken]: opening the panel, or a change  *)
(* of account while it is open, resets the form and loads the options (one *)
(* load at a time); it does not take back the requests under way.          *)
OpenPanel == /\ ~loadingOptions
             /\ panel' = [Blank EXCEPT !.open = TRUE]
             /\ loadingOptions' = TRUE
             /\ preview' = NoChoice
             /\ UNCHANGED <<asked, saving, made>>

ClosePanel == /\ panel.open
              /\ panel' = [panel EXCEPT !.open = FALSE]
              /\ UNCHANGED <<loadingOptions, preview, asked, saving, made>>

(* A single base is chosen at once; when the load fails, nothing is.       *)
OptionsArrive ==
    /\ loadingOptions
    /\ loadingOptions' = FALSE
    /\ \/ UNCHANGED panel
       \/ \E b \in PanelBase : /\ PanelBase = {b}
                               /\ panel' = [panel EXCEPT !.base = b]
    /\ UNCHANGED <<preview, asked, saving, made>>

FormLocked == loadingOptions \/ asked # NoChoice \/ saving # NoChoice

(* A pool with a base of its own brings it along.                          *)
SetPool(p) ==
    /\ panel.open /\ ~FormLocked
    /\ panel' = [panel EXCEPT !.pool = p,
                   !.base = IF p # NoChoice /\ PoolBase[p] # NoChoice
                            THEN PoolBase[p] ELSE @]
    /\ preview' = NoChoice
    /\ UNCHANGED <<loadingOptions, asked, saving, made>>

(* Another base or crew member leaves the preview as it is.                *)
SetBaseOrUl ==
    /\ panel.open /\ ~FormLocked
    /\ \/ \E b \in PanelBase \union {NoChoice} : panel' = [panel EXCEPT !.base = b]
       \/ \E u \in BOOLEAN : panel' = [panel EXCEPT !.ul = u]
    /\ UNCHANGED <<loadingOptions, preview, asked, saving, made>>

SwitchMode(m) ==
    /\ panel.open
    /\ panel' = [panel EXCEPT !.mode = m]
    /\ preview' = NoChoice
    /\ UNCHANGED <<loadingOptions, asked, saving, made>>

(* addStop, removeStop: among the results of a search, or the picked ones. *)
ChangeStops(s) ==
    /\ panel.open /\ panel.mode = "adhoc"
    /\ panel' = [panel EXCEPT !.stops = IF s \in @ THEN @ \ {s} ELSE @ \union {s}]
    /\ preview' = NoChoice
    /\ UNCHANGED <<loadingOptions, asked, saving, made>>

-----------------------------------------------------------------------------
(* What a request says: the stops and the flag only in the ad hoc mode.    *)
Request == [pool |-> panel.pool, adhoc |-> panel.mode = "adhoc",
            stops |-> IF panel.mode = "adhoc" THEN panel.stops ELSE {}]

Enough(stops) == Cardinality(stops) >= 2

CanPreview == /\ NoChoice \notin {panel.pool, panel.base}
              /\ panel.ul /\ ~loadingOptions
              /\ panel.mode = "pool" \/ Enough(panel.stops)

GeneratePreview ==
    /\ panel.open /\ CanPreview /\ asked = NoChoice
    /\ asked' = Request
    /\ preview' = NoChoice
    /\ UNCHANGED <<panel, loadingOptions, saving, made>>

(* Both handlers: two stops or more are taken as the list to plan, else    *)
(* the pool chooses.                                                       *)
Source(request) == IF Enough(request.stops) THEN "list" ELSE "pool"

(* POST /route-runs/preview, and its answer; on an error none is shown.    *)
PreviewArrives ==
    /\ asked # NoChoice
    /\ asked' = NoChoice
    /\ \/ preview' = [pool |-> asked.pool, from |-> Source(asked)]
       \/ UNCHANGED preview
    /\ UNCHANGED <<panel, loadingOptions, saving, made>>

(* Save sends what the form holds at the click, whatever the preview shows.*)
SaveRoute ==
    /\ panel.open
    /\ preview # NoChoice /\ panel.base # NoChoice /\ saving = NoChoice
    /\ saving' = [request |-> Request, shown |-> preview]
    /\ UNCHANGED <<panel, loadingOptions, preview, asked, made>>

RefusesNoPool(request) == request.pool = NoChoice

(* POST /route-runs answers 400 at once.                                   *)
Refuses(request) == \/ request.pool = NoChoice
                    \/ request.adhoc /\ ~Enough(request.stops)

(* An error is shown and the panel stays: the request was refused, failed, *)
(* or was served and its answer lost.                                      *)
SaveFails == /\ saving # NoChoice
             /\ saving' = NoChoice
             /\ UNCHANGED <<panel, loadingOptions, preview, asked, made>>

ServeSave(shut) ==
    /\ saving # NoChoice /\ ~Refuses(saving.request)
    /\ made' = [request |-> saving.request, from |-> Source(saving.request),
                shown |-> saving.shown]
    /\ saving' = NoChoice
    /\ panel' = IF shut THEN [panel EXCEPT !.open = FALSE] ELSE panel
    /\ UNCHANGED <<loadingOptions, preview, asked>>

(* The run is made; the answer closes the panel, also one that was opened  *)
(* again meanwhile, unless it is lost.                                     *)
RouteSaved == ServeSave(TRUE) \/ ServeSave(FALSE)

PanelNext == \/ OpenPanel \/ ClosePanel \/ OptionsArrive \/ SetBaseOrUl
             \/ \E p \in PanelPool \union {NoChoice} : SetPool(p)
             \/ \E m \in Mode : SwitchMode(m)
             \/ \E s \in PanelStop : ChangeStops(s)
             \/ GeneratePreview \/ PreviewArrives
             \/ SaveRoute \/ SaveFails \/ RouteSaved

PanelSpec == PanelInit /\ [][PanelNext]_panelVars

-----------------------------------------------------------------------------
(* A run "must name its stops" when it is tagged ad hoc, and only then: it *)
(* never carries the pool's selection under that tag, although the list    *)
(* can shrink below two, and the mode can change, under a preview that     *)
(* then still allows a save.  And it is of the pool whose preview the      *)
(* dispatcher was looking at, also when that preview was asked for before  *)
(* the panel was closed, reset and opened again.                           *)
TaggedRunIsPicked ==
    made # NoChoice => /\ made.request.adhoc <=> made.from = "list"
                       /\ made.request.pool = made.shown.pool
=============================================================================
