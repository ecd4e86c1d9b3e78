------------------------------ MODULE StopForm ------------------------------
(***************************************************************************)
(* The form of one stop on the worker's device (StopDetail.tsx) with the   *)
(* state the route screen keeps for it (useTodayRoute.ts) and its draft in *)
(* IndexedDB (stopDraftStore.ts).  The screen's state survives going back  *)
(* to the list, the draft survives a reload; on opening a stop part of the *)
(* former is reset and the latter is loaded over it, some time later.  All *)
(* of it is kept per stop.  What becomes of the queued action is FieldSync.*)
(* Notes, severity and the report on the infrastructure are left out.      *)
(***************************************************************************)
CONSTANTS Task,       \* the cleaning tasks of the checklist
          NoDraft     \* also: no load, and nothing queued

VARIABLES form,       \* checklistState
          safety,     \* safetyState
          started,    \* the stop was started
          detail,     \* StopDetail, its own state
          draft,      \* the stored draft
          queued      \* the action queued for the stop, which closes it here;
                      \* a completion carries the form as it is then

formVars == <<form, safety, started, detail, draft, queued>>

Checklist == [tasks : SUBSET Task, volume : BOOLEAN, spot : BOOLEAN]
EMPTY_CHECKLIST == [tasks |-> {}, volume |-> FALSE, spot |-> FALSE]

(* hasConcern is set wherever hazards are saved, so they stand for it; the *)
(* photo a skip also needs is there wherever wantsToSkip is.               *)
SafetyState == [hazards : BOOLEAN, wantsToSkip : BOOLEAN]
NoConcern == [hazards |-> FALSE, wantsToSkip |-> FALSE]

StopDraft == [form : Checklist, safety : SafetyState]

Detail == [shown : BOOLEAN,
           dialog : {"closed", "report", "confirm"},
           local : SafetyState,     \* localSafety, the open report's copy
           afterTaken : BOOLEAN,    \* afterPhotoTaken
           files : BOOLEAN,         \* a selected file is not uploaded yet
           load : StopDraft \union {NoDraft},
           saveDue : BOOLEAN,       \* the timer of the next save runs
           banner : BOOLEAN]        \* showResumeBanner
Unmounted == [shown |-> FALSE, dialog |-> "closed", local |-> NoConcern,
              afterTaken |-> FALSE, files |-> FALSE, load |-> NoDraft,
              saveDue |-> FALSE, banner |-> FALSE]

FormTypeOK == /\ form \in Checklist
              /\ safety \in SafetyState
              /\ started \in BOOLEAN
              /\ detail \in Detail
              /\ draft \in StopDraft \union {NoDraft}
              /\ queued \in {"complete", "skip", NoDraft}

FormInit == /\ form = EMPTY_CHECKLIST
            /\ safety = NoConcern
            /\ started = FALSE
            /\ detail = Unmounted
            /\ draft = NoDraft
            /\ queued = NoDraft

-----------------------------------------------------------------------------
IsReadOnly == queued # NoDraft

(* The effect that prevents "state leakage" names neither washed_can nor   *)
(* spotCheck, and leaves safety to the screen.                             *)
ResetForm == [form EXCEPT !.tasks = @ \cap {"washed_can"}, !.volume = FALSE]

(* What the effects of a new StopDetail do: reset, ask for the draft, and  *)
(* start the timer of the first save, or clear the draft of a closed stop. *)
Mounts == /\ form' = ResetForm
          /\ detail' = [Unmounted EXCEPT !.shown = TRUE, !.load = draft,
                                         !.saveDue = ~IsReadOnly]
          /\ draft' = IF IsReadOnly THEN NoDraft ELSE draft
          /\ UNCHANGED <<safety, started, queued>>

SelectStop == ~detail.shown /\ Mounts

(* A fetch of the route hides the stop and shows it anew.                  *)
Refetch == detail.shown /\ Mounts

(* resetStopView.  Cleanup: a load that is still under way is ignored, the *)
(* timer stops.                                                            *)
Back == /\ detail.shown /\ detail.dialog = "closed"
        /\ detail' = Unmounted
        /\ UNCHANGED <<form, safety, started, draft, queued>>

(* The server refused what was queued, and its route was fetched.          *)
ServerTruth == /\ ~detail.shown /\ queued # NoDraft
               /\ queued' = NoDraft
               /\ UNCHANGED <<form, safety, started, detail, draft>>

(* The page is reloaded, or the worker signs out, which clears the drafts. *)
Reload(drafts) == /\ detail' = Unmounted
                  /\ form' = EMPTY_CHECKLIST
                  /\ safety' = NoConcern
                  /\ draft' = drafts
                  /\ UNCHANGED <<started, queued>>

RestoresOnlySet(stored) == [stored EXCEPT !.spot = @ \/ form.spot]

(* Every key of the checklist is stored, those that are undefined too, and *)
(* every key is restored.                                                  *)
Restored(stored) == stored

(* DRAFTS: Load on mount.                                                  *)
DraftArrives ==
    LET stored == detail.load
        synced == stored.safety # NoConcern
    IN  /\ detail.load # NoDraft
        /\ form' = Restored(stored.form)
        /\ safety' = IF synced THEN stored.safety ELSE safety
        /\ detail' = [detail EXCEPT !.load = NoDraft, !.banner = TRUE,
                         !.saveDue = ~IsReadOnly,
                         !.local = IF synced /\ detail.dialog # "closed"
                                   THEN stored.safety ELSE @]
        /\ UNCHANGED <<started, draft, queued>>

(* DRAFTS: Save on change, half a second after the last; it may fail.      *)
SaveDraft == /\ detail.saveDue
             /\ detail' = [detail EXCEPT !.saveDue = FALSE]
             /\ \/ draft' = [form |-> form, safety |-> safety]
                \/ UNCHANGED draft
             /\ UNCHANGED <<form, safety, started, queued>>

(* A draft of a day ago is as good as none.                                *)
DraftAges == /\ draft # NoDraft
             /\ draft' = NoDraft
             /\ UNCHANGED <<form, safety, started, detail, queued>>

(* handleDismissResumeBanner: the draft goes, what it filled in stays.     *)
DismissResume == /\ detail.banner /\ detail.dialog = "closed"
                 /\ detail' = [detail EXCEPT !.banner = FALSE]
                 /\ draft' = NoDraft
                 /\ UNCHANGED <<form, safety, started, queued>>

-----------------------------------------------------------------------------
(* handleStartStop; the view of a stop not started has no other controls.  *)
TapStart == /\ detail.shown /\ ~started /\ ~IsReadOnly
            /\ started' = TRUE
            /\ UNCHANGED <<form, safety, detail, draft, queued>>

Editable == detail.shown /\ started /\ ~IsReadOnly /\ detail.dialog = "closed"

Enters(checklist) == /\ Editable
                     /\ form' = checklist
                     /\ detail' = [detail EXCEPT !.saveDue = TRUE]
                     /\ UNCHANGED <<safety, started, draft, queued>>

(* A spot check clears the tasks and disables them.                        *)
ToggleSpotCheck == Enters(IF form.spot THEN [form EXCEPT !.spot = FALSE]
                          ELSE [EMPTY_CHECKLIST EXCEPT !.spot = TRUE])

ToggleTask(t) ==
    /\ ~form.spot
    /\ Enters([form EXCEPT !.tasks = IF t \in @ THEN @ \ {t} ELSE @ \union {t}])

SetVolume == ~form.spot /\ Enters([form EXCEPT !.volume = TRUE])

WorkEntered(f) == (f.tasks # {} /\ f.volume) \/ f.spot

Photographs(changed) == /\ Editable
                        /\ detail' = changed
                        /\ UNCHANGED <<form, safety, started, draft, queued>>

(* A photo of the conditions at any time, the after photo for the finish;  *)
(* both wait for "Upload Now", which can fail, or are discarded.           *)
PickPhoto == Photographs([detail EXCEPT !.files = TRUE])
TakeAfterPhoto == /\ WorkEntered(form)
                  /\ Photographs([detail EXCEPT !.files = TRUE, !.afterTaken = TRUE])
PhotosLeave == detail.files /\ Photographs([detail EXCEPT !.files = FALSE])

-----------------------------------------------------------------------------
Report(dialog, local) ==
    /\ detail' = [detail EXCEPT !.dialog = dialog, !.local = local]
    /\ UNCHANGED <<form, safety, started, draft, queued>>

OpenReport == Editable /\ Report("report", safety)
CloseReport == detail.dialog = "report" /\ Report("closed", NoConcern)

EditReport == /\ detail.dialog = "report"
              /\ \E some \in BOOLEAN :
                    Report("report", [detail.local EXCEPT !.hazards = some])

(* "Cancel" closes the confirmation; the report is still there under it.   *)
CancelSkip == detail.dialog = "confirm" /\ Report("report", detail.local)

SetsSafety(value, dialog, local) ==
    /\ detail.dialog = "report" /\ detail.local.hazards
    /\ safety' = value
    /\ detail' = [detail EXCEPT !.saveDue = TRUE, !.dialog = dialog, !.local = local]
    /\ UNCHANGED <<form, started, draft, queued>>

SaveHazards == SetsSafety(detail.local, "closed", NoConcern)

(* "Skip Stop", with hazards and a photo; the report stays under the       *)
(* question, and its effect copies what was just set.                      *)
TapSkip == LET skip == [detail.local EXCEPT !.wantsToSkip = TRUE]
           IN  SetsSafety(skip, "confirm", skip)

-----------------------------------------------------------------------------
(* The action is queued; the screen shows the stop closed, and the list.   *)
Queues(type) == /\ queued' = type
                /\ detail' = Unmounted
                /\ UNCHANGED <<form, safety, started, draft>>

(* handleSkipStop: hazards and a photo, or nothing happens.                *)
HandleSkipStop(hazards) == /\ safety.hazards /\ hazards
                           /\ Queues("skip")

ConfirmSkip == detail.dialog = "confirm" /\ HandleSkipStop(detail.local.hazards)

(* handleCompleteStop: "Check if user wants to skip".                      *)
Finish == /\ Editable
          /\ WorkEntered(form) /\ detail.afterTaken /\ ~detail.files
          /\ IF safety.hazards /\ safety.wantsToSkip
             THEN HandleSkipStop(safety.hazards)
             ELSE Queues("complete")

FormNext == \/ SelectStop \/ Refetch \/ Back \/ ServerTruth
            \/ Reload(draft) \/ Reload(NoDraft)
            \/ DraftArrives \/ SaveDraft \/ DraftAges \/ DismissResume
            \/ TapStart \/ ToggleSpotCheck \/ SetVolume
            \/ \E t \in Task : ToggleTask(t)
            \/ PickPhoto \/ TakeAfterPhoto \/ PhotosLeave
            \/ OpenReport \/ CloseReport \/ EditReport \/ CancelSkip
            \/ SaveHazards \/ TapSkip \/ ConfirmSkip \/ Finish

FormSpec == FormInit /\ [][FormNext]_formVars

-----------------------------------------------------------------------------
Consistent(f) == f.spot => f.tasks = {} /\ ~f.volume

(* "Cleaning tasks are disabled" by a spot check: no form, so none of the  *)
(* completions queued from it, and no draft claims a spot check and work   *)
(* done, although opening a stop resets only part of the form, and a draft *)
(* of another moment is laid over it while the worker already taps.        *)
SpotCheckStandsAlone ==
    /\ Consistent(form)
    /\ draft # NoDraft => Consistent(draft.form)

(* "Skip this stop? ... This cannot be undone", with a button to cancel: a *)
(* stop is queued as skipped only from that question.                      *)
SkipWasConfirmed ==
    [][queued' # queued /\ queued' = "skip" => detail.dialog = "confirm"]_formVars
=============================================================================
