------------------------------- MODULE MCUiJobPage -------------------------------
(* Values for the constants of UiJobPage.                                   *)
EXTENDS UiJobPage, TLC

CONSTANTS a, b

GatedAndEnded == a :> "waitingApproval" @@ b :> "completed"
================================================================================
