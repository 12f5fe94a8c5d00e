--------------------------- MODULE LicensePromise ---------------------------
(***************************************************************************)
(* What a self-hosted instance promises about its license, seen as one     *)
(* record: the license becomes valid only because someone granted it, and  *)
(* stops being valid only because someone refused it or because the grace  *)
(* period since the last grant ran out.  Restarts, outages and failed      *)
(* cycles are invisible: they are stuttering steps.                        *)
(***************************************************************************)
EXTENDS Naturals

CONSTANTS Grace, Never

VARIABLES
  day,     \* the current day
  valid,   \* the license is valid
  since,   \* the day of the last grant, or Never
  said     \* the last definite answer: none, granted or refused

promiseVars == <<day, valid, since, said>>

Init ==
  /\ day = 0
  /\ valid = FALSE
  /\ since = Never
  /\ said = "none"

Grant ==
  /\ valid' = TRUE
  /\ since' = day
  /\ said' = "granted"
  /\ UNCHANGED day

Refuse ==
  /\ valid' = FALSE
  /\ said' = "refused"
  /\ UNCHANGED <<day, since>>

Lapse ==
  /\ valid
  /\ day > since + Grace
  /\ valid' = FALSE
  /\ UNCHANGED <<day, since, said>>

Tick ==
  /\ day' = day + 1
  /\ UNCHANGED <<valid, since, said>>

Next == Grant \/ Refuse \/ Lapse \/ Tick

Spec == Init /\ [][Next]_promiseVars
=============================================================================
