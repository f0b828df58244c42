----------------------------- MODULE RefreshMarker -----------------------------
(***************************************************************************)
(* The assignment refresh marker (pkg/agentstate/refresh_marker.go): the   *)
(* file that keeps a recovery episode and its retry schedule across        *)
(* restarts.  A marker is the record the file holds.                       *)
(*   kind   - "absent", "open", or "corrupt": a file its reader refuses    *)
(*   count  - the refresh attempts of the episode, up to MaxCount          *)
(*   due    - the next attempt's time has come                             *)
(*   handed - the last attempt brought an assignment                       *)
(*   ahead  - the episode started later than the clock now says            *)
(***************************************************************************)
EXTENDS Naturals

CONSTANT MaxCount

ASSUME CountAssumption == MaxCount \in Nat \ {0}

Unattempted(kind) ==
  [kind |-> kind, count |-> 0, due |-> TRUE, handed |-> FALSE, ahead |-> FALSE]

NoMarker == Unattempted("absent")
BadMarker == Unattempted("corrupt")

\* What decodeRefreshMarker accepts: no deadline and no success without an attempt.
OpenMarkers ==
  {m \in [kind: {"open"}, count: 0..MaxCount, due: BOOLEAN, handed: BOOLEAN, ahead: BOOLEAN] :
     m.count = 0 => (m.due /\ ~m.handed)}

\* loadRegistrationRefreshMarker: only what decodeRefreshMarker accepts.
Readable(m) == m.kind # "corrupt"
Present(m) == m.kind = "open"

\* Mutant: a new request starts the schedule again.
RequestedAnew(m) == Unattempted("open")

\* requestRegistrationRefresh: any file at all is an episode already open.
Requested(m) == IF m.kind = "absent" THEN Unattempted("open") ELSE m

\* markRegistrationRefreshAttempted.  The times of an attempt made before the
\* episode started are times decodeRefreshMarker refuses.
Attempted(m) ==
  IF m.kind # "open" THEN m
  ELSE IF m.ahead THEN BadMarker
  ELSE [m EXCEPT !.count = IF @ < MaxCount THEN @ + 1 ELSE @, !.due = FALSE, !.handed = FALSE]

\* markRegistrationRefreshSucceeded refuses a marker without an attempt.
CanSucceed(m) == m.kind = "absent" \/ (m.kind = "open" /\ m.count > 0)
Succeeded(m) == IF Present(m) THEN [m EXCEPT !.handed = TRUE] ELSE m

\* Time passes up to the next attempt, or the clock is set back before the start.
Later(m) == IF Present(m) THEN [m EXCEPT !.due = TRUE, !.ahead = FALSE] ELSE m
Earlier(m) == IF Present(m) THEN [m EXCEPT !.due = (m.count = 0), !.ahead = TRUE] ELSE m
================================================================================
