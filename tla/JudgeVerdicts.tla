--------------------------- MODULE JudgeVerdicts ---------------------------
(***************************************************************************)
(* What judging the final round promises, whatever the workers, leases and *)
(* retries do behind it: every box gets one verdict and keeps it, a team   *)
(* pays for a box only when the verdict is Down and the event is not       *)
(* paused, and once the event is over neither verdicts nor penalties move. *)
(***************************************************************************)
CONSTANTS Tasks, Verdicts, Down

VARIABLES verdict, paid,
          event   \* open, paused or over

Undecided == "open"

Init ==
    /\ verdict = [t \in Tasks |-> Undecided]
    /\ paid = {}
    /\ event = "open"

(* One or more boxes get their verdict, also during a pause. *)
Decide ==
    /\ event # "over"
    /\ verdict' \in [Tasks -> Verdicts \cup {Undecided}]
    /\ \A t \in Tasks : verdict[t] # Undecided => verdict'[t] = verdict[t]
    /\ UNCHANGED <<paid, event>>

Pay(t) ==
    /\ event = "open" /\ verdict[t] = Down
    /\ paid' = paid \cup {t}
    /\ UNCHANGED <<verdict, event>>

PauseOrResume ==
    /\ event # "over"
    /\ event' \in {"open", "paused"}
    /\ UNCHANGED <<verdict, paid>>

Close ==
    /\ event = "open"
    /\ \A t \in Tasks : verdict[t] # Undecided
    /\ event' = "over"
    /\ UNCHANGED <<verdict, paid>>

Next == Decide \/ PauseOrResume \/ Close \/ \E t \in Tasks : Pay(t)

Spec == Init /\ [][Next]_<<verdict, paid, event>>
=============================================================================
