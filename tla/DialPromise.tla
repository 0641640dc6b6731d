---------------------------- MODULE DialPromise ----------------------------
(***************************************************************************)
(* What calls.Service promises to the callers of Dial: a request is        *)
(* accepted or refused once, and the Done channel of an accepted request   *)
(* receives one value, whatever happens to the call.  Done may receive its *)
(* value before Dial has returned, and a refused request may have received *)
(* false as well; the alert service then reads neither.                    *)
(***************************************************************************)
CONSTANT Requests

VARIABLES
    ret,    \* what Dial returned: nothing yet, accepted, refused
    done    \* the value sent on Done, or "none"

vars == <<ret, done>>

Init ==
    /\ ret = [r \in Requests |-> "none"]
    /\ done = [r \in Requests |-> "none"]

Return(r, result) ==
    /\ ret[r] = "none"
    /\ ret' = [ret EXCEPT ![r] = result]

\* One event may settle several requests: a lost bridge or a shutdown fails
\* them all.
Settle(some) ==
    /\ \A r \in some : done[r] = "none"
    /\ \E value \in [some -> {"true", "false"}] :
         done' = [r \in Requests |-> IF r \in some THEN value[r] ELSE done[r]]

Next ==
    \/ \E r \in Requests, result \in {"accepted", "refused"} :
         Return(r, result) /\ UNCHANGED done
    \/ \E some \in (SUBSET Requests) \ {{}} : Settle(some) /\ UNCHANGED ret

\* An accepted request is settled at last.
Fairness ==
    \A r \in Requests :
        WF_vars(/\ ret[r] = "accepted"
                /\ \E some \in SUBSET Requests : r \in some /\ Settle(some)
                /\ UNCHANGED ret)

Spec == Init /\ [][Next]_vars /\ Fairness
=============================================================================
