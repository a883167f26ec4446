---------------------------- MODULE PriorityGate ----------------------------
(***************************************************************************)
(* What a priority mutex promises its callers, whichever platform it runs  *)
(* on: high priority work is never held up, and low priority work is only  *)
(* let in at a moment when no high priority work is running.  Low priority *)
(* work that is already in is not thrown out when high priority work       *)
(* arrives.  PriorityMutex (iPhone) and DownloadMutex (Android) implement  *)
(* this specification.                                                     *)
(***************************************************************************)
CONSTANT Threads

VARIABLES
    high,     \* the threads doing high priority work
    low,      \* the threads doing low priority work
    queued    \* the threads held back until no high priority work runs

gateVars == <<high, low, queued>>

Outside(t) == t \notin high \cup low \cup queued

GateInit == high = {} /\ low = {} /\ queued = {}

EnterHigh(t) ==
    /\ Outside(t)
    /\ high' = high \cup {t}
    /\ UNCHANGED <<low, queued>>

LeaveHigh(t) ==
    /\ t \in high
    /\ high' = high \ {t}
    /\ UNCHANGED <<low, queued>>

HoldBack(t) ==
    /\ Outside(t)
    /\ high # {}
    /\ queued' = queued \cup {t}
    /\ UNCHANGED <<high, low>>

AdmitLow(t) ==
    /\ Outside(t) \/ t \in queued
    /\ high = {}
    /\ low' = low \cup {t}
    /\ queued' = queued \ {t}
    /\ UNCHANGED high

LeaveLow(t) ==
    /\ t \in low
    /\ low' = low \ {t}
    /\ UNCHANGED <<high, queued>>

GateNext ==
    \E t \in Threads :
        \/ EnterHigh(t)
        \/ LeaveHigh(t)
        \/ HoldBack(t)
        \/ AdmitLow(t)
        \/ LeaveLow(t)

GateSafety == GateInit /\ [][GateNext]_gateVars

(* Held back work gets in once the high priority work stays away. *)
GateSpec ==
    /\ GateSafety
    /\ \A t \in Threads : WF_gateVars(t \in queued /\ AdmitLow(t))
=============================================================================
