-------------------------------- MODULE Pulser --------------------------------
(***************************************************************************)
(* Pulser: worker threads ask for a pulse whenever they have saved         *)
(* something, and the target is sent at most one pulse per interval.  A    *)
(* request that comes too early is posted again for later; one that was    *)
(* made before the last pulse is dropped.                                  *)
(*                                                                         *)
(* Everything is handled by the main thread.  Time is counted from the     *)
(* last pulse, and so is the date of a request (negative: made before it), *)
(* so that neither grows.                                                  *)
(***************************************************************************)
EXTENDS Integers, FiniteSets

CONSTANTS
    Interval,   \* pulseInterval
    MaxDue      \* bound: the actions that time lets pile up on the main thread

ASSUME PulserAssumption == Interval \in Nat \ {0} /\ MaxDue \in Nat \ {0}

VARIABLES
    since,      \* the time since lastPulseTime, from Interval on not counted
    reposts,    \* the requests posted again; equal ones act as one
    calls,      \* tryPulse calls that workers posted to the main thread
    forces,     \* forcePulse calls that workers posted to it
    due         \* actions posted to the main thread

pulser == <<since, reposts, calls, forces, due>>

Reposts == [date : -1 .. (Interval - 1), wait : 0..Interval]

PulserTypeOK ==
    /\ since \in 0..Interval
    /\ reposts \subseteq Reposts
    /\ {calls, forces, due} \subseteq Nat

PulserInit ==
    /\ since = Interval     \* lastPulseTime is in 1970
    /\ reposts = {}
    /\ calls = 0
    /\ forces = 0
    /\ due = 0

(* Mutation of TryPulse: a request that comes too early is dropped. *)
TryPulseOnce(date, others) ==
    /\ IF date >= 0 /\ since = Interval
       THEN /\ since' = 0
            /\ reposts' = {[r EXCEPT !.date = -1] : r \in others}
            /\ due' = due + 1
       ELSE /\ reposts' = others
            /\ UNCHANGED <<since, due>>

(* tryPulse: the requests posted again are the others. *)
TryPulse(date, others) ==
    \/ /\ date < 0
       /\ reposts' = others
       /\ UNCHANGED <<since, due>>
    \/ /\ date >= 0
       /\ since < Interval
       /\ LET wait == Interval - date + 1
          IN  reposts' = others \cup
                {[date |-> date, wait |-> IF wait < Interval THEN wait ELSE Interval]}
       /\ UNCHANGED <<since, due>>
    \/ /\ date >= 0
       /\ since = Interval
       /\ since' = 0
       /\ reposts' = {[r EXCEPT !.date = -1] : r \in others}
       /\ due' = due + 1

(* A worker's tryPulse arrives: its date is now. *)
HandleCall ==
    /\ calls > 0
    /\ calls' = calls - 1
    /\ TryPulse(IF since = Interval THEN 0 ELSE since, reposts)
    /\ UNCHANGED forces

HandleRepost(r) ==
    /\ r \in reposts
    /\ r.wait = 0
    /\ TryPulse(r.date, reposts \ {r})
    /\ UNCHANGED <<calls, forces>>

(* forcePulse on the main thread; the action is performed in the same step. *)
ForcePulse ==
    /\ forces > 0
    /\ forces' = forces - 1
    /\ since' = 0
    /\ reposts' = {[r EXCEPT !.date = -1] : r \in reposts}
    /\ UNCHANGED <<calls, due>>

(* The action that a pulse has posted is performed. *)
TakeDue ==
    /\ due > 0
    /\ due' = due - 1
    /\ UNCHANGED <<since, reposts, calls, forces>>

Tick ==
    /\ due < MaxDue
    /\ since < Interval \/ \E r \in reposts : r.wait > 0
    /\ since' = IF since < Interval THEN since + 1 ELSE since
    /\ reposts' = {[r EXCEPT !.wait = IF @ = 0 THEN 0 ELSE @ - 1] : r \in reposts}
    /\ UNCHANGED <<calls, forces, due>>
=============================================================================
