------------------------------ MODULE SearchBox ------------------------------
(***************************************************************************)
(* What the search box promises its user: it only ever shows the results   *)
(* of the text that is in it at that moment (older results may stay while  *)
(* the user types on), an empty box shows none, and once the user pauses   *)
(* the results of the text appear.  SearchEngine implements it.            *)
(***************************************************************************)
CONSTANTS Values, Empty

VARIABLES
    text,    \* what is in the box, or Empty
    shown    \* the text whose results are shown, or Empty

boxVars == <<text, shown>>

BoxInit == text = Empty /\ shown = Empty

Type(v) == text' = v /\ UNCHANGED shown

Clear == text' = Empty /\ shown' = Empty

Show == text # Empty /\ shown' = text /\ UNCHANGED text

BoxNext == (\E v \in Values : Type(v)) \/ Clear \/ Show

BoxSpec == BoxInit /\ [][BoxNext]_boxVars /\ WF_boxVars(Show)
=============================================================================
