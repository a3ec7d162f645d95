---------------------------- MODULE RequestWindow ----------------------------
(***************************************************************************)
(* What the benchmark client of src/dubbo_client.c promises to the user    *)
(* who starts it with -c<CONCURRENCY> and -n<REQUESTS>: at most N requests *)
(* are under way at any time, each request it counts as done was under     *)
(* way, and the run is over exactly when R requests have been counted.     *)
(* Losing the connection loses what was under way and counts nothing.      *)
(***************************************************************************)
EXTENDS Naturals

CONSTANTS N, R

VARIABLES
    under,      \* requests under way
    left,       \* requests still to be counted
    over        \* the run is over

wvars == <<under, left, over>>

WInit == under = 0 /\ left = R /\ over = FALSE

Issue ==
    /\ ~over /\ left > 0
    /\ under < N
    /\ under' = under + 1
    /\ UNCHANGED <<left, over>>

Count ==
    /\ ~over /\ left > 0
    /\ under > 0
    /\ under' = under - 1
    /\ left' = left - 1
    /\ UNCHANGED over

Lose ==
    /\ ~over
    /\ under' = 0
    /\ UNCHANGED <<left, over>>

Finish ==
    /\ ~over /\ left = 0
    /\ under' = 0
    /\ over' = TRUE
    /\ UNCHANGED left

WNext == Issue \/ Count \/ Lose \/ Finish

WSpec == WInit /\ [][WNext]_wvars

=============================================================================
