----------------------------- MODULE MCEventLoop -----------------------------
(* Bounds of the TLC run of EventLoop.                                     *)
EXTENDS EventLoop

\* Either many calls on descriptors, or three timers, or clock steps, or some of each.
MCBudgets == {[file |-> 3, timer |-> 0, skew |-> 0, until |-> 3],
              [file |-> 0, timer |-> 3, skew |-> 0, until |-> 6],
              [file |-> 0, timer |-> 2, skew |-> 1, until |-> 6],
              [file |-> 1, timer |-> 1, skew |-> 0, until |-> 4]}

=============================================================================
