----------------------------- MODULE Countdown ------------------------------
(***************************************************************************)
(* What a timer wheel promises: every timer has a number of ticks left, a  *)
(* reset gives it all of them back, and one that runs out shuts its        *)
(* connection down, if that still exists.                                  *)
(***************************************************************************)
EXTENDS Integers

CONSTANTS
  Timers,   \* pairs of a connection and a number
  Conns,
  Timeout   \* in ticks

VARIABLES left, alive, shut

vars == <<left, alive, shut>>

Init ==
  /\ left = [t \in Timers |-> 0]   \* not running
  /\ alive = {} /\ shut = {}

Reset(t) ==
  /\ left' = [left EXCEPT ![t] = Timeout]
  /\ alive' \in {alive, alive \cup {t[1]}}
  /\ UNCHANGED shut

Tick ==
  /\ left' = [t \in Timers |-> IF left[t] > 0 THEN left[t] - 1 ELSE 0]
  /\ shut' = shut \cup {c \in alive : \E t \in Timers : t[1] = c /\ left[t] = 1}
  /\ UNCHANGED alive

Free(c) == alive' = alive \ {c} /\ UNCHANGED <<left, shut>>

Next == (\E t \in Timers : Reset(t)) \/ Tick \/ (\E c \in Conns : Free(c))

Spec == Init /\ [][Next]_vars

=============================================================================
