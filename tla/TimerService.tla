----------------------------- MODULE TimerService -----------------------------
(***************************************************************************)
(* What a timer service promises: a timer runs at the tick it is due,      *)
(* neither before nor after, unless it is deleted first; time does not     *)
(* pass a due timer.  TimerWheel implements it.                            *)
(***************************************************************************)
EXTENDS Naturals

CONSTANTS Timers, Delays

VARIABLES now,      \* the current tick
          due       \* armed timer -> the tick it is to run at

Without(t) == [u \in DOMAIN due \ {t} |-> due[u]]
With(t, d) == [u \in DOMAIN due \cup {t} |-> IF u = t THEN now + d ELSE due[u]]

Init == now = 0 /\ due = [t \in {} |-> 0]

Arm(t, d) == /\ t \notin DOMAIN due
             /\ due' = With(t, d)
             /\ UNCHANGED now

Cancel(t) == /\ t \in DOMAIN due
             /\ due' = Without(t)
             /\ UNCHANGED now

(* The timer runs; one that repeats is armed again. *)
Fire(t) == /\ t \in DOMAIN due /\ due[t] = now
           /\ due' = Without(t) \/ \E d \in Delays : due' = With(t, d)
           /\ UNCHANGED now

Tick == /\ \A t \in DOMAIN due : due[t] > now
        /\ now' = now + 1
        /\ UNCHANGED due

Next == \/ \E t \in Timers : Cancel(t) \/ Fire(t) \/ \E d \in Delays : Arm(t, d)
        \/ Tick

Spec == Init /\ [][Next]_<<now, due>>
===============================================================================
