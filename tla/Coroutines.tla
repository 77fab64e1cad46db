------------------------------ MODULE Coroutines ------------------------------
(***************************************************************************)
(* What tasks on stacks of their own promise: control goes from a caller   *)
(* into the task it runs or resumes, and comes back to that caller when    *)
(* the task yields or ends.  Utask implements it.                          *)
(***************************************************************************)
EXTENDS Integers, Sequences

CONSTANTS Tasks, Host       \* Host: the program's own stack

VARIABLES
  chain,                    \* who called whom; the last one is in control
  ready,                    \* tasks not yet run
  waiting                   \* tasks that yielded

vars == <<chain, ready, waiting>>

Init == chain = <<Host>> /\ ready = {} /\ waiting = {}

Caller == SubSeq(chain, 1, Len(chain) - 1)
Current == chain[Len(chain)]

Create(t) == /\ ready' = ready \cup {t}
             /\ UNCHANGED <<chain, waiting>>

Destroy(t) == /\ ready' = ready \ {t} /\ waiting' = waiting \ {t}
              /\ UNCHANGED chain

Run(t) == /\ t \in ready
          /\ ready' = ready \ {t}
          /\ chain' = Append(chain, t)
          /\ UNCHANGED waiting

Resume(t) == /\ t \in waiting
             /\ waiting' = waiting \ {t}
             /\ chain' = Append(chain, t)
             /\ UNCHANGED ready

Yield == /\ Current \in Tasks
         /\ waiting' = waiting \cup {Current}
         /\ chain' = Caller
         /\ UNCHANGED ready

Finish == /\ Current \in Tasks
          /\ chain' = Caller
          /\ UNCHANGED <<ready, waiting>>

Next == \/ \E t \in Tasks : Create(t) \/ Destroy(t) \/ Run(t) \/ Resume(t)
        \/ Yield \/ Finish

Spec == Init /\ [][Next]_vars
===============================================================================
