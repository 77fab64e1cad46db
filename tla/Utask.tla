--------------------------------- MODULE Utask ---------------------------------
(***************************************************************************)
(* The user-level tasks of utask.c and of the assembly routines that switch *)
(* stacks.  A context is the program's own stack or a task's; it has a     *)
(* depth, the calls open on it.  asm_run_task keeps where on the caller's  *)
(* stack it was called, its home; a task that yields or ends restores that *)
(* stack pointer and returns through the word it finds there.  That is the *)
(* return address of a call that is still open only if the task was last   *)
(* run or resumed from the same depth of the same stack; otherwise control *)
(* is somewhere no one can tell, and the chain of callers is empty.        *)
(*                                                                         *)
(* A task is its record of the cache "sys_utsk".  The cache keeps what is  *)
(* in a record while it is free; a record never used before is zero.  The  *)
(* stacks come from the pool of one section of the memory space: when it   *)
(* is empty, no further section can be made.                               *)
(***************************************************************************)
EXTENDS Integers, Sequences, DList

CONSTANTS
  Tasks,                    \* records of the cache
  Host,                     \* the program's own stack
  PoolSize, NodeSize, FrmSize,
  MaxDepth,                 \* bound on the calls open on a stack
  Careful                   \* clients are as Allowed says

Contexts == Tasks \cup {Host}

VARIABLES
  free_list, using,         \* the stack pool
  alive,                    \* the records the cache has given out
  tsk,                      \* the records
  chain,                    \* contexts with an open utsk_run or utsk_resume,
                            \*   then the one in control
  depth                     \* context -> calls open on its stack

pool == <<free_list, using>>
vars == <<pool, alive, tsk, chain, depth>>

Pool == INSTANCE StkPool

ASSUME TaskAssumption ==
  /\ Host \notin Tasks
  /\ Pool!Holds
  /\ MaxDepth \in Nat
  /\ Careful \in BOOLEAN

NoStack == -1
InChain(t) == \E i \in 1 .. Len(chain) : chain[i] = t
Current == chain[Len(chain)]

Init ==
  /\ Pool!Init
  /\ alive = {}
  /\ tsk = [t \in Tasks |-> [magic |-> FALSE, state |-> "invalid", stk |-> NoStack,
                             finished |-> FALSE, home |-> <<Host, 0>>]]
  /\ chain = <<Host>>
  /\ depth = [c \in Contexts |-> 0]

-------------------------------------------------------------------------------
(* utsk_create; it leaves the flags of the assembly routines as they are.   *)
(* It fails before it does anything when the cache is empty, or when the    *)
(* pointer it tests before it assigns it happens to be null.                *)
Made(t, f) == [tsk EXCEPT ![t].magic = TRUE, ![t].state = "inited", ![t].stk = f]

Create(t) ==
  /\ chain # <<>>
  /\ t \notin alive
  /\ \E f \in Pool!Frames : Pool!Alloc(f) /\ tsk' = Made(t, f)
  /\ alive' = alive \cup {t}
  /\ UNCHANGED <<chain, depth>>

(* Slip: the record is not given back. *)
CreateNoStackKeeps(t) ==
  /\ chain # <<>>
  /\ t \notin alive
  /\ lst_empty(free_list)
  /\ tsk' = Made(t, NoStack)
  /\ alive' = alive \cup {t}
  /\ UNCHANGED <<pool, chain, depth>>

CreateNoStack(t) ==
  /\ chain # <<>>
  /\ t \notin alive
  /\ lst_empty(free_list)
  /\ tsk' = Made(t, NoStack)
  /\ UNCHANGED <<pool, alive, chain, depth>>

(* What a client may do with a task it has: neither destroy it while it is  *)
(* in control or waits for one it called, nor after it ended, as the next   *)
(* task in its record would take over the flag; and if it is waiting,       *)
(* resume it from where it was run.                                         *)
Destroyable(t) == t \in alive /\ ~InChain(t) /\ ~tsk[t].finished
AtHome(t) == tsk[t].home = <<Current, depth[Current]>>

(* utsk_destroy.  The record stays as it is, its magic number with it. *)
Destroy(t) ==
  /\ chain # <<>>
  /\ tsk[t].magic
  /\ Careful => Destroyable(t)
  /\ IF tsk[t].stk \in using THEN Pool!Free(tsk[t].stk) ELSE UNCHANGED pool
  /\ alive' = alive \ {t}
  /\ UNCHANGED <<tsk, chain, depth>>

(* utsk_run and asm_run_task. *)
Run(t) ==
  /\ chain # <<>>
  /\ tsk[t].magic /\ tsk[t].state = "inited"
  /\ Careful => t \in alive
  /\ tsk' = [tsk EXCEPT ![t].state = "running", ![t].home = <<Current, depth[Current]>>]
  /\ chain' = Append(chain, t)
  /\ depth' = [depth EXCEPT ![t] = 0]
  /\ UNCHANGED <<pool, alive>>

(* Slip: a task may be resumed that is not waiting. *)
ResumeRunning(t) ==
  /\ chain # <<>>
  /\ tsk[t].magic /\ tsk[t].state \in {"waiting", "running"}
  /\ Careful => t \in alive /\ (tsk[t].state = "waiting" => AtHome(t))
  /\ tsk' = [tsk EXCEPT ![t].state = "running"]
  /\ chain' = IF tsk[t].finished THEN chain ELSE Append(chain, t)
  /\ UNCHANGED <<pool, alive, depth>>

(* utsk_resume and asm_resume_task, which returns at once when the flag     *)
(* says that the task has ended.                                            *)
Resume(t) ==
  /\ chain # <<>>
  /\ tsk[t].magic /\ tsk[t].state = "waiting"
  /\ Careful => t \in alive /\ (tsk[t].state = "waiting" => AtHome(t))
  /\ tsk' = [tsk EXCEPT ![t].state = "running"]
  /\ chain' = IF tsk[t].finished THEN chain ELSE Append(chain, t)
  /\ UNCHANGED <<pool, alive, depth>>

(* Slip: the return is into the program that ran the first task. *)
LandedInHost(t) == <<Host>>

(* The return through the word at the home of the task in control. *)
Landed(t) ==
  LET home == tsk[t].home
      open == {i \in 1 .. (Len(chain) - 1) : chain[i] = home[1] /\ depth[home[1]] = home[2]}
  IN  IF open = {} THEN <<>>
      ELSE SubSeq(chain, 1, CHOOSE i \in open : \A j \in open : j <= i)

(* utsk_yield and asm_yield_task, which a task calls for itself. *)
Yield ==
  /\ chain # <<>>
  /\ LET t == Current
     IN  /\ t \in Tasks
         /\ tsk[t].magic /\ tsk[t].state = "running"
         /\ tsk' = [tsk EXCEPT ![t].state = "waiting"]
         /\ chain' = Landed(t)
  /\ UNCHANGED <<pool, alive, depth>>

(* The task's function returns into asm_run_task. *)
Finish ==
  /\ chain # <<>>
  /\ LET t == Current
     IN  /\ t \in Tasks
         /\ depth[t] = 0
         /\ tsk' = [tsk EXCEPT ![t].finished = TRUE]
         /\ chain' = Landed(t)
  /\ UNCHANGED <<pool, alive, depth>>

(* The context in control calls a function, or returns from one. *)
Call ==
  /\ chain # <<>>
  /\ \E d \in 0 .. MaxDepth : /\ d \in {depth[Current] - 1, depth[Current] + 1}
                              /\ depth' = [depth EXCEPT ![Current] = d]
  /\ UNCHANGED <<pool, alive, tsk, chain>>

Next ==
  \/ \E t \in Tasks : \/ Create(t) \/ CreateNoStack(t) \/ Destroy(t)
                      \/ Run(t) \/ Resume(t)
  \/ Yield \/ Finish \/ Call

Spec == Init /\ [][Next]_vars

-------------------------------------------------------------------------------
Records == [magic : BOOLEAN, state : {"invalid", "inited", "waiting", "running"},
            stk : Pool!Frames \cup {NoStack}, finished : BOOLEAN,
            home : Contexts \X (0 .. MaxDepth)]

TypeOK ==
  /\ using \subseteq Pool!Frames
  /\ alive \subseteq Tasks
  /\ tsk \in [Tasks -> Records]
  /\ chain \in Seq(Contexts)
  /\ depth \in [Contexts -> 0 .. MaxDepth]

(* The states that utsk_run, utsk_yield and utsk_resume test agree with     *)
(* where control is: the chain starts at the program's own stack, nobody is *)
(* in it twice, and a task is in it, alive and called from its home, if and *)
(* only if it is running and has not ended.                                 *)
TasksSound ==
  /\ TypeOK
  /\ chain # <<>> /\ chain[1] = Host
  /\ \A i, j \in 1 .. Len(chain) : chain[i] = chain[j] => i = j
  /\ \A i \in 2 .. Len(chain) : tsk[chain[i]].home = <<chain[i - 1], depth[chain[i - 1]]>>
  /\ \A t \in Tasks : InChain(t) <=> /\ t \in alive
                                     /\ tsk[t].state = "running"
                                     /\ ~tsk[t].finished

(* Every task that utsk_create returned has a stack of its own, and all     *)
(* other stacks are in the free list, once.                                 *)
StacksExact ==
  /\ ListsOnce(free_list, Pool!Frames \ using)
  /\ using = {tsk[t].stk : t \in alive}
  /\ \A t, u \in alive : tsk[t].stk = tsk[u].stk => t = u

(* utsk_yield returns from the utsk_run or utsk_resume that called the task *)
(* last, and so does the end of the task.                                   *)
Switch == INSTANCE Coroutines WITH
            ready <- {t \in alive : tsk[t].state = "inited"},
            waiting <- {t \in alive : tsk[t].state = "waiting"}
ImplementsCoroutines == Switch!Spec
===============================================================================
