------------------------------ MODULE UtaskProofs ------------------------------
(***************************************************************************)
(* Proofs about Utask for every set of tasks, pool and depth, for clients  *)
(* that are careful.                                                       *)
(***************************************************************************)
EXTENDS Utask, CommonLemmas

(* A task that ended stays as it ended: its record is never given back.     *)
EndedStay ==
  \A t \in Tasks : tsk[t].finished => t \in alive /\ tsk[t].state = "running"

IInv == TasksSound /\ EndedStay

(* What TasksSound says of the chain alone. *)
ChainSound ==
  /\ chain \in Seq(Contexts) /\ chain # <<>> /\ chain[1] = Host
  /\ \A i, j \in 1 .. Len(chain) : chain[i] = chain[j] => i = j
  /\ \A i \in 2 .. Len(chain) : tsk[chain[i]].home = <<chain[i - 1], depth[chain[i - 1]]>>

-------------------------------------------------------------------------------
(* The chain and the context in control. *)
LEMMA InControl ==
  ASSUME TasksSound
  PROVE  /\ Len(chain) \in Nat \ {0} /\ Current \in Contexts /\ InChain(Current)
         /\ \A i \in 1 .. Len(chain) : chain[i] \in Contexts
         /\ Current \in Tasks => Len(chain) >= 2
<1>1. chain \in Seq(Contexts) /\ chain # <<>> /\ chain[1] = Host
  BY DEF TasksSound, TypeOK
<1>2. Len(chain) \in Nat \ {0}
  BY <1>1, EmptySeq
<1>3. \A i \in 1 .. Len(chain) : chain[i] \in Contexts
  BY <1>1
<1>4. Current \in Contexts /\ InChain(Current)
  BY <1>2, <1>3 DEF Current, InChain
<1>5. Current \in Tasks => Len(chain) # 1
  BY <1>1, TaskAssumption DEF Current
<1> QED BY <1>2, <1>3, <1>4, <1>5

(* Control goes into a task that is not in the chain; only its record and   *)
(* its depth change.                                                        *)
LEMMA Entered ==
  ASSUME TasksSound, NEW t \in Tasks, ~InChain(t),
         chain' = Append(chain, t),
         tsk'[t].home = <<Current, depth[Current]>>,
         \A u \in Tasks \ {t} : tsk'[u] = tsk[u],
         \A c \in Contexts \ {t} : depth'[c] = depth[c]
  PROVE  /\ ChainSound'
         /\ \A u \in Tasks : InChain(u)' <=> InChain(u) \/ u = t
<1> DEFINE n == Len(chain)
<1>1. /\ n \in Nat \ {0} /\ chain \in Seq(Contexts) /\ chain[1] = Host
      /\ \A i \in 1 .. n : chain[i] \in Contexts
  BY InControl DEF TasksSound, TypeOK
<1>2. t \in Contexts
  BY DEF Contexts
<1>3. /\ chain' \in Seq(Contexts) /\ chain' # <<>> /\ Len(chain') = n + 1
      /\ \A i \in 1 .. n : chain'[i] = chain[i]
      /\ chain'[n + 1] = t
  BY <1>1, <1>2, AppendProperties
<1>4. \A i \in 1 .. n : chain[i] # t
  BY DEF InChain
<1>5. \A i, j \in 1 .. n : chain[i] = chain[j] => i = j
  BY DEF TasksSound
<1>6. \A i \in 2 .. n : tsk[chain[i]].home = <<chain[i - 1], depth[chain[i - 1]]>>
  BY DEF TasksSound
<1>7. Current = chain[n]
  BY DEF Current
<1> HIDE DEF n
<1>8. \A i, j \in 1 .. n + 1 : chain'[i] = chain'[j] => i = j
  <2> SUFFICES ASSUME NEW i \in 1 .. n + 1, NEW j \in 1 .. n + 1, chain'[i] = chain'[j]
               PROVE  i = j
    OBVIOUS
  <2>1. CASE i = n + 1 \/ j = n + 1
    BY <1>1, <1>3, <1>4, <2>1
  <2>2. CASE i # n + 1 /\ j # n + 1
    <3>1. i \in 1 .. n /\ j \in 1 .. n
      BY <1>1, <2>2
    <3> QED BY <1>3, <1>5, <3>1
  <2> QED BY <2>1, <2>2
<1>9. \A i \in 2 .. n + 1 : tsk'[chain'[i]].home = <<chain'[i - 1], depth'[chain'[i - 1]]>>
  <2> SUFFICES ASSUME NEW i \in 2 .. n + 1
               PROVE  tsk'[chain'[i]].home = <<chain'[i - 1], depth'[chain'[i - 1]]>>
    OBVIOUS
  <2>1. i - 1 \in 1 .. n
    BY <1>1
  <2>2. chain'[i - 1] = chain[i - 1] /\ chain[i - 1] \in Contexts \ {t}
    BY <1>1, <1>3, <1>4, <2>1
  <2>3. depth'[chain'[i - 1]] = depth[chain[i - 1]]
    BY <2>2
  <2>4. CASE i = n + 1
    BY <1>1, <1>3, <1>7, <2>2, <2>3, <2>4
  <2>5. CASE i # n + 1
    <3>1. i \in 2 .. n /\ i \in 1 .. n
      BY <1>1, <2>5
    <3>2. chain'[i] = chain[i] /\ chain[i] \in Contexts \ {t}
      BY <1>1, <1>3, <1>4, <3>1
    <3>3. chain[i] # Host
      BY <1>1, <1>5, <3>1
    <3>4. tsk'[chain'[i]] = tsk[chain[i]]
      BY <3>2, <3>3 DEF Contexts
    <3> QED BY <1>6, <2>2, <2>3, <3>1, <3>4
  <2> QED BY <2>4, <2>5
<1>10. ASSUME NEW u \in Tasks
       PROVE  InChain(u)' <=> InChain(u) \/ u = t
  <2>1. InChain(u)' <=> \E i \in 1 .. n + 1 : chain'[i] = u
    BY <1>3 DEF InChain
  <2>2. InChain(u) <=> \E i \in 1 .. n : chain[i] = u
    BY DEF InChain, n
  <2>3. \A i \in 1 .. n + 1 : i \in 1 .. n \/ i = n + 1
    BY <1>1
  <2>4. n + 1 \in 1 .. n + 1 /\ \A i \in 1 .. n : i \in 1 .. n + 1
    BY <1>1
  <2> QED BY <1>3, <2>1, <2>2, <2>3, <2>4
<1>11. chain'[1] = Host
  BY <1>1, <1>3
<1> QED BY <1>3, <1>8, <1>9, <1>10, <1>11 DEF ChainSound

(* The return through the home of the task in control is into its caller.   *)
LEMMA LandedCaller ==
  ASSUME TasksSound, Current \in Tasks
  PROVE  Landed(Current) = SubSeq(chain, 1, Len(chain) - 1)
<1> DEFINE n == Len(chain)
           home == tsk[Current].home
           open == {i \in 1 .. (n - 1) : chain[i] = home[1] /\ depth[home[1]] = home[2]}
<1>1. n \in Nat /\ n >= 2 /\ Current = chain[n]
  BY InControl DEF Current
<1>2. home = <<chain[n - 1], depth[chain[n - 1]]>>
  <2>1. \A i \in 2 .. n : tsk[chain[i]].home = <<chain[i - 1], depth[chain[i - 1]]>>
    BY DEF TasksSound
  <2>2. n \in 2 .. n
    BY <1>1
  <2> QED BY <1>1, <2>1, <2>2
<1>3. home[1] = chain[n - 1] /\ home[2] = depth[chain[n - 1]]
  BY <1>2
<1>4. \A i, j \in 1 .. n : chain[i] = chain[j] => i = j
  BY DEF TasksSound
<1> HIDE DEF n, home
<1>5. open = {n - 1}
  <2>1. n - 1 \in 1 .. (n - 1) /\ \A i \in 1 .. (n - 1) : i \in 1 .. n
    BY <1>1
  <2>2. n - 1 \in open
    BY <1>3, <2>1
  <2>3. \A i \in open : i = n - 1
    BY <1>3, <1>4, <2>1
  <2> QED BY <2>2, <2>3
<1>6. (CHOOSE i \in open : \A j \in open : j <= i) = n - 1
  <2>1. \A j \in open : j <= n - 1
    BY <1>1, <1>5
  <2> QED BY <1>5, <2>1
<1>7. open # {}
  BY <1>5
<1>8. Landed(Current) = IF open = {} THEN <<>>
                        ELSE SubSeq(chain, 1, CHOOSE i \in open : \A j \in open : j <= i)
  BY DEF Landed, n, home
<1> QED BY <1>6, <1>7, <1>8 DEF n

(* The task in control gives it back to its caller. *)
LEMMA Left ==
  ASSUME TasksSound, Current \in Tasks,
         chain' = Landed(Current), depth' = depth,
         \A u \in Tasks : tsk'[u].home = tsk[u].home
  PROVE  /\ ChainSound'
         /\ \A u \in Tasks : InChain(u)' <=> InChain(u) /\ u # Current
<1> DEFINE n == Len(chain)
<1>1. /\ n \in Nat /\ n >= 2 /\ chain[1] = Host /\ Current = chain[n]
      /\ \A i \in 1 .. n : chain[i] \in Contexts
  BY InControl DEF TasksSound, Current
<1>2. \A i, j \in 1 .. n : chain[i] = chain[j] => i = j
  BY DEF TasksSound
<1>3. \A i \in 2 .. n : tsk[chain[i]].home = <<chain[i - 1], depth[chain[i - 1]]>>
  BY DEF TasksSound
<1>4. chain' = SubSeq(chain, 1, n - 1)
  BY LandedCaller
<1>5. \A u : InChain(u) <=> \E i \in 1 .. n : chain[i] = u
  BY DEF InChain
<1> HIDE DEF n
<1>6. \A i \in 1 .. n - 1 : i \in 1 .. n /\ chain[i] \in Contexts
  BY <1>1
<1>7. /\ chain' \in Seq(Contexts) /\ Len(chain') = n - 1
      /\ \A i \in 1 .. n - 1 : chain'[i] = chain[i]
  <2>1. n - 1 \in Int /\ 1 <= n - 1 /\ (n - 1) - 1 + 1 = n - 1
    BY <1>1
  <2>2. /\ SubSeq(chain, 1, n - 1) \in Seq(Contexts)
        /\ Len(SubSeq(chain, 1, n - 1)) = IF 1 <= n - 1 THEN (n - 1) - 1 + 1 ELSE 0
        /\ \A i \in 1 .. (n - 1) - 1 + 1 : SubSeq(chain, 1, n - 1)[i] = chain[1 + i - 1]
    BY <1>6, <2>1, SubSeqProperties
  <2>3. \A i \in 1 .. n - 1 : 1 + i - 1 = i
    BY <1>1
  <2> QED BY <1>4, <2>1, <2>2, <2>3
<1>8. chain' # <<>> /\ chain'[1] = Host
  <2>1. 1 \in 1 .. n - 1
    BY <1>1
  <2> QED BY <1>1, <1>7, <2>1
<1>9. \A i, j \in 1 .. n - 1 : chain'[i] = chain'[j] => i = j
  BY <1>2, <1>6, <1>7
<1>10. \A i \in 2 .. n - 1 : tsk'[chain'[i]].home = <<chain'[i - 1], depth'[chain'[i - 1]]>>
  <2> SUFFICES ASSUME NEW i \in 2 .. n - 1
               PROVE  tsk'[chain'[i]].home = <<chain'[i - 1], depth'[chain'[i - 1]]>>
    OBVIOUS
  <2>1. i \in 2 .. n /\ i \in 1 .. n - 1 /\ i - 1 \in 1 .. n - 1 /\ 1 \in 1 .. n /\ i # 1
    BY <1>1
  <2>2. chain'[i] = chain[i] /\ chain'[i - 1] = chain[i - 1]
    BY <1>7, <2>1
  <2>3. chain[i] \in Tasks
    BY <1>1, <1>2, <1>6, <2>1 DEF Contexts
  <2> QED BY <1>3, <2>1, <2>2, <2>3
<1>11. ASSUME NEW u \in Tasks
       PROVE  InChain(u)' <=> InChain(u) /\ u # Current
  <2>1. InChain(u)' <=> \E i \in 1 .. n - 1 : chain[i] = u
    BY <1>7 DEF InChain
  <2>2. \A i \in 1 .. n : i \in 1 .. n - 1 \/ i = n
    BY <1>1
  <2>3. n \in 1 .. n /\ \A i \in 1 .. n - 1 : i # n
    BY <1>1
  <2> QED BY <1>1, <1>2, <1>5, <1>6, <2>1, <2>2, <2>3
<1> QED BY <1>7, <1>8, <1>9, <1>10, <1>11 DEF ChainSound

-------------------------------------------------------------------------------
LEMMA InitIInv == Init => IInv
<1> SUFFICES ASSUME Init PROVE IInv
  OBVIOUS
<1> USE DEF Init
<1>1. chain = <<Host>> /\ Len(chain) = 1 /\ chain[1] = Host /\ Host \in Contexts
  BY DEF Contexts
<1>2. TypeOK
  <2>1. using \subseteq Pool!Frames
    BY DEF Pool!Init
  <2>2. tsk \in [Tasks -> Records]
    <3>1. <<Host, 0>> \in Contexts \X (0 .. MaxDepth)
      BY <1>1, TaskAssumption
    <3>2. [magic |-> FALSE, state |-> "invalid", stk |-> NoStack,
           finished |-> FALSE, home |-> <<Host, 0>>] \in Records
      BY <3>1 DEF Records
    <3> QED BY <3>2
  <2>3. chain \in Seq(Contexts) /\ depth \in [Contexts -> 0 .. MaxDepth]
    BY <1>1, TaskAssumption
  <2> QED BY <2>1, <2>2, <2>3 DEF TypeOK
<1>3. \A t \in Tasks : ~InChain(t)
  BY <1>1, TaskAssumption DEF InChain
<1>4. TasksSound
  BY <1>1, <1>2, <1>3 DEF TasksSound
<1> QED BY <1>4 DEF IInv, EndedStay

(* A task that is not in the chain is created or destroyed. *)
LEMMA OutsideIInv ==
  ASSUME IInv, Careful, NEW t \in Tasks, Create(t) \/ CreateNoStack(t) \/ Destroy(t)
  PROVE  IInv'
<1>1. /\ chain' = chain /\ depth' = depth
      /\ \A u \in Tasks \ {t} : (u \in alive' <=> u \in alive) /\ tsk'[u] = tsk[u]
      /\ alive' \subseteq alive \cup {t}
      /\ ~tsk[t].finished
  <2>1. tsk' = tsk \/ \E f : tsk' = Made(t, f)
    BY DEF Create, CreateNoStack, Destroy
  <2>2. \A u \in Tasks \ {t} : tsk'[u] = tsk[u]
    BY <2>1 DEF IInv, TasksSound, TypeOK, Made
  <2>3. t \notin alive => ~tsk[t].finished
    BY DEF IInv, EndedStay
  <2> QED BY <2>2, <2>3 DEF Create, CreateNoStack, Destroy, Destroyable
<1>2. /\ tsk'[t].home = tsk[t].home /\ tsk'[t].finished = tsk[t].finished
      /\ tsk'[t] \in Records
      /\ t \in alive' => tsk'[t].state = "inited"
      /\ ~InChain(t)
  <2>1. CASE Destroy(t)
    BY <2>1 DEF Destroy, Destroyable, IInv, TasksSound, TypeOK
  <2>2. CASE Create(t) \/ CreateNoStack(t)
    <3>1. PICK f \in Pool!Frames \cup {NoStack} : tsk' = Made(t, f)
      BY <2>2 DEF Create, CreateNoStack
    <3>2. tsk[t] \in Records
      BY DEF IInv, TasksSound, TypeOK
    <3>3. tsk'[t] = [tsk[t] EXCEPT !.magic = TRUE, !.state = "inited", !.stk = f]
      BY <3>1 DEF Made, IInv, TasksSound, TypeOK
    <3>4. t \notin alive
      BY <2>2 DEF Create, CreateNoStack
    <3> QED BY <3>2, <3>3, <3>4 DEF Records, IInv, TasksSound
  <2> QED BY <2>1, <2>2
<1>3. using' \subseteq Pool!Frames
  BY DEF Create, CreateNoStack, Destroy, Pool!Alloc, Pool!Free, pool, IInv, TasksSound, TypeOK
<1>4. tsk' \in [Tasks -> Records]
  <2>1. tsk' = tsk \/ \E f : tsk' = Made(t, f)
    BY DEF Create, CreateNoStack, Destroy
  <2>2. DOMAIN tsk' = Tasks /\ tsk' = [u \in Tasks |-> tsk'[u]]
    BY <2>1 DEF IInv, TasksSound, TypeOK, Made
  <2>3. \A u \in Tasks : tsk'[u] \in Records
    BY <1>1, <1>2 DEF IInv, TasksSound, TypeOK
  <2> QED BY <2>2, <2>3
<1>5. TypeOK'
  BY <1>1, <1>3, <1>4 DEF IInv, TasksSound, TypeOK
<1>6. \A u : InChain(u)' <=> InChain(u)
  BY <1>1 DEF InChain
<1>7. \A i \in 2 .. Len(chain') :
        tsk'[chain'[i]].home = <<chain'[i - 1], depth'[chain'[i - 1]]>>
  <2> SUFFICES ASSUME NEW i \in 2 .. Len(chain)
               PROVE  tsk'[chain[i]].home = tsk[chain[i]].home
    BY <1>1 DEF IInv, TasksSound
  <2>1. chain[i] \in Tasks
    <3>1. Len(chain) \in Nat /\ \A j \in 1 .. Len(chain) : chain[j] \in Contexts
      BY InControl DEF IInv
    <3>2. i \in 1 .. Len(chain) /\ 1 \in 1 .. Len(chain) /\ i # 1
      BY <3>1
    <3>3. chain[i] # chain[1]
      BY <3>2 DEF IInv, TasksSound
    <3> QED BY <3>1, <3>2, <3>3 DEF IInv, TasksSound, Contexts
  <2> QED BY <1>1, <1>2, <2>1
<1>8. \A u \in Tasks : InChain(u)' <=> u \in alive' /\ tsk'[u].state = "running" /\ ~tsk'[u].finished
  <2> TAKE u \in Tasks
  <2>1. CASE u = t
    BY <1>2, <1>6, <2>1
  <2>2. CASE u # t
    BY <1>1, <1>6, <2>2 DEF IInv, TasksSound
  <2> QED BY <2>1, <2>2
<1>9. TasksSound'
  BY <1>1, <1>5, <1>7, <1>8 DEF IInv, TasksSound
<1>10. EndedStay'
  BY <1>1, <1>2 DEF IInv, EndedStay
<1> QED BY <1>9, <1>10 DEF IInv

(* A task is run, or resumed from its home. *)
LEMMA EnterIInv ==
  ASSUME IInv, Careful, NEW t \in Tasks, Run(t) \/ Resume(t)
  PROVE  IInv' /\ chain' = Append(chain, t)
<1>1. t \in alive /\ tsk[t].state # "running"
  BY DEF Run, Resume
<1>2. ~tsk[t].finished /\ ~InChain(t)
  BY <1>1 DEF IInv, EndedStay, TasksSound
<1>3. chain' = Append(chain, t) /\ UNCHANGED <<pool, alive>>
  BY <1>2 DEF Run, Resume
<1>4. tsk \in [Tasks -> Records] /\ depth \in [Contexts -> 0 .. MaxDepth]
  BY DEF IInv, TasksSound, TypeOK
<1>5. /\ depth' \in [Contexts -> 0 .. MaxDepth]
      /\ \A c \in Contexts \ {t} : depth'[c] = depth[c]
  BY <1>4, TaskAssumption DEF Run, Resume, Contexts
<1>6. /\ tsk'[t].state = "running" /\ ~tsk'[t].finished
      /\ tsk'[t].home = <<Current, depth[Current]>>
      /\ tsk' \in [Tasks -> Records]
      /\ \A u \in Tasks \ {t} : tsk'[u] = tsk[u]
  <2>1. <<Current, depth[Current]>> \in Contexts \X (0 .. MaxDepth)
    BY <1>4, InControl DEF IInv
  <2>2. CASE Run(t)
    <3>1. tsk' = [tsk EXCEPT ![t] = [tsk[t] EXCEPT !.state = "running",
                                                   !.home = <<Current, depth[Current]>>]]
      BY <1>4, <2>2 DEF Run, Records
    <3>2. tsk[t] \in Records
      BY <1>4
    <3>3. tsk'[t] = [tsk[t] EXCEPT !.state = "running", !.home = <<Current, depth[Current]>>]
      BY <1>4, <3>1
    <3>4. /\ tsk'[t] \in Records /\ tsk'[t].state = "running"
          /\ tsk'[t].finished = tsk[t].finished
          /\ tsk'[t].home = <<Current, depth[Current]>>
      BY <2>1, <3>2, <3>3 DEF Records
    <3> QED BY <1>2, <1>4, <3>1, <3>4
  <2>3. CASE Resume(t)
    <3>1. tsk' = [tsk EXCEPT ![t] = [tsk[t] EXCEPT !.state = "running"]]
      BY <1>4, <2>3 DEF Resume, Records
    <3>2. tsk[t] \in Records /\ tsk[t].home = <<Current, depth[Current]>>
      BY <1>4, <2>3 DEF Resume, AtHome
    <3>3. tsk'[t] = [tsk[t] EXCEPT !.state = "running"]
      BY <1>4, <3>1
    <3>4. /\ tsk'[t] \in Records /\ tsk'[t].state = "running"
          /\ tsk'[t].finished = tsk[t].finished
          /\ tsk'[t].home = tsk[t].home
      BY <3>2, <3>3 DEF Records
    <3> QED BY <1>2, <1>4, <3>1, <3>2, <3>4
  <2> QED BY <2>2, <2>3
<1>7. /\ ChainSound'
      /\ \A u \in Tasks : InChain(u)' <=> InChain(u) \/ u = t
  BY <1>2, <1>3, <1>5, <1>6, Entered DEF IInv
<1>8. TypeOK'
  BY <1>3, <1>5, <1>6, <1>7 DEF IInv, TasksSound, TypeOK, ChainSound, pool
<1>9. \A u \in Tasks : InChain(u)' <=> u \in alive' /\ tsk'[u].state = "running" /\ ~tsk'[u].finished
  <2> TAKE u \in Tasks
  <2>1. CASE u = t
    BY <1>1, <1>3, <1>6, <1>7, <2>1
  <2>2. CASE u # t
    BY <1>3, <1>6, <1>7, <2>2 DEF IInv, TasksSound
  <2> QED BY <2>1, <2>2
<1>10. TasksSound'
  BY <1>7, <1>8, <1>9 DEF TasksSound, ChainSound
<1>11. EndedStay'
  BY <1>3, <1>6 DEF IInv, EndedStay
<1> QED BY <1>3, <1>10, <1>11 DEF IInv

(* The task in control yields or ends. *)
LEMMA LeaveIInv ==
  ASSUME IInv, Yield \/ Finish
  PROVE  IInv' /\ chain' = SubSeq(chain, 1, Len(chain) - 1)
<1> DEFINE t == Current
<1>1. /\ t \in Tasks /\ chain' = Landed(t) /\ UNCHANGED <<pool, alive, depth>>
      /\ \/ tsk' = [tsk EXCEPT ![t].state = "waiting"]
         \/ tsk' = [tsk EXCEPT ![t].finished = TRUE]
  BY DEF Yield, Finish
<1>2. /\ InChain(t) /\ t \in alive /\ tsk[t].state = "running" /\ ~tsk[t].finished
  BY <1>1, InControl DEF IInv, TasksSound
<1>3. tsk \in [Tasks -> Records]
  BY DEF IInv, TasksSound, TypeOK
<1>l. chain' = SubSeq(chain, 1, Len(chain) - 1)
  BY <1>1, LandedCaller DEF IInv
<1>4. ASSUME NEW u \in Tasks
      PROVE  /\ tsk'[u] \in Records /\ tsk'[u].home = tsk[u].home
             /\ u # t => tsk'[u] = tsk[u]
             /\ u = t => \/ tsk'[u].state = "waiting" /\ ~tsk'[u].finished
                         \/ tsk'[u].state = "running" /\ tsk'[u].finished
  <2>1. tsk[u] \in Records
    BY <1>3
  <2>2. CASE tsk' = [tsk EXCEPT ![t].state = "waiting"]
    <3>1. tsk'[u] = IF u = t THEN [tsk[u] EXCEPT !.state = "waiting"] ELSE tsk[u]
      BY <1>3, <2>2
    <3> QED BY <1>2, <2>1, <3>1 DEF Records
  <2>3. CASE tsk' = [tsk EXCEPT ![t].finished = TRUE]
    <3>1. tsk'[u] = IF u = t THEN [tsk[u] EXCEPT !.finished = TRUE] ELSE tsk[u]
      BY <1>3, <2>3
    <3> HIDE DEF t
    <3> QED BY <1>2, <2>1, <3>1 DEF Records
  <2> QED BY <1>1, <2>2, <2>3
<1>5. tsk' \in [Tasks -> Records]
  <2>1. tsk' = [u \in Tasks |-> tsk'[u]]
    BY <1>1, <1>3
  <2> QED BY <1>4, <2>1
<1>6. /\ ChainSound'
      /\ \A u \in Tasks : InChain(u)' <=> InChain(u) /\ u # t
  BY <1>1, <1>4, Left DEF IInv
<1>7. TypeOK'
  BY <1>1, <1>5, <1>6 DEF IInv, TasksSound, TypeOK, ChainSound, pool
<1> HIDE DEF t
<1>8. \A u \in Tasks : InChain(u)' <=> u \in alive' /\ tsk'[u].state = "running" /\ ~tsk'[u].finished
  BY <1>1, <1>4, <1>6 DEF IInv, TasksSound
<1>9. TasksSound'
  BY <1>6, <1>7, <1>8 DEF TasksSound, ChainSound
<1>10. EndedStay'
  <2> SUFFICES ASSUME NEW u \in Tasks, tsk'[u].finished
               PROVE  u \in alive' /\ tsk'[u].state = "running"
    BY DEF EndedStay
  <2> QED BY <1>1, <1>2, <1>4 DEF IInv, EndedStay
<1> QED BY <1>l, <1>9, <1>10 DEF IInv

(* The context in control calls a function or returns from one. *)
LEMMA CallIInv ==
  ASSUME IInv, Call
  PROVE  IInv'
<1>1. /\ UNCHANGED <<pool, alive, tsk, chain>>
      /\ \E d \in 0 .. MaxDepth : depth' = [depth EXCEPT ![Current] = d]
  BY DEF Call
<1>2. depth \in [Contexts -> 0 .. MaxDepth]
  BY DEF IInv, TasksSound, TypeOK
<1>3. /\ depth' \in [Contexts -> 0 .. MaxDepth]
      /\ \A c \in Contexts : c # Current => depth'[c] = depth[c]
  BY <1>1, <1>2
<1>4. TypeOK'
  BY <1>1, <1>3 DEF IInv, TasksSound, TypeOK, pool
<1>5. \A i \in 2 .. Len(chain) : tsk[chain[i]].home = <<chain[i - 1], depth'[chain[i - 1]]>>
  <2> SUFFICES ASSUME NEW i \in 2 .. Len(chain)
               PROVE  depth'[chain[i - 1]] = depth[chain[i - 1]]
    BY DEF IInv, TasksSound
  <2>1. Len(chain) \in Nat \ {0} /\ \A j \in 1 .. Len(chain) : chain[j] \in Contexts
    BY InControl DEF IInv
  <2>2. i - 1 \in 1 .. Len(chain) /\ Len(chain) \in 1 .. Len(chain) /\ i - 1 # Len(chain)
    BY <2>1
  <2>3. chain[i - 1] # Current
    BY <2>2 DEF Current, IInv, TasksSound
  <2> QED BY <1>3, <2>1, <2>2, <2>3
<1>6. TasksSound'
  BY <1>1, <1>4, <1>5 DEF IInv, TasksSound, InChain
<1> QED BY <1>1, <1>6 DEF IInv, EndedStay

LEMMA NextIInv == Careful /\ IInv /\ [Next]_vars => IInv'
<1> SUFFICES ASSUME Careful, IInv, [Next]_vars PROVE IInv'
  OBVIOUS
<1>1. CASE UNCHANGED vars
  BY <1>1 DEF vars, pool, IInv, TasksSound, TypeOK, InChain, EndedStay
<1>2. CASE Next
  BY <1>2, OutsideIInv, EnterIInv, LeaveIInv, CallIInv DEF Next
<1> QED BY <1>1, <1>2

-------------------------------------------------------------------------------
(* The states that utsk_run, utsk_yield and utsk_resume test agree with     *)
(* where control is, however careful clients nest their tasks.              *)
THEOREM TasksAlwaysSound ==
  ASSUME Careful
  PROVE  Spec => []TasksSound
<1>1. IInv => TasksSound
  BY DEF IInv
<1>2. IInv /\ [Next]_vars => IInv'
  BY NextIInv
<1> QED BY <1>1, <1>2, InitIInv, PTL DEF Spec

-------------------------------------------------------------------------------
(* Every step of the tasks is one of Coroutines, or does not show.          *)
LEMMA StepSwitches ==
  ASSUME Careful, IInv, [Next]_vars
  PROVE  [Switch!Next]_(Switch!vars)
<1> USE DEF Switch!vars
<1>1. /\ alive \subseteq Tasks /\ tsk \in [Tasks -> Records]
      /\ Switch!Current = Current /\ Switch!Caller = SubSeq(chain, 1, Len(chain) - 1)
  BY DEF IInv, TasksSound, TypeOK, Switch!Current, Current, Switch!Caller
<1>3. CASE UNCHANGED vars \/ Call
  BY <1>3 DEF vars, Call
<1>4. ASSUME NEW t \in Tasks, Create(t)
      PROVE  Switch!Create(t)
  <2>1. PICK f \in Pool!Frames : tsk' = Made(t, f)
    BY <1>4 DEF Create
  <2>2. /\ t \notin alive /\ alive' = alive \cup {t} /\ chain' = chain
        /\ tsk'[t].state = "inited"
        /\ \A u \in alive \ {t} : tsk'[u].state = tsk[u].state
    <3>1. tsk'[t] = [tsk[t] EXCEPT !.magic = TRUE, !.state = "inited", !.stk = f]
      BY <1>1, <2>1 DEF Made
    <3>2. tsk[t] \in Records
      BY <1>1
    <3>3. tsk'[t].state = "inited"
      BY <3>1, <3>2 DEF Records
    <3> QED BY <1>1, <1>4, <2>1, <3>3 DEF Create, Made
  <2> QED BY <2>2 DEF Switch!Create
<1>5. ASSUME NEW t \in Tasks, CreateNoStack(t)
      PROVE  UNCHANGED Switch!vars
  <2>1. /\ t \notin alive /\ alive' = alive /\ chain' = chain
        /\ \A u \in alive : tsk'[u] = tsk[u]
    BY <1>1, <1>5 DEF CreateNoStack, Made
  <2> QED BY <2>1
<1>6. ASSUME NEW t \in Tasks, Destroy(t)
      PROVE  Switch!Destroy(t)
  <2>1. alive' = alive \ {t} /\ tsk' = tsk /\ chain' = chain
    BY <1>6 DEF Destroy
  <2> QED BY <2>1 DEF Switch!Destroy
<1>7. ASSUME NEW t \in Tasks, Run(t) \/ Resume(t)
      PROVE  Switch!Run(t) \/ Switch!Resume(t)
  <2>1. /\ t \in alive /\ alive' = alive /\ chain' = Append(chain, t)
        /\ \A u \in alive \ {t} : tsk'[u] = tsk[u]
        /\ Run(t) => tsk[t].state = "inited"
        /\ Resume(t) => tsk[t].state = "waiting"
    BY <1>1, <1>7, EnterIInv DEF Run, Resume
  <2>2. tsk'[t].state = "running"
    <3>1. IInv' /\ InChain(t)'
      <4>1. Len(chain') = Len(chain) + 1 /\ chain'[Len(chain) + 1] = t /\ Len(chain) \in Nat
        BY <2>1 DEF IInv, TasksSound, TypeOK
      <4>2. IInv'
        BY <1>7, EnterIInv
      <4> QED BY <4>1, <4>2 DEF InChain
    <3> QED BY <3>1 DEF IInv, TasksSound
  <2>3. CASE Run(t)
    BY <2>1, <2>2, <2>3 DEF Switch!Run
  <2>4. CASE Resume(t)
    BY <2>1, <2>2, <2>4 DEF Switch!Resume
  <2> QED BY <1>7, <2>3, <2>4
<1>8. CASE Yield \/ Finish
  <2> DEFINE t == Current
  <2>1. /\ t \in alive /\ t \in Tasks /\ tsk[t].state = "running" /\ alive' = alive
        /\ chain' = SubSeq(chain, 1, Len(chain) - 1)
    BY <1>8, InControl, LeaveIInv DEF Yield, Finish, IInv, TasksSound
  <2>2. CASE Yield
    <3>1. tsk' = [tsk EXCEPT ![t].state = "waiting"]
      BY <2>2 DEF Yield
    <3>2. tsk[t] \in Records
      BY <1>1, <2>1
    <3> HIDE DEF t
    <3>3. /\ tsk'[t].state = "waiting"
          /\ \A u \in alive \ {t} : tsk'[u] = tsk[u]
      BY <1>1, <2>1, <3>1, <3>2 DEF Records
    <3>4. /\ {u \in alive' : tsk'[u].state = "waiting"}
               = {u \in alive : tsk[u].state = "waiting"} \cup {t}
          /\ {u \in alive' : tsk'[u].state = "inited"} = {u \in alive : tsk[u].state = "inited"}
      BY <2>1, <3>3
    <3> QED BY <1>1, <2>1, <3>4 DEF Switch!Yield, Switch!Next, t
  <2>3. CASE Finish
    <3>1. tsk' = [tsk EXCEPT ![t].finished = TRUE]
      BY <2>3 DEF Finish
    <3> HIDE DEF t
    <3>2. \A u \in alive : tsk'[u].state = tsk[u].state
      BY <1>1, <3>1 DEF Records
    <3> QED BY <1>1, <2>1, <3>2 DEF Switch!Finish, Switch!Next, t
  <2> QED BY <1>8, <2>2, <2>3
<1> QED BY <1>3, <1>4, <1>5, <1>6, <1>7, <1>8 DEF Next, Switch!Next

(* A task that yields or ends gives control back to the context that ran or *)
(* resumed it last: the word at its home is the return address of that      *)
(* call, as no context above it has touched its stack.                      *)
THEOREM Refinement ==
  ASSUME Careful
  PROVE  Spec => ImplementsCoroutines
<1>1. Init => Switch!Init
  BY DEF Init, Switch!Init
<1>2. IInv /\ [Next]_vars => [Switch!Next]_(Switch!vars)
  BY StepSwitches
<1>3. IInv /\ [Next]_vars => IInv'
  BY NextIInv
<1> QED BY <1>1, <1>2, <1>3, InitIInv, PTL DEF Spec, ImplementsCoroutines, Switch!Spec

-------------------------------------------------------------------------------
(* The count at which the loop of _stkp_init ends exists: there is a        *)
(* number of nodes and frames that fit and with one more overlap.           *)
LEMMA FrmCntType == Pool!FrmCnt \in Nat
<1> DEFINE s == NodeSize + FrmSize
           q == PoolSize \div s
<1>1. s \in Nat \ {0} /\ PoolSize \in Nat
  BY TaskAssumption DEF Pool!Holds
<1>2. \A n \in Nat : Pool!Overlap(n) <=> n * s > PoolSize
  BY TaskAssumption DEF Pool!Overlap, Pool!Holds
<1>3. q \in 0 .. PoolSize /\ q * s <= PoolSize /\ PoolSize < (q + 1) * s
  BY <1>1, Quotient
<1> HIDE DEF s, q
<1>4. Pool!Overlap(q + 1)
  BY <1>1, <1>2, <1>3
<1>5. ASSUME NEW m \in 0 .. q
      PROVE  ~Pool!Overlap(m)
  <2>1. m * s <= q * s
    BY <1>1, <1>3, TimesMonotone
  <2>2. m * s \in Int /\ q * s \in Int /\ m \in Nat
    BY <1>1, <1>3
  <2> QED BY <1>1, <1>2, <1>3, <2>1, <2>2
<1>6. Pool!FrmCnt \in 0 .. PoolSize
  BY <1>3, <1>4, <1>5 DEF Pool!FrmCnt
<1> QED BY <1>1, <1>6

(* StacksExact with the type of the free list. *)
SInv == free_list \in Seq(Pool!Frames) /\ StacksExact

LEMMA InitSInv == Init => SInv
<1> SUFFICES ASSUME Init PROVE SInv
  OBVIOUS
<1> DEFINE n == Pool!FrmCnt
<1>1. n \in Nat /\ using = {} /\ alive = {} /\ free_list = [i \in 1 .. n |-> i - 1]
  BY FrmCntType DEF Init, Pool!Init
<1>2. Pool!Frames = 0 .. n - 1
  BY DEF Pool!Frames
<1> HIDE DEF n
<1>3. /\ free_list \in Seq(Pool!Frames) /\ Len(free_list) = n
      /\ \A i \in 1 .. n : free_list[i] = i - 1
  BY <1>1, <1>2
<1>4. ListsOnce(free_list, Pool!Frames)
  <2>1. \A f \in Pool!Frames : f + 1 \in 1 .. n /\ (f + 1) - 1 = f
    BY <1>1, <1>2
  <2> QED BY <1>1, <1>2, <1>3, <2>1 DEF ListsOnce
<1>5. Pool!Frames \ using = Pool!Frames
  BY <1>1
<1> QED BY <1>1, <1>3, <1>4, <1>5 DEF SInv, StacksExact

(* Frames move between the free list and the tasks that have them. *)
LEMMA CreateSInv ==
  ASSUME IInv, SInv, NEW t \in Tasks, Create(t)
  PROVE  SInv'
<1>1. PICK f \in Pool!Frames : Pool!Alloc(f) /\ tsk' = Made(t, f)
  BY DEF Create
<1>2. /\ free_list # <<>> /\ f = lst_first(free_list)
      /\ free_list' = lst_pop_front(free_list) /\ using' = using \cup {f}
      /\ t \notin alive /\ alive' = alive \cup {t}
  BY <1>1 DEF Create, Pool!Alloc, Pool!lst_empty, Pool!lst_first, Pool!lst_pop_front,
              lst_first, lst_pop_front
<1>3. /\ f \in Pool!Frames \ using /\ free_list' \in Seq(Pool!Frames)
      /\ ListsOnce(free_list', (Pool!Frames \ using) \ {f})
  BY <1>2, PopFrontOnce DEF SInv, StacksExact
<1>4. /\ tsk'[t].stk = f
      /\ \A u \in alive : tsk'[u] = tsk[u]
  <2>1. tsk \in [Tasks -> Records] /\ alive \subseteq Tasks
    BY DEF IInv, TasksSound, TypeOK
  <2>2. tsk'[t] = [tsk[t] EXCEPT !.magic = TRUE, !.state = "inited", !.stk = f]
    BY <1>1, <2>1 DEF Made
  <2>3. tsk[t] \in Records
    BY <2>1
  <2>4. tsk'[t].stk = f
    BY <2>2, <2>3 DEF Records
  <2> QED BY <1>1, <1>2, <2>1, <2>4 DEF Made
<1>5. Pool!Frames \ using' = (Pool!Frames \ using) \ {f}
  BY <1>2
<1>6. using' = {tsk'[u].stk : u \in alive'}
  BY <1>2, <1>4 DEF SInv, StacksExact
<1>7. \A u, v \in alive' : tsk'[u].stk = tsk'[v].stk => u = v
  BY <1>2, <1>3, <1>4 DEF SInv, StacksExact
<1> QED BY <1>3, <1>5, <1>6, <1>7 DEF SInv, StacksExact

LEMMA DestroySInv ==
  ASSUME Careful, IInv, SInv, NEW t \in Tasks, Destroy(t)
  PROVE  SInv'
<1> DEFINE f == tsk[t].stk
<1>1. t \in alive /\ alive' = alive \ {t} /\ tsk' = tsk
  BY DEF Destroy, Destroyable
<1>2. f \in using /\ using \subseteq Pool!Frames
  BY <1>1 DEF SInv, StacksExact, IInv, TasksSound, TypeOK
<1>3. using' = using \ {f} /\ free_list' = lst_push_front(free_list, f)
  BY <1>2 DEF Destroy, Pool!Free, Pool!lst_push_front, lst_push_front, Pool!Cons, Cons
<1>4. \A u \in alive \ {t} : tsk[u].stk # f
  BY <1>1 DEF SInv, StacksExact
<1>5. using = {tsk[u].stk : u \in alive} /\ \A u, v \in alive : tsk[u].stk = tsk[v].stk => u = v
  BY DEF SInv, StacksExact
<1> HIDE DEF f
<1>6. /\ free_list' \in Seq(Pool!Frames)
      /\ ListsOnce(free_list', (Pool!Frames \ using) \cup {f})
  BY <1>2, <1>3, PushFrontOnce DEF SInv, StacksExact
<1>7. Pool!Frames \ using' = (Pool!Frames \ using) \cup {f}
  BY <1>2, <1>3
<1>8. using' = {tsk'[u].stk : u \in alive'}
  BY <1>1, <1>3, <1>4, <1>5 DEF f
<1> QED BY <1>1, <1>5, <1>6, <1>7, <1>8 DEF SInv, StacksExact

LEMMA NextSInv == Careful /\ IInv /\ SInv /\ [Next]_vars => SInv'
<1> SUFFICES ASSUME Careful, IInv, SInv, [Next]_vars PROVE SInv'
  OBVIOUS
<1>1. CASE /\ UNCHANGED <<pool, alive>>
           /\ \A u \in alive : tsk'[u].stk = tsk[u].stk
  BY <1>1 DEF pool, SInv, StacksExact
<1>2. tsk \in [Tasks -> Records] /\ alive \subseteq Tasks
  BY DEF IInv, TasksSound, TypeOK
<1>3. CASE UNCHANGED vars \/ Call
  BY <1>1, <1>3 DEF vars, Call
<1>4. ASSUME NEW t \in Tasks, CreateNoStack(t) PROVE SInv'
  BY <1>1, <1>2, <1>4 DEF CreateNoStack, Made
<1>5. ASSUME NEW t \in Tasks, Run(t) \/ Resume(t) PROVE SInv'
  <2>1. /\ UNCHANGED <<pool, alive>>
        /\ \A u \in Tasks \ {t} : tsk'[u] = tsk[u]
    BY <1>2, <1>5 DEF Run, Resume
  <2>2. tsk'[t].stk = tsk[t].stk
    BY <1>2, <1>5 DEF Run, Resume, Records
  <2> QED BY <1>1, <1>2, <2>1, <2>2
<1>6. CASE Yield \/ Finish
  <2>1. UNCHANGED <<pool, alive>>
    BY <1>6 DEF Yield, Finish
  <2>2. PICK t \in Tasks : \/ tsk' = [tsk EXCEPT ![t].state = "waiting"]
                           \/ tsk' = [tsk EXCEPT ![t].finished = TRUE]
    BY <1>6 DEF Yield, Finish
  <2>3. \A u \in Tasks : tsk'[u].stk = tsk[u].stk
    BY <1>2, <2>2 DEF Records
  <2> QED BY <1>1, <1>2, <2>1, <2>3
<1> QED BY <1>3, <1>4, <1>5, <1>6, CreateSInv, DestroySInv DEF Next

(* Every task that utsk_create returned has a stack of its own, and all     *)
(* other stacks are in the free list, once, however often the pool ran out. *)
THEOREM StacksAlwaysExact ==
  ASSUME Careful
  PROVE  Spec => []StacksExact
<1>1. SInv => StacksExact
  BY DEF SInv
<1>2. IInv /\ [Next]_vars => IInv'
  BY NextIInv
<1>3. IInv /\ SInv /\ [Next]_vars => SInv'
  BY NextSInv
<1> QED BY <1>1, <1>2, <1>3, InitIInv, InitSInv, PTL DEF Spec
===============================================================================
