------------------------------ MODULE TimerWheel ------------------------------
(***************************************************************************)
(* The timer wheel of timer.c.  The first wheel _tv_set0 has a list of     *)
(* timers for every tick of one turn; each further wheel of _tv_set has    *)
(* lists that stand for one turn of the wheel below, and are cascaded into *)
(* it when the current tick comes to them.  The sizes of the wheels are    *)
(* parameters here, 256 and four times 64 in the code.                     *)
(*                                                                         *)
(* on_tick is the loops it consists of, one step for each timer they move  *)
(* or run, and a step for what the callback does: clients add and delete   *)
(* timers between ticks and in callbacks.  A callback neither deletes its  *)
(* own timer nor the one the loop would run next, whose links the loop has *)
(* already followed.                                                       *)
(***************************************************************************)
EXTENDS Integers, FiniteSets, DList, Powers

CONSTANTS
  Timers,         \* nodes of the timer_node_zone cache
  Delays,         \* delay_tick clients ask for
  Bits0, Bits,    \* TV_SET0_BITS, TV_SET_BITS
  Sets,           \* TV_SET_CNT
  Horizon,        \* bound: no tick after it is taken
  Careful         \* clients keep to what the wheel runs on time

SIZE0 == Power(2)[Bits0]
SIZE == Power(2)[Bits]
Span(i) == SIZE0 * Power(SIZE)[i]        \* ticks a list of _tv_set[i] stands for
Levels == 0 .. (Sets - 1)
Index(i, x) == (x \div Span(i)) % SIZE   \* bits TV_SET_MASK_IDX(i) of x
None == "none"
Tail0 == "tail"                          \* the tail sentinel of the list run

ASSUME SizeAssumption == /\ Bits0 \in Nat \ {0} /\ Bits \in Nat \ {0}
                         /\ Sets \in Nat \ {0}
                         /\ Horizon \in Nat
                         /\ Careful => Sets > 1 /\ Horizon < Span(2)
                         /\ Delays \subseteq 0 .. (Span(Sets) - 1)
                         /\ Careful \in BOOLEAN
                         /\ None \notin Timers /\ Tail0 \notin Timers

VARIABLES
  current_tick,   \* _current_tick
  set0,           \* _tv_set0: slot -> its timers, first to last
  set,            \* _tv_set: level -> slot -> its timers
  due,            \* _run_tick of the timers in use
  delay,          \* _delay_tick of those without _run_once: only they read it
  stage,          \* on_tick: the wheel it cascades, Sets when it runs timers,
                  \*   -1 between calls
  node,           \* the timer the loop of on_tick runs next, Tail0 or None
  running         \* the timer whose callback is executing, or None

wheel == <<set0, set>>
vars == <<current_tick, set0, set, due, delay, stage, node, running>>

Init ==
  /\ current_tick = 0
  /\ set0 = [s \in 0 .. (SIZE0 - 1) |-> lst_new]
  /\ set = [i \in Levels |-> [s \in 0 .. (SIZE - 1) |-> lst_new]]
  /\ due = [t \in {} |-> 0] /\ delay = [t \in {} |-> 0]
  /\ stage = -1 /\ node = None /\ running = None

Without(f, t) == [u \in DOMAIN f \ {t} |-> f[u]]
With(f, t, x) == [u \in DOMAIN f \cup {t} |-> IF u = t THEN x ELSE f[u]]

(* lst_remove_node unlinks a timer from whichever list it is in. *)
Unlinked0(t) == [s \in DOMAIN set0 |-> lst_remove(set0[s], t)]
Unlinked(t) == [i \in Levels |-> [s \in DOMAIN set[i] |-> lst_remove(set[i][s], t)]]

(* The highest wheel in which a distance of diff ticks has an index, by     *)
(* which _add_timer files a timer more than a turn of the first wheel away. *)
LevelOf(diff) == CHOOSE i \in Levels : /\ Index(i, diff) > 0
                                       /\ \A j \in Levels : j > i => Index(j, diff) = 0

(* _add_timer of t, due at tick r, to the lists s0 and s.  The distance is  *)
(* compared as an unsigned number, by which a negative one is a large one.  *)
Filed(t, r, s0, s) ==
  LET diff == r - current_tick
      i == LevelOf(diff)
      slot == (Index(i, diff) + Index(i, current_tick)) % SIZE
  IN  \/ /\ diff \in 0 .. (SIZE0 - 1)
         /\ set0' = [s0 EXCEPT ![diff] = lst_push_back(@, t)]
         /\ set' = s
      \/ /\ diff \notin 0 .. (SIZE0 - 1)
         /\ set0' = s0
         /\ set' = [s EXCEPT ![i][slot] = lst_push_back(@, t)]

-------------------------------------------------------------------------------
(* Clients call between ticks or from a callback. *)
Calling == stage = -1 \/ running # None

(* What the wheel runs on time: delays of a turn of the first wheel or more *)
(* and, at the start of a turn, shorter ones that do not repeat.  As the    *)
(* first list of a wheel after the second is never cascaded, Horizon is     *)
(* before the tick that comes to it.                                        *)
OnTime(d, o) == d >= SIZE0 \/ (stage = -1 /\ current_tick % SIZE0 = 0 /\ o)

add_timer(t, d, o) ==
  /\ Calling
  /\ t \notin DOMAIN due
  /\ Careful => OnTime(d, o)
  /\ due' = With(due, t, current_tick + d)
  /\ delay' = IF o THEN delay ELSE With(delay, t, d)
  /\ Filed(t, current_tick + d, set0, set)
  /\ UNCHANGED <<current_tick, stage, node, running>>

Deleted(t) == /\ due' = Without(due, t)
              /\ delay' = Without(delay, t)
              /\ set0' = Unlinked0(t) /\ set' = Unlinked(t)

del_timer(t) ==
  /\ Calling
  /\ t \in DOMAIN due \ {node, running}
  /\ Deleted(t)
  /\ UNCHANGED <<current_tick, stage, node, running>>

-------------------------------------------------------------------------------
(* Slips: on_tick looks one slot ahead; its loop ends after one timer. *)
Slot0Next == (current_tick + 1) % SIZE0
AfterNone(t, list) == Tail0

Slot0 == current_tick % SIZE0
After(t, list) == LET k == CHOOSE k \in 1 .. Len(list) : list[k] = t
                  IN  IF k = Len(list) THEN Tail0 ELSE list[k + 1]

TickBegin ==
  /\ stage = -1 /\ current_tick <= Horizon
  /\ stage' = 0
  /\ UNCHANGED <<current_tick, wheel, due, delay, node, running>>

(* Slip: the first list is left out for i = 0 as well. *)
CascadesSkipFirst(i) == current_tick % Span(i) = 0 /\ current_tick % Span(i + 1) # 0

(* __casade0 and __casade(i - 1): the list of wheel i that the current tick *)
(* comes to is filed again, for i > 0 unless it is the first list.          *)
Cascades(i) ==
  /\ current_tick % Span(i) = 0
  /\ IF i = 0 THEN current_tick > 0 ELSE current_tick % Span(i + 1) # 0

CascadeList == set[stage][Index(stage, current_tick)]

CascadeNode ==
  /\ stage \in Levels
  /\ Cascades(stage)
  /\ ~lst_empty(CascadeList)
  /\ LET t == lst_first(CascadeList)
     IN  Filed(t, due[t], set0,
               [set EXCEPT ![stage][Index(stage, current_tick)] = lst_pop_front(@)])
  /\ UNCHANGED <<current_tick, due, delay, stage, node, running>>

CascadeNext ==
  /\ stage \in Levels
  /\ Cascades(stage) => lst_empty(CascadeList)
  /\ stage' = stage + 1
  /\ node' = IF stage' < Sets THEN None
             ELSE IF lst_empty(set0[Slot0]) THEN Tail0 ELSE lst_first(set0[Slot0])
  /\ UNCHANGED <<current_tick, wheel, due, delay, running>>

(* The loop reads the next timer before it calls back. *)
RunCall ==
  /\ stage = Sets /\ running = None /\ node # Tail0
  /\ running' = node
  /\ node' = After(node, set0[Slot0])
  /\ UNCHANGED <<current_tick, wheel, due, delay, stage>>

(* Slip: a repeating timer is filed at this tick. *)
RunReturnNow ==
  /\ running # None
  /\ running' = None
  /\ \/ running \notin DOMAIN delay /\ Deleted(running)
     \/ /\ running \in DOMAIN delay
        /\ due' = [due EXCEPT ![running] = current_tick]
        /\ Filed(running, current_tick, Unlinked0(running), Unlinked(running))
        /\ UNCHANGED delay
  /\ UNCHANGED <<current_tick, stage, node>>

RunReturn ==
  /\ running # None
  /\ running' = None
  /\ \/ running \notin DOMAIN delay /\ Deleted(running)
     \/ /\ running \in DOMAIN delay
        /\ LET r == current_tick + delay[running]
           IN  /\ due' = [due EXCEPT ![running] = r]
               /\ Filed(running, r, Unlinked0(running), Unlinked(running))
        /\ UNCHANGED delay
  /\ UNCHANGED <<current_tick, stage, node>>

TickEnd ==
  /\ stage = Sets /\ running = None /\ node = Tail0
  /\ current_tick' = current_tick + 1
  /\ stage' = -1
  /\ node' = None
  /\ UNCHANGED <<wheel, due, delay, running>>

Next ==
  \/ \E t \in Timers, d \in Delays, o \in BOOLEAN : add_timer(t, d, o)
  \/ \E t \in Timers : del_timer(t)
  \/ TickBegin \/ CascadeNode \/ CascadeNext \/ RunCall \/ RunReturn \/ TickEnd

(* The host calls on_tick again and again, callbacks return.                *)
OnTick == TickBegin \/ CascadeNode \/ CascadeNext \/ RunCall \/ RunReturn \/ TickEnd
Spec == Init /\ [][Next]_vars
FairSpec == Spec /\ WF_vars(OnTick)

-------------------------------------------------------------------------------
TypeOK ==
  /\ current_tick \in 0 .. (Horizon + 1)
  /\ set0 \in [0 .. (SIZE0 - 1) -> Seq(Timers)]
  /\ set \in [Levels -> [0 .. (SIZE - 1) -> Seq(Timers)]]
  /\ DOMAIN due \subseteq Timers /\ due \in [DOMAIN due -> Nat]
  /\ DOMAIN delay \subseteq DOMAIN due /\ delay \in [DOMAIN delay -> Delays]
  /\ stage \in -1 .. Sets
  /\ node \in Timers \cup {Tail0, None}
  /\ running \in DOMAIN due \cup {None}

(* List s of wheel i stands for every SIZE-th turn of the wheel below.  A   *)
(* timer due at tick r waits in it for one of them, numbered turn: one that *)
(* begins at the latest at its tick, is not cascaded yet, and comes before  *)
(* the list is used for another.                                            *)
StillAhead(r, i, s) ==
  \E turn \in 1 .. (r \div Span(i)) :
    LET begin == turn * Span(i)
    IN  /\ turn % SIZE = s
        /\ r < begin + 2 * Span(i)
        /\ begin < current_tick + Span(i + 1)
        /\ current_tick < begin \/ (current_tick = begin /\ stage <= i)

In0(t) == {s \in DOMAIN set0 : \E k \in 1 .. Len(set0[s]) : set0[s][k] = t}
InSet(t) == {p \in Levels \X (0 .. (SIZE - 1)) :
               \E k \in 1 .. Len(set[p[1]][p[2]]) : set[p[1]][p[2]][k] = t}

(* A timer in use is in one list of the wheels and there once, one that is  *)
(* not in use is in none.  It waits for a tick that has not passed: in the  *)
(* first wheel at the slot of its tick, which is of the turn under way, or  *)
(* in a list further up whose turn is still to be cascaded.  So add_timer,  *)
(* del_timer, on_tick's cascades and its filing of repeating timers lose no *)
(* timer, double none and strand none in a list that was passed.            *)
WheelExact ==
  /\ TypeOK
  /\ \A t \in Timers : Cardinality(In0(t)) + Cardinality(InSet(t)) = IF t \in DOMAIN due THEN 1 ELSE 0
  /\ \A s \in DOMAIN set0 : IsInjective(set0[s])
  /\ \A i \in Levels : \A s \in DOMAIN set[i] : IsInjective(set[i][s])
  /\ \A t \in DOMAIN due :
       /\ due[t] >= current_tick
       /\ \A s \in In0(t) : /\ s = due[t] % SIZE0
                            /\ due[t] \div SIZE0 = current_tick \div SIZE0
       /\ \A p \in InSet(t) : StillAhead(due[t], p[1], p[2])

(* A timer runs at the tick it was added for: "trigger" in test_timer_func  *)
(* of test/host.c is printed when it does not.                              *)
RunsOnTime == running # None => due[running] = current_tick

(* on_tick comes to an end: it does not run timers again that its callbacks *)
(* or itself filed in the list it walks.                                    *)
OnTickEnds == stage # -1 ~> stage = -1

(* A timer due before the last tick taken runs or is deleted. *)
RunsEventually ==
  \A t \in Timers : (t \in DOMAIN due /\ due[t] <= Horizon)
                      ~> (t \notin DOMAIN due \/ running = t)

(* The wheel keeps the promise of a timer service. *)
Service == INSTANCE TimerService WITH now <- current_tick
ImplementsTimerService == Service!Spec
===============================================================================
