-------------------------------- MODULE Sessions --------------------------------
(***************************************************************************)
(* What a server of sessions promises to the client whose callbacks it     *)
(* calls: a session is told connected at most once, receives only between  *)
(* that and the call that tells it disconnected, with which it ends, and   *)
(* gets no call after it until its record is given to a new session.  Net  *)
(* implements it.                                                          *)
(***************************************************************************)
CONSTANTS Recs, NoCall

VARIABLES
  phase,                    \* session -> none, opening, open, closing
  calling                   \* the callback that may be running, or NoCall

Init == phase = [s \in Recs |-> "none"] /\ calling = NoCall

Moves(s, from, to) == phase[s] \in from /\ phase' = [phase EXCEPT ![s] = to]
Calls(s, c) == calling' = [ses |-> s, call |-> c]

Open(s) == Moves(s, {"none"}, "opening") /\ (Calls(s, "acc") \/ UNCHANGED calling)
Conn(s) == Moves(s, {"opening"}, "open") /\ Calls(s, "conn")
Recv(s) == phase[s] \in {"open", "closing"} /\ Calls(s, "recv") /\ UNCHANGED phase
Return == calling' = NoCall /\ UNCHANGED phase
Disconnect(s) == Moves(s, {"opening", "open"}, "closing") /\ UNCHANGED calling
Disconn(s) == Moves(s, {"opening", "open", "closing"}, "none") /\ calling' = NoCall

Next == Return \/ \E s \in Recs : \/ Open(s) \/ Conn(s) \/ Recv(s)
                                  \/ Disconnect(s) \/ Disconn(s)

Spec == Init /\ [][Next]_<<phase, calling>>
===============================================================================
