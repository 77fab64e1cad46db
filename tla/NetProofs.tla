------------------------------ MODULE NetProofs ------------------------------
(***************************************************************************)
(* Proofs about the network: the records, the list, the descriptors and    *)
(* the send buffers agree in every reachable state, the callbacks come in  *)
(* the order Sessions promises, and no session is closed without a reason. *)
(* Then the ring buffer, of which ipc.c makes the channels between the     *)
(* processes of one host: it is a stream of bytes.                         *)
(***************************************************************************)
EXTENDS Net, RingBuf, CommonLemmas, FiniteSetTheorems

Records == [state : {"establishing", "normal", "closing", "closed"},
            fd : Fds \cup {0}, r : 0 .. SendLen, w : 0 .. SendLen]
Bits == SUBSET {"out", "in", "err"}
Events == [of : Recs \cup {Acceptor}, todo : Bits]
Handled == [ses : Recs \cup {NoSes}, todo : Bits, got : 0 .. (RecvLen - 1),
            call : {"none", "acc", "conn", "recv"}]

(* The types, with a socket's bytes among those that have come. *)
Typed ==
  /\ net_type \in NetTypes /\ net \in {"up", "down"}
  /\ acceptor \in BOOLEAN /\ backlog \in BOOLEAN
  /\ ses \in [Recs -> Records] /\ ses_list \in Seq(Recs)
  /\ sock \in [Fds -> Sockets] /\ \A fd \in Fds : sock[fd].data <= traffic
  /\ evs \in Seq(Events) /\ at \in Handled
  /\ owed \in [Recs -> Int] /\ traffic \in 0 .. MaxTraffic

(* The open sessions are those of the list, with a socket each. *)
Kept ==
  /\ ListsOnce(ses_list, Opened)
  /\ \A s \in Opened : ses[s].fd \in Fds /\ SockOf(s).conn # "none"
  /\ \A fd \in Fds : sock[fd].conn # "none" => \E s \in Opened : ses[s].fd = fd
  /\ \A s, t \in Opened : ses[s].fd = ses[t].fd => s = t
  /\ \A s \in Recs \ Opened : ses[s] = Closed

(* What is left of a pass: one event for a session that is still open, and  *)
(* none for the session whose event is being handled.                       *)
NotNamed(s) == \A i \in 1 .. Len(evs) : evs[i].of # s
Passing ==
  /\ \A i \in 1 .. Len(evs) : evs[i].of \in Opened \cup {Acceptor}
  /\ \A i, j \in 1 .. Len(evs) : evs[i].of = evs[j].of => i = j
  /\ at # NoEvent => at.ses \in Opened /\ NotNamed(at.ses)
  /\ net = "down" => evs = <<>> /\ at = NoEvent

(* What an event collected earlier says still holds when it is handled: a  *)
(* session that is not connected is told so before it receives, and an     *)
(* error means the connection failed.                                      *)
Fresh(s, todo) ==
  /\ ses[s].state = "establishing" /\ "in" \in todo => "out" \in todo
  /\ "err" \in todo => SockOf(s).conn = "failed"

(* Nothing was written to a socket before it is connected, and its input is *)
(* shut by net_disconnect only.                                             *)
Untouched(s) ==
  /\ ses[s].state = "establishing" => ~SockOf(s).full
  /\ SockOf(s).shut => ses[s].state = "closing"

Fitting ==
  /\ \A s \in Opened : Untouched(s)
  /\ \A fd \in Fds : sock[fd].conn = "connecting" => sock[fd].data = 0 /\ ~sock[fd].eof
  /\ \A i \in 1 .. Len(evs) : evs[i].of # Acceptor => Fresh(evs[i].of, evs[i].todo)
  /\ at # NoEvent => Fresh(at.ses, at.todo)

Orderly == Typed /\ Kept /\ Passing /\ Fitting

(* The send buffers hold what is owed. *)
OwedExact == \A s \in Opened : owed[s] = Unsent(ses[s])

-------------------------------------------------------------------------------
(* NoEvent is the handling of no session. *)
LEMMA NoEventHandled ==
  /\ NoEvent \in Handled /\ NoEvent.ses = NoSes /\ NoSes \notin Recs
  /\ NoEvent.todo = {} /\ NoEvent.call = "none"
BY NetAssumption DEF NoEvent, Handled, Bits

(* A closed record has nothing to send. *)
LEMMA ClosedRecord ==
  Closed \in Records /\ Unsent(Closed) = 0 /\ Closed.state = "closed"
BY NetAssumption DEF Closed, Records, Unsent

(* What waits in a send buffer is a number of bytes. *)
LEMMA UnsentNat ==
  ASSUME NEW p \in Records
  PROVE  Unsent(p) \in Nat
BY NetAssumption DEF Records, Unsent

(* The kernel takes at most what there is. *)
LEMMA TakesSome ==
  ASSUME NEW n \in Nat, NEW c, NEW k \in Takes(c, n)
  PROVE  k \in 0 .. n
BY DEF Takes

(* Sending k bytes leaves the rest in the buffer. *)
LEMMA SentFits ==
  ASSUME NEW p \in Records, NEW k \in 0 .. Unsent(p)
  PROVE  /\ Sent(p, k) \in Records
         /\ Sent(p, k).state = p.state /\ Sent(p, k).fd = p.fd
         /\ Unsent(Sent(p, k)) = Unsent(p) - k
<1> DEFINE q == Sent(p, k)
<1>1. p.r \in 0 .. SendLen /\ p.w \in 0 .. SendLen /\ SendLen \in Nat \ {0}
  BY NetAssumption DEF Records
<1>2. k \in Nat /\ k <= IF p.r <= p.w THEN p.w - p.r ELSE SendLen - p.r + p.w
  BY <1>1 DEF Unsent
<1>3. q = [p EXCEPT !.r = IF p.r <= p.w \/ p.r + k < SendLen THEN p.r + k
                                                            ELSE p.r + k - SendLen]
  BY DEF Sent
<1>4. q \in Records /\ q.state = p.state /\ q.fd = p.fd /\ q.w = p.w
  BY <1>1, <1>2, <1>3 DEF Records
<1>5. q.r = IF p.r <= p.w \/ p.r + k < SendLen THEN p.r + k ELSE p.r + k - SendLen
  BY <1>3 DEF Records
<1> HIDE DEF q
<1>6. Unsent(q) = Unsent(p) - k
  BY <1>1, <1>2, <1>4, <1>5 DEF Unsent
<1> QED BY <1>4, <1>6 DEF q

(* net_send puts n bytes behind those that wait. *)
LEMMA WrittenFits ==
  ASSUME NEW p \in Records, NEW n \in Nat, Accepts(p, n)
  PROVE  /\ Written(p, n) \in Records
         /\ Written(p, n).state = p.state /\ Written(p, n).fd = p.fd
         /\ Unsent(p) + n < SendLen => Unsent(Written(p, n)) = Unsent(p) + n
<1> DEFINE q == Written(p, n)
<1>1. p.r \in 0 .. SendLen /\ p.w \in 0 .. SendLen /\ SendLen \in Nat \ {0}
  BY NetAssumption DEF Records
<1>2. IF p.w < p.r THEN n <= p.r - p.w ELSE p.w + n < p.r + SendLen
  BY DEF Accepts
<1>3. q = [p EXCEPT !.w = IF p.w < p.r \/ p.w + n <= SendLen THEN p.w + n
                                                            ELSE p.w + n - SendLen]
  BY DEF Written
<1>4. q \in Records /\ q.state = p.state /\ q.fd = p.fd /\ q.r = p.r
  BY <1>1, <1>2, <1>3 DEF Records
<1>5. q.w = IF p.w < p.r \/ p.w + n <= SendLen THEN p.w + n ELSE p.w + n - SendLen
  BY <1>3 DEF Records
<1> HIDE DEF q
<1>6. Unsent(p) + n < SendLen => Unsent(q) = Unsent(p) + n
  BY <1>1, <1>2, <1>4, <1>5 DEF Unsent
<1> QED BY <1>4, <1>6 DEF q

-------------------------------------------------------------------------------
(* A step that opens and closes no session, takes a session no step back,  *)
(* mends no failed connection and gives out no descriptor.                 *)
Steady ==
  /\ ses_list' = ses_list
  /\ \A t \in Recs : /\ ses'[t].fd = ses[t].fd
                     /\ ses'[t].state = "closed" <=> ses[t].state = "closed"
                     /\ ses'[t].state = "establishing" => ses[t].state = "establishing"
                     /\ ses[t].state = "closed" => ses'[t] = ses[t]
  /\ \A fd \in Fds : /\ sock'[fd].conn = "none" <=> sock[fd].conn = "none"
                     /\ sock[fd].conn = "failed" => sock'[fd].conn = "failed"

(* Such a step leaves the records, the list and the descriptors in order,  *)
(* and what was collected before it fits.                                  *)
LEMMA SteadyKeeps ==
  ASSUME Kept, Steady
  PROVE  /\ Kept' /\ Opened' = Opened
         /\ \A s \in Opened : \A todo : Fresh(s, todo) => Fresh(s, todo)'
<1>1. Opened' = Opened
  BY DEF Opened, Steady
<1>2. \A s \in Opened : s \in Recs /\ ses[s].fd \in Fds /\ ses'[s].fd = ses[s].fd
  BY DEF Kept, Opened, Steady
<1>3. ListsOnce(ses_list, Opened)'
  BY <1>1 DEF Kept, Steady, ListsOnce
<1>4. (\A s \in Opened : ses[s].fd \in Fds /\ SockOf(s).conn # "none")'
  BY <1>1, <1>2 DEF Kept, Steady, SockOf
<1>5. (\A fd \in Fds : sock[fd].conn # "none" => \E s \in Opened : ses[s].fd = fd)'
  BY <1>1, <1>2 DEF Kept, Steady
<1>6. (\A s, t \in Opened : ses[s].fd = ses[t].fd => s = t)'
  BY <1>1, <1>2 DEF Kept
<1>7. (\A s \in Recs \ Opened : ses[s] = Closed)'
  BY <1>1 DEF Kept, Steady, Opened
<1>8. \A s \in Opened : \A todo : Fresh(s, todo) => Fresh(s, todo)'
  BY <1>2 DEF Fresh, Steady, SockOf
<1> QED BY <1>1, <1>3, <1>4, <1>5, <1>6, <1>7, <1>8 DEF Kept

(* _net_close takes one session away and leaves the others as they are. *)
LEMMA CloseKeeps ==
  ASSUME Orderly, NEW s \in Opened, NotNamed(s), Close(s),
         owed' \in [Recs -> Int], UNCHANGED <<system, backlog>>,
         traffic' \in traffic .. MaxTraffic
  PROVE  Orderly' /\ Opened' = Opened \ {s}
<1> USE DEF Orderly, system
<1>1. /\ s \in Recs /\ ses[s].fd \in Fds
      /\ ses' = [ses EXCEPT ![s] = Closed] /\ ses_list' = lst_remove(ses_list, s)
      /\ sock' = [sock EXCEPT ![ses[s].fd] = NoSock] /\ at' = NoEvent /\ evs' = evs
  BY DEF Close, Kept, Opened
<1>2. Opened' = Opened \ {s}
  BY <1>1, ClosedRecord DEF Opened, Typed
<1>3. ses_list' \in Seq(Recs) /\ ListsOnce(ses_list, Opened)'
  <2>1. ses_list \in Seq(Recs) /\ ListsOnce(ses_list, Opened)
    BY DEF Typed, Kept
  <2>2. /\ lst_remove(ses_list, s) \in Seq(Recs)
        /\ ListsOnce(lst_remove(ses_list, s), Opened \ {s})
    BY <2>1, RemoveOnce
  <2> QED BY <1>1, <1>2, <2>2
<1>4. NoSock \in Sockets /\ NoSock.data = 0 /\ NoSock.conn = "none"
  BY NetAssumption DEF NoSock, Sockets
<1>5. /\ ses' \in [Recs -> Records]
      /\ \A t \in Recs \ {s} : ses'[t] = ses[t]
      /\ ses'[s] = Closed
  BY <1>1, ClosedRecord DEF Typed
<1>6. /\ sock' \in [Fds -> Sockets]
      /\ \A fd \in Fds : sock'[fd] = IF fd = ses[s].fd THEN NoSock ELSE sock[fd]
  BY <1>1, <1>4 DEF Typed
<1>7. Typed'
  <2>1. traffic \in Nat /\ MaxTraffic \in Nat /\ traffic' \in 0 .. MaxTraffic /\ traffic <= traffic'
    BY NetAssumption DEF Typed
  <2>2. \A fd \in Fds : sock'[fd].data <= traffic'
    <3> TAKE fd \in Fds
    <3>1. sock[fd].data \in Nat /\ sock[fd].data <= traffic
      BY NetAssumption DEF Typed, Sockets
    <3> QED BY <1>4, <1>6, <2>1, <3>1
  <2> QED BY <1>1, <1>3, <1>5, <1>6, <2>1, <2>2, NoEventHandled DEF Typed
<1>8. \A t \in Opened' : /\ t \in Opened /\ t # s /\ ses'[t] = ses[t]
                         /\ ses[t].fd \in Fds /\ ses[t].fd # ses[s].fd
                         /\ SockOf(t)' = SockOf(t)
  BY <1>1, <1>2, <1>5, <1>6 DEF Kept, Opened, SockOf
<1>9. Kept'
  <2>1. (\A t \in Opened : ses[t].fd \in Fds /\ SockOf(t).conn # "none")'
    BY <1>8 DEF Kept
  <2>2. (\A fd \in Fds : sock[fd].conn # "none" => \E t \in Opened : ses[t].fd = fd)'
    <3> SUFFICES ASSUME NEW fd \in Fds, sock'[fd].conn # "none"
                 PROVE  \E t \in Opened' : ses'[t].fd = fd
      OBVIOUS
    <3>1. fd # ses[s].fd /\ sock[fd].conn # "none"
      BY <1>4, <1>6
    <3>2. PICK t \in Opened : ses[t].fd = fd
      BY <3>1 DEF Kept
    <3> QED BY <1>2, <1>8, <3>1, <3>2
  <2>3. (\A t, u \in Opened : ses[t].fd = ses[u].fd => t = u)'
    BY <1>8 DEF Kept
  <2>4. (\A t \in Recs \ Opened : ses[t] = Closed)'
    BY <1>2, <1>5 DEF Kept
  <2> QED BY <1>3, <2>1, <2>2, <2>3, <2>4 DEF Kept
<1>10. Passing'
  BY <1>1, <1>2 DEF Passing, NotNamed
<1>11. Fitting'
  <2>1. (\A t \in Opened : Untouched(t))'
    BY <1>8 DEF Fitting, Untouched
  <2>2. (\A fd \in Fds : sock[fd].conn = "connecting" => sock[fd].data = 0 /\ ~sock[fd].eof)'
    BY <1>4, <1>6 DEF Fitting
  <2>3. (\A i \in 1 .. Len(evs) : evs[i].of # Acceptor => Fresh(evs[i].of, evs[i].todo))'
    BY <1>1, <1>2, <1>8 DEF Fitting, Fresh, Passing, NotNamed
  <2> QED BY <1>1, <2>1, <2>2, <2>3 DEF Fitting
<1> QED BY <1>2, <1>7, <1>9, <1>10, <1>11

(* _net_create_session adds one session with a descriptor of its own. *)
LEMMA NewKeeps ==
  ASSUME Orderly, NEW s \in Recs, NEW conn \in {"connecting", "up"}, NewSession(s, conn)
  PROVE  /\ s \notin Opened /\ Opened' = Opened \cup {s} /\ Kept'
         /\ ses' \in [Recs -> Records] /\ ses_list' \in Seq(Recs)
         /\ sock' \in [Fds -> Sockets] /\ \A fd \in Fds : sock'[fd].data <= traffic
         /\ owed' = [owed EXCEPT ![s] = 0] /\ owed' \in [Recs -> Int]
         /\ ses' = [ses EXCEPT ![s] = ses'[s]]
         /\ ses'[s].state = "establishing" /\ Unsent(ses'[s]) = 0
         /\ \A t \in Opened : \A todo : Fresh(t, todo) => Fresh(t, todo)'
         /\ (\A t \in Opened : Untouched(t))'
         /\ (\A fd \in Fds : sock[fd].conn = "connecting" => sock[fd].data = 0 /\ ~sock[fd].eof)'
<1> USE DEF Orderly
<1> DEFINE q(fd) == [Closed EXCEPT !.state = "establishing", !.fd = fd]
           c == [NoSock EXCEPT !.conn = conn, !.edge = Woken]
<1>1. PICK fd \in Fds : /\ NewFd(fd) /\ ses' = [ses EXCEPT ![s] = q(fd)]
                        /\ sock' = [sock EXCEPT ![fd] = c]
  BY DEF NewSession
<1>2. s \notin Opened /\ ses_list' = lst_push_back(ses_list, s) /\ owed' = [owed EXCEPT ![s] = 0]
  BY DEF NewSession
<1>3. sock[fd].conn = "none"
  BY <1>1 DEF NewFd, FreeFds
<1>4. /\ q(fd) \in Records /\ q(fd).state = "establishing" /\ q(fd).fd = fd
      /\ Unsent(q(fd)) = 0
  <2>1. Closed \in Records /\ Closed.r = 0 /\ Closed.w = 0
    BY NetAssumption DEF Closed, Records
  <2>2. q(fd) \in Records /\ q(fd).state = "establishing" /\ q(fd).fd = fd /\ q(fd).r = 0 /\ q(fd).w = 0
    BY <2>1 DEF Records
  <2> QED BY <2>2 DEF Unsent
<1>5. /\ c \in Sockets /\ c.data = 0 /\ c.conn = conn /\ c.conn # "none" /\ c.conn # "failed"
      /\ ~c.full /\ ~c.shut /\ ~c.eof
  <2>1. Woken \in BOOLEAN /\ 0 \in 0 .. MaxTraffic
    BY NetAssumption DEF Woken
  <2>2. NoSock \in Sockets /\ NoSock.data = 0 /\ ~NoSock.full /\ ~NoSock.shut /\ ~NoSock.eof
    BY <2>1 DEF NoSock, Sockets
  <2> QED BY <2>1, <2>2 DEF Sockets
<1> HIDE DEF q, c
<1>6. /\ ses' \in [Recs -> Records] /\ ses'[s] = q(fd)
      /\ \A t \in Recs \ {s} : ses'[t] = ses[t]
  BY <1>1, <1>4 DEF Typed
<1>7. /\ sock' \in [Fds -> Sockets]
      /\ \A e \in Fds : sock'[e] = IF e = fd THEN c ELSE sock[e]
  BY <1>1, <1>5 DEF Typed
<1>8. Opened' = Opened \cup {s}
  BY <1>4, <1>6 DEF Opened
<1>9. ses_list' \in Seq(Recs) /\ ListsOnce(ses_list, Opened)'
  <2>1. ses_list \in Seq(Recs) /\ ListsOnce(ses_list, Opened)
    BY DEF Typed, Kept
  <2>2. /\ lst_push_back(ses_list, s) \in Seq(Recs)
        /\ ListsOnce(lst_push_back(ses_list, s), Opened \cup {s})
    BY <1>2, <2>1, PushBackOnce
  <2> QED BY <1>2, <1>8, <2>2
<1>10. \A t \in Opened : /\ t \in Recs /\ t # s /\ ses'[t] = ses[t]
                         /\ ses[t].fd \in Fds /\ ses[t].fd # fd
                         /\ SockOf(t)' = SockOf(t)
  BY <1>2, <1>3, <1>6, <1>7 DEF Kept, Opened, SockOf
<1>11. SockOf(s)' = c /\ ses'[s].fd = fd
  BY <1>4, <1>6, <1>7 DEF SockOf
<1>12. Kept'
  <2>1. (\A t \in Opened : ses[t].fd \in Fds /\ SockOf(t).conn # "none")'
    BY <1>5, <1>8, <1>10, <1>11 DEF Kept
  <2>2. (\A e \in Fds : sock[e].conn # "none" => \E t \in Opened : ses[t].fd = e)'
    BY <1>7, <1>8, <1>10, <1>11 DEF Kept
  <2>3. (\A t, u \in Opened : ses[t].fd = ses[u].fd => t = u)'
    BY <1>8, <1>10, <1>11 DEF Kept
  <2>4. (\A t \in Recs \ Opened : ses[t] = Closed)'
    BY <1>6, <1>8 DEF Kept
  <2> QED BY <1>9, <2>1, <2>2, <2>3, <2>4 DEF Kept
<1>13. \A e \in Fds : sock'[e].data <= traffic
  BY <1>5, <1>7, NetAssumption DEF Typed
<1>14. \A t \in Opened : \A todo : Fresh(t, todo) => Fresh(t, todo)'
  BY <1>10 DEF Fresh
<1>15. (\A t \in Opened : Untouched(t))'
  BY <1>5, <1>8, <1>10, <1>11 DEF Fitting, Untouched
<1>16. (\A e \in Fds : sock[e].conn = "connecting" => sock[e].data = 0 /\ ~sock[e].eof)'
  BY <1>5, <1>7 DEF Fitting
<1>17. ses' = [ses EXCEPT ![s] = ses'[s]]
  BY <1>1, <1>6
<1>18. owed' \in [Recs -> Int]
  BY <1>2, 0 \in Int DEF Typed
<1> QED BY <1>2, <1>4, <1>6, <1>7, <1>8, <1>9, <1>12, <1>13, <1>14, <1>15, <1>16, <1>17, <1>18

(* What comes of _net_try_send_all: it closes the session, with its         *)
(* connection failed or with all sent, or it sends some.                    *)
Sends(s, p, c, accepted, next) ==
  \/ /\ Close(s) /\ Opened' = Opened \ {s}
     /\ \/ c.conn = "failed" /\ owed' = owed
        \/ /\ p.state = "closing"
           /\ owed' = [owed EXCEPT ![s] = @ + accepted - Unsent(p)]
  \/ /\ Opened' = Opened /\ at' = next
     /\ \E k \in 0 .. Unsent(p) : /\ owed' = [owed EXCEPT ![s] = @ + accepted - k]
                                 /\ ses' = [ses EXCEPT ![s] = Sent(p, k)]

(* _net_try_send_all keeps the order, when it is called for a session that *)
(* no event still names, and goes on with a handler that fits.             *)
LEMMA SendAllKeeps ==
  ASSUME Orderly, NEW s \in Opened, NotNamed(s),
         NEW p \in Records, p.fd = ses[s].fd, p.state \in {"normal", "closing"},
         NEW c \in Sockets, c.conn = SockOf(s).conn, c.data = SockOf(s).data,
         c.eof = SockOf(s).eof, c.shut => p.state = "closing",
         NEW accepted \in Nat,
         NEW next \in Handled, next # NoEvent => /\ next.ses \in Opened /\ NotNamed(next.ses)
                                                /\ Fresh(next.ses, next.todo),
         net = "up", SendAll(s, p, c, accepted, next),
         UNCHANGED <<system, backlog>>, traffic' \in traffic .. MaxTraffic
  PROVE  Orderly' /\ Sends(s, p, c, accepted, next)
<1> USE DEF Orderly
<1> DEFINE n == Unsent(p)
<1>1. n \in Nat /\ s \in Recs /\ ses[s].fd \in Fds
  BY UnsentNat DEF Kept, Opened
<1>2. CASE Drop(s) /\ c.conn = "failed"
  <2>1. Close(s) /\ owed' = owed
    BY <1>2 DEF Drop
  <2>2. owed' \in [Recs -> Int]
    BY <2>1 DEF Typed
  <2> QED BY <1>2, <2>1, <2>2, CloseKeeps DEF Sends
<1>3. ASSUME NEW k \in Takes(c, n), owed' = [owed EXCEPT ![s] = @ + accepted - k],
             p.state = "closing", k = n, Close(s)
      PROVE  /\ Orderly' /\ Opened' = Opened \ {s}
             /\ owed' = [owed EXCEPT ![s] = @ + accepted - Unsent(p)]
  <2>1. owed' \in [Recs -> Int]
    BY <1>1, <1>3 DEF Typed
  <2> QED BY <1>3, <2>1, CloseKeeps
<1>4. ASSUME NEW k \in Takes(c, n), owed' = [owed EXCEPT ![s] = @ + accepted - k],
             ses' = [ses EXCEPT ![s] = Sent(p, k)],
             sock' = [sock EXCEPT ![p.fd] = [c EXCEPT !.full = @ \/ k < n]],
             at' = next, UNCHANGED <<ses_list, evs>>
      PROVE  Orderly' /\ Opened' = Opened /\ k \in 0 .. n
  <2> DEFINE q == Sent(p, k)
             d == [c EXCEPT !.full = @ \/ k < n]
  <2>1. k \in 0 .. n
    BY <1>1, TakesSome
  <2>2. q \in Records /\ q.state = p.state /\ q.fd = ses[s].fd
    BY <2>1, SentFits
  <2>3. d \in Sockets /\ d.conn = c.conn /\ d.data = c.data /\ d.eof = c.eof
    BY DEF Sockets
  <2> HIDE DEF q, d, n
  <2>4. /\ ses' \in [Recs -> Records] /\ ses'[s] = q
        /\ \A t \in Recs \ {s} : ses'[t] = ses[t]
    BY <1>1, <1>4, <2>2 DEF Typed, q
  <2>5. /\ sock' \in [Fds -> Sockets]
        /\ \A fd \in Fds : sock'[fd] = IF fd = ses[s].fd THEN d ELSE sock[fd]
    BY <1>1, <1>4, <2>3 DEF Typed, d
  <2>6. \A fd \in Fds : /\ sock'[fd].conn = sock[fd].conn
                        /\ sock'[fd].data = sock[fd].data
                        /\ sock'[fd].eof = sock[fd].eof
    BY <2>3, <2>5 DEF SockOf
  <2>7. Steady
    BY <1>4, <2>2, <2>4, <2>6 DEF Steady, Opened
  <2>8. /\ Kept' /\ Opened' = Opened
        /\ \A t \in Opened : \A todo : Fresh(t, todo) => Fresh(t, todo)'
    BY <2>7, SteadyKeeps
  <2>9. Typed'
    <3>1. traffic \in Nat /\ MaxTraffic \in Nat /\ traffic' \in 0 .. MaxTraffic /\ traffic <= traffic'
      BY NetAssumption DEF Typed
    <3>2. \A fd \in Fds : sock'[fd].data <= traffic'
      <4> TAKE fd \in Fds
      <4>1. sock[fd].data \in Nat /\ sock[fd].data <= traffic
        BY NetAssumption DEF Typed, Sockets
      <4> QED BY <2>6, <3>1, <4>1
    <3>3. owed' \in [Recs -> Int]
      BY <1>1, <1>4, <2>1 DEF Typed
    <3> QED BY <1>4, <2>4, <2>5, <3>1, <3>2, <3>3 DEF Typed, system
  <2>10. Passing'
    BY <1>4, <2>8 DEF Passing, NotNamed, system
  <2>11. Fitting'
    <3>1. (\A t \in Opened : Untouched(t))'
      <4> SUFFICES ASSUME NEW t \in Opened PROVE Untouched(t)'
        BY <2>8
      <4>1. t \in Recs /\ ses[t].fd \in Fds
        BY DEF Opened, Kept
      <4>2. CASE t = s
        <5>1. ses'[s] = q /\ SockOf(s)' = d /\ d.shut = c.shut
          BY <1>1, <2>2, <2>4, <2>5 DEF SockOf, d, Sockets
        <5> QED BY <2>2, <4>2, <5>1 DEF Untouched
      <4>3. CASE t # s
        <5>1. ses'[t] = ses[t] /\ SockOf(t)' = SockOf(t)
          BY <2>4, <2>5, <4>1, <4>3 DEF SockOf, Kept
        <5> QED BY <5>1 DEF Untouched, Fitting
      <4> QED BY <4>2, <4>3
    <3>2. (\A fd \in Fds : sock[fd].conn = "connecting" => sock[fd].data = 0 /\ ~sock[fd].eof)'
      BY <2>6 DEF Fitting
    <3>3. (\A i \in 1 .. Len(evs) : evs[i].of # Acceptor => Fresh(evs[i].of, evs[i].todo))'
      BY <1>4, <2>8 DEF Fitting, Passing
    <3>4. (at # NoEvent => Fresh(at.ses, at.todo))'
      BY <1>4, <2>8
    <3> QED BY <3>1, <3>2, <3>3, <3>4 DEF Fitting
  <2> QED BY <2>1, <2>8, <2>9, <2>10, <2>11
<1>5. \/ Drop(s) /\ c.conn = "failed"
      \/ \E k \in Takes(c, n) :
             /\ owed' = [owed EXCEPT ![s] = @ + accepted - k]
             /\ \/ p.state = "closing" /\ k = n /\ Close(s)
                \/ /\ ses' = [ses EXCEPT ![s] = Sent(p, k)]
                   /\ sock' = [sock EXCEPT ![p.fd] = [c EXCEPT !.full = @ \/ k < n]]
                   /\ at' = next
                   /\ UNCHANGED <<ses_list, evs>>
  BY DEF SendAll
<1> QED BY <1>2, <1>3, <1>4, <1>5 DEF Drop, Sends

-------------------------------------------------------------------------------
(* While an event is handled or a callback runs, its session is open. *)
LEMMA Handling ==
  ASSUME Orderly, at.todo # {} \/ at.call # "none"
  PROVE  /\ at # NoEvent /\ at.ses \in Opened /\ NotNamed(at.ses)
         /\ Fresh(at.ses, at.todo) /\ net = "up"
BY NoEventHandled DEF Orderly, Typed, Passing, Fitting

(* What an open session has. *)
LEMMA OpenHas ==
  ASSUME Orderly, NEW s \in Opened
  PROVE  /\ s \in Recs /\ ses[s] \in Records /\ ses[s].fd \in Fds /\ SockOf(s) \in Sockets
         /\ ses[s].state \in {"establishing", "normal", "closing"}
<1>1. s \in Recs /\ ses[s] \in Records /\ ses[s].state # "closed" /\ ses[s].fd \in Fds
  BY DEF Orderly, Typed, Kept, Opened
<1> QED BY <1>1 DEF Orderly, Typed, SockOf, Records

(* The client calls for a session that no event still names. *)
LEMMA CallsFor ==
  ASSUME Orderly, NEW s \in Recs, MayCall(s)
  PROVE  s \in Opened /\ NotNamed(s) /\ net = "up"
<1>1. CASE Idle
  BY <1>1 DEF MayCall, Idle, NotNamed
<1>2. CASE at.call # "none" /\ at.ses = s
  BY <1>2, Handling DEF MayCall
<1> QED BY <1>1, <1>2 DEF MayCall

(* The loop leaves the handler of k behind. *)
LEMMA DoneKeeps ==
  ASSUME Orderly, NEW k \in at.todo
  PROVE  /\ Done(k) \in Handled /\ Done(k).call = "none"
         /\ Done(k) # NoEvent => Done(k).ses = at.ses /\ Done(k).todo = at.todo \ {k}
<1>1. at \in Handled /\ 0 \in 0 .. (RecvLen - 1)
  BY NetAssumption DEF Orderly, Typed
<1>2. CASE at.todo = {k}
  BY <1>2, NoEventHandled DEF Done
<1>3. CASE at.todo # {k}
  <2>1. Done(k) = [at EXCEPT !.todo = @ \ {k}, !.got = 0, !.call = "none"]
    BY <1>3 DEF Done
  <2>2. at.todo \ {k} \in Bits
    BY <1>1 DEF Handled, Bits
  <2> QED BY <1>1, <2>1, <2>2 DEF Handled
<1> QED BY <1>2, <1>3

(* What an event leaves to be done holds as it did. *)
LEMMA FreshLess ==
  ASSUME NEW s, NEW todo, NEW k, Fresh(s, todo),
         k = "out" => ses[s].state # "establishing"
  PROVE  Fresh(s, todo \ {k})
BY DEF Fresh

(* net_send *)
LEMMA SendKeeps ==
  ASSUME Orderly, NEW s \in Recs, NEW n \in DataLens, Send(s, n)
  PROVE  /\ Orderly' /\ s \in Opened /\ Written(ses[s], n) \in Records
         /\ Written(ses[s], n).state = "normal" /\ Written(ses[s], n).fd = ses[s].fd
         /\ Sends(s, Written(ses[s], n), SockOf(s), n, at)
<1>1. s \in Opened /\ NotNamed(s) /\ net = "up"
  BY CallsFor DEF Send
<1>2. /\ ses[s] \in Records /\ SockOf(s) \in Sockets /\ at \in Handled
      /\ n \in Nat /\ traffic' = traffic + 1 /\ traffic < MaxTraffic /\ traffic \in Nat
  <2>1. ses[s] \in Records /\ SockOf(s) \in Sockets /\ at \in Handled
    BY <1>1, OpenHas DEF Orderly, Typed
  <2>2. traffic < MaxTraffic /\ traffic' = traffic + 1
    BY DEF Send, Counted
  <2> QED BY <2>1, <2>2, NetAssumption DEF Orderly, Typed
<1>3. /\ Written(ses[s], n) \in Records /\ Written(ses[s], n).state = "normal"
      /\ Written(ses[s], n).fd = ses[s].fd
  BY <1>2, WrittenFits DEF Send
<1>4. at # NoEvent => /\ at.ses \in Opened /\ NotNamed(at.ses) /\ Fresh(at.ses, at.todo)
  BY DEF Orderly, Passing, Fitting
<1>5. /\ SendAll(s, Written(ses[s], n), SockOf(s), n, at)
      /\ UNCHANGED <<system, backlog>> /\ traffic' \in traffic .. MaxTraffic
  BY <1>2, NetAssumption DEF Send
<1>6. ~SockOf(s).shut
  BY <1>1 DEF Send, Orderly, Fitting, Untouched
<1> QED BY <1>1, <1>2, <1>3, <1>4, <1>5, <1>6, SendAllKeeps

(* net_disconnect *)
LEMMA DisconnectKeeps ==
  ASSUME Orderly, NEW s \in Recs, Disconnect(s)
  PROVE  /\ Orderly' /\ s \in Opened
         /\ \E p \in Records, c \in Sockets :
              /\ p = [ses[s] EXCEPT !.state = "closing"] /\ c.conn = SockOf(s).conn
              /\ Sends(s, p, c, 0, at)
<1> DEFINE p == [ses[s] EXCEPT !.state = "closing"]
           c == [SockOf(s) EXCEPT !.shut = TRUE, !.edge = Woken]
<1>1. s \in Opened /\ NotNamed(s) /\ net = "up"
  BY CallsFor DEF Disconnect
<1>2. /\ ses[s] \in Records /\ SockOf(s) \in Sockets /\ at \in Handled
      /\ traffic' = traffic /\ traffic \in 0 .. MaxTraffic
  BY <1>1, OpenHas DEF Orderly, Typed, Disconnect
<1>3. p \in Records /\ p.state = "closing" /\ p.fd = ses[s].fd
  BY <1>2 DEF Records
<1>4. /\ c \in Sockets /\ c.conn = SockOf(s).conn /\ c.data = SockOf(s).data
      /\ c.eof = SockOf(s).eof
  BY <1>2 DEF Sockets, Woken
<1>5. at # NoEvent => /\ at.ses \in Opened /\ NotNamed(at.ses) /\ Fresh(at.ses, at.todo)
  BY DEF Orderly, Passing, Fitting
<1>6. /\ SendAll(s, p, c, 0, at) /\ UNCHANGED <<system, backlog>>
      /\ traffic' \in traffic .. MaxTraffic
  BY <1>2, NetAssumption DEF Disconnect
<1> HIDE DEF p, c
<1>7. Orderly' /\ Sends(s, p, c, 0, at)
  BY <1>1, <1>2, <1>3, <1>4, <1>5, <1>6, SendAllKeeps
<1> QED BY <1>1, <1>3, <1>4, <1>7 DEF p

(* _net_on_send of a session that is connected. *)
LEMMA OnSendKeeps ==
  ASSUME Orderly, OnSend
  PROVE  /\ Orderly' /\ at.ses \in Opened
         /\ Sends(at.ses, ses[at.ses], SockOf(at.ses), 0, Done("out"))
         /\ Done("out").call = "none"
<1> DEFINE s == at.ses
<1>1. /\ "out" \in at.todo /\ s \in Opened /\ NotNamed(s) /\ Fresh(s, at.todo)
      /\ net = "up" /\ ses[s].state # "establishing"
  BY Handling DEF OnSend, Doing
<1>2. /\ ses[s] \in Records /\ SockOf(s) \in Sockets /\ traffic' = traffic
      /\ traffic \in 0 .. MaxTraffic /\ ses[s].state \in {"normal", "closing"}
  BY <1>1, OpenHas DEF Orderly, Typed, OnSend
<1>3. /\ Done("out") \in Handled
      /\ Done("out") # NoEvent => /\ Done("out").ses \in Opened /\ NotNamed(Done("out").ses)
                                 /\ Fresh(Done("out").ses, Done("out").todo)
  <2>1. Fresh(s, at.todo \ {"out"})
    BY <1>1, FreshLess
  <2> QED BY <1>1, <2>1, DoneKeeps
<1>4. /\ SendAll(s, ses[s], SockOf(s), 0, Done("out"))
      /\ UNCHANGED <<system, backlog>> /\ traffic' \in traffic .. MaxTraffic
  BY <1>2, NetAssumption DEF OnSend
<1>5. Done("out").call = "none" /\ (SockOf(s).shut => ses[s].state = "closing")
  BY <1>1, DoneKeeps DEF Orderly, Fitting, Untouched
<1> HIDE DEF s
<1>6. Orderly' /\ Sends(s, ses[s], SockOf(s), 0, Done("out"))
  BY <1>1, <1>2, <1>3, <1>4, <1>5, SendAllKeeps
<1> QED BY <1>1, <1>5, <1>6 DEF s

(* net_connect *)
LEMMA ConnectKeeps ==
  ASSUME Orderly, NEW s \in Recs, Connect(s)
  PROVE  Orderly'
<1>1. /\ NewSession(s, "connecting") /\ evs = <<>> /\ net = "up"
      /\ UNCHANGED <<net_type, net, acceptor, backlog, evs, at, traffic>>
  BY DEF Connect, Idle, system, pass
<1>2. Typed'
  BY <1>1, NewKeeps DEF Orderly, Typed
<1>3. Passing'
  BY <1>1, NewKeeps DEF Orderly, Passing, NotNamed
<1>4. Fitting'
  BY <1>1, NewKeeps DEF Orderly, Passing, Fitting
<1> QED BY <1>1, <1>2, <1>3, <1>4, NewKeeps DEF Orderly

(* _net_on_acc *)
LEMMA AcceptKeeps ==
  ASSUME Orderly, Accept
  PROVE  Orderly'
<1>1. /\ evs # <<>> /\ evs \in Seq(Events) /\ evs' = Tail(evs) /\ net = "up"
      /\ UNCHANGED <<net_type, net, acceptor, traffic>>
  BY DEF Orderly, Typed, Accept, NextEvent, system
<1>2. /\ evs' \in Seq(Events) /\ Len(evs') = Len(evs) - 1 /\ Len(evs) \in Nat
      /\ \A i \in 1 .. Len(evs') : evs'[i] = evs[i + 1] /\ i + 1 \in 1 .. Len(evs)
  BY <1>1, HeadTailProperties
<1>3. /\ \A i \in 1 .. Len(evs') : evs'[i].of \in Opened \cup {Acceptor}
      /\ \A i, j \in 1 .. Len(evs') : evs'[i].of = evs'[j].of => i = j
  BY <1>2 DEF Orderly, Passing
<1>4. CASE at' = NoEvent /\ UNCHANGED <<backlog, session, sock>>
  <2>1. Steady
    BY <1>4 DEF Steady, session
  <2>2. Kept' /\ Opened' = Opened
    BY <2>1, SteadyKeeps DEF Orderly
  <2>3. Typed'
    BY <1>1, <1>2, <1>4, NoEventHandled DEF Orderly, Typed, session
  <2>4. Passing'
    BY <1>1, <1>3, <1>4, <2>2 DEF Passing
  <2>5. Fitting'
    BY <1>2, <1>4, <2>2 DEF Orderly, Fitting, Untouched, Fresh, session, SockOf
  <2> QED BY <2>2, <2>3, <2>4, <2>5 DEF Orderly
<1>5. ASSUME NEW s \in Recs, NewSession(s, "up"), backlog' = FALSE,
             at' = [NoEvent EXCEPT !.ses = s, !.call = "acc"]
      PROVE  Orderly'
  <2>1. at' \in Handled /\ at'.ses = s /\ at'.todo = {}
    BY <1>5, NoEventHandled DEF Handled
  <2>2. Typed'
    BY <1>1, <1>2, <1>5, <2>1, NewKeeps DEF Orderly, Typed
  <2>3. s \notin Opened /\ Opened' = Opened \cup {s} /\ Kept' /\ s # Acceptor
    BY <1>5, NewKeeps, NetAssumption
  <2>4. Passing'
    BY <1>1, <1>3, <2>1, <2>3 DEF Passing, NotNamed
  <2>5. (\A i \in 1 .. Len(evs) : evs[i].of # Acceptor => Fresh(evs[i].of, evs[i].todo))'
    BY <1>2, <1>3, <1>5, NewKeeps DEF Orderly, Fitting
  <2>6. Fitting'
    BY <1>5, <2>1, <2>5, NewKeeps DEF Fitting, Fresh
  <2> QED BY <2>2, <2>3, <2>4, <2>6 DEF Orderly
<1> QED BY <1>4, <1>5 DEF Accept

(* A step that leaves the records, the sockets and the pass alone. *)
LEMMA QuietKeeps ==
  ASSUME Orderly, UNCHANGED <<net_type, session, sock, traffic>>,
         net' \in {"up", "down"}, acceptor' \in BOOLEAN, backlog' \in BOOLEAN,
         evs' = evs, at' \in {at, NoEvent},
         net' = "down" => evs = <<>> /\ at' = NoEvent
  PROVE  Orderly'
<1>1. Steady
  BY DEF Steady, session
<1>2. /\ Kept' /\ Opened' = Opened
      /\ \A s \in Opened : \A todo : Fresh(s, todo) => Fresh(s, todo)'
  BY <1>1, SteadyKeeps DEF Orderly
<1>3. Typed'
  BY NoEventHandled DEF Orderly, Typed, session
<1>4. Passing'
  BY <1>2 DEF Orderly, Passing, NotNamed
<1>5. Fitting'
  <2>1. (\A s \in Opened : Untouched(s))'
    BY <1>2 DEF Orderly, Fitting, Untouched, SockOf, session
  <2>2. (\A i \in 1 .. Len(evs) : evs[i].of # Acceptor => Fresh(evs[i].of, evs[i].todo))'
    BY <1>2 DEF Orderly, Fitting, Passing
  <2>3. (at # NoEvent => Fresh(at.ses, at.todo))'
    BY <1>2 DEF Orderly, Fitting, Passing
  <2> QED BY <2>1, <2>2, <2>3 DEF Orderly, Fitting
<1> QED BY <1>2, <1>3, <1>4, <1>5 DEF Orderly

(* The calls and the peers that concern the net and its acceptor only. *)
LEMMA ClientQuietKeeps ==
  ASSUME Orderly, Listen \/ DestroyAcceptor \/ Destroy \/ Create \/ PeerConnects
  PROVE  Orderly'
<1>1. CASE Listen
  BY <1>1, QuietKeeps DEF Listen, Orderly, Typed, Passing, pass
<1>2. CASE DestroyAcceptor
  BY <1>2, QuietKeeps DEF DestroyAcceptor, Orderly, Typed, Passing, pass
<1>3. CASE Destroy
  BY <1>3, QuietKeeps DEF Destroy, Idle, Orderly, Typed, Passing
<1>4. CASE Create
  BY <1>4, QuietKeeps DEF Create, Orderly, Typed, Passing, pass
<1>5. CASE PeerConnects
  BY <1>5, QuietKeeps DEF PeerConnects, Orderly, Typed, Passing, pass, system
<1> QED BY <1>1, <1>2, <1>3, <1>4, <1>5

(* _net_close with what was not sent. *)
LEMMA DropKeeps ==
  ASSUME Orderly, NEW s \in Opened, NotNamed(s), Drop(s), UNCHANGED <<system, backlog, traffic>>
  PROVE  Orderly' /\ Opened' = Opened \ {s}
<1>1. Close(s) /\ owed' = owed
  BY DEF Drop
<1>2. owed \in [Recs -> Int] /\ traffic \in 0 .. MaxTraffic
  BY DEF Orderly, Typed
<1>3. owed' \in [Recs -> Int]
  BY <1>1, <1>2
<1>4. traffic' \in traffic .. MaxTraffic
  BY <1>2, NetAssumption
<1> QED BY <1>1, <1>3, <1>4, CloseKeeps

(* A round of net_destroy takes the first session of the list. *)
LEMMA DestroySessionKeeps ==
  ASSUME Orderly, DestroySession
  PROVE  Orderly' /\ lst_first(ses_list) \in Opened /\ Opened' = Opened \ {lst_first(ses_list)}
<1>1. /\ net = "down" /\ ses_list # <<>> /\ Drop(lst_first(ses_list))
      /\ UNCHANGED <<system, backlog, traffic>>
  BY DEF DestroySession, lst_empty
<1>2. lst_first(ses_list) \in Opened
  BY <1>1, PopFrontOnce DEF Orderly, Typed, Kept
<1>3. NotNamed(lst_first(ses_list))
  BY <1>1 DEF Orderly, Passing, NotNamed
<1> QED BY <1>1, <1>2, <1>3, DropKeeps

(* The kernel or a peer changes one socket. *)
LEMMA HappensKeeps ==
  ASSUME Orderly, NEW fd \in Fds, sock[fd].conn \in {"connecting", "up"},
         NEW c \in Sockets, c.conn \in {"up", "failed"},
         c.full => sock[fd].full, c.shut => sock[fd].shut,
         c.data <= traffic', traffic' \in traffic .. MaxTraffic, Happens(fd, c)
  PROVE  Orderly' /\ Opened' = Opened
<1> DEFINE d == [c EXCEPT !.edge = Woken]
<1>1. /\ sock' = [sock EXCEPT ![fd] = d]
      /\ UNCHANGED <<net_type, net, acceptor, backlog, ses, ses_list, owed, evs, at>>
  BY DEF Happens, system, session, pass
<1>2. /\ d \in Sockets /\ d.conn = c.conn /\ d.full = c.full /\ d.shut = c.shut
      /\ d.data = c.data
  BY DEF Sockets, Woken
<1> HIDE DEF d
<1>3. /\ sock' \in [Fds -> Sockets]
      /\ \A e \in Fds : sock'[e] = IF e = fd THEN d ELSE sock[e]
  BY <1>1, <1>2 DEF Orderly, Typed
<1>4. Steady
  BY <1>1, <1>2, <1>3 DEF Steady
<1>5. /\ Kept' /\ Opened' = Opened
      /\ \A s \in Opened : \A todo : Fresh(s, todo) => Fresh(s, todo)'
  BY <1>4, SteadyKeeps DEF Orderly
<1>6. Typed'
  <2>1. traffic \in Nat /\ MaxTraffic \in Nat /\ traffic' \in 0 .. MaxTraffic /\ traffic <= traffic'
    BY NetAssumption DEF Orderly, Typed
  <2>2. \A e \in Fds : sock'[e].data <= traffic'
    <3> TAKE e \in Fds
    <3>1. sock[e].data \in Nat /\ sock[e].data <= traffic
      BY NetAssumption DEF Orderly, Typed, Sockets
    <3> QED BY <1>2, <1>3, <2>1, <3>1
  <2> QED BY <1>1, <1>3, <2>1, <2>2 DEF Orderly, Typed
<1>7. Passing'
  BY <1>1, <1>5 DEF Orderly, Passing, NotNamed
<1>8. Fitting'
  <2>1. (\A s \in Opened : Untouched(s))'
    BY <1>1, <1>2, <1>3, <1>5 DEF Orderly, Fitting, Untouched, SockOf, Kept
  <2>2. (\A e \in Fds : sock[e].conn = "connecting" => sock[e].data = 0 /\ ~sock[e].eof)'
    BY <1>2, <1>3 DEF Orderly, Fitting
  <2>3. (\A i \in 1 .. Len(evs) : evs[i].of # Acceptor => Fresh(evs[i].of, evs[i].todo))'
    BY <1>1, <1>5 DEF Orderly, Fitting, Passing
  <2>4. (at # NoEvent => Fresh(at.ses, at.todo))'
    BY <1>1, <1>5 DEF Orderly, Fitting, Passing
  <2> QED BY <2>1, <2>2, <2>3, <2>4 DEF Fitting
<1> QED BY <1>5, <1>6, <1>7, <1>8 DEF Orderly

(* What a peer or the kernel does to a connection. *)
LEMMA PeersKeep ==
  ASSUME Orderly, NEW fd \in Fds,
         Resolve(fd) \/ PeerSends(fd) \/ PeerEnds(fd) \/ PeerReads(fd) \/ Fails(fd)
  PROVE  Orderly' /\ Opened' = Opened
<1> DEFINE c == sock[fd]
<1>1. /\ c \in Sockets /\ c.data \in Nat /\ c.data <= traffic /\ traffic \in Nat
      /\ traffic <= MaxTraffic /\ MaxTraffic \in Nat
  BY NetAssumption DEF Orderly, Typed, Sockets
<1>2. /\ Failed(c) \in Sockets /\ Failed(c).conn = "failed" /\ ~Failed(c).full
      /\ Failed(c).shut = c.shut /\ Failed(c).data = c.data
  <2>1. NoSock \in Sockets /\ ~NoSock.full
    BY NetAssumption DEF NoSock, Sockets
  <2> QED BY <1>1, <2>1 DEF Failed, Sockets
<1>3. CASE Resolve(fd)
  <2>1. c.conn = "connecting" /\ traffic' = traffic
    BY <1>3 DEF Resolve
  <2>2. CASE Happens(fd, Failed(c))
    BY <1>1, <1>2, <2>1, <2>2, HappensKeeps
  <2>3. CASE Happens(fd, [c EXCEPT !.conn = "up"])
    <3> DEFINE d == [c EXCEPT !.conn = "up"]
    <3>1. d \in Sockets /\ d.conn = "up" /\ d.full = c.full /\ d.shut = c.shut /\ d.data = c.data
      BY <1>1 DEF Sockets
    <3>2. Happens(fd, d)
      BY <2>3
    <3> HIDE DEF d
    <3> QED BY <1>1, <2>1, <3>1, <3>2, HappensKeeps
  <2> QED BY <1>3, <2>2, <2>3 DEF Resolve
<1>4. CASE PeerSends(fd)
  <2> DEFINE d == [c EXCEPT !.data = @ + 1]
  <2>1. c.conn = "up" /\ traffic' = traffic + 1 /\ traffic < MaxTraffic /\ Happens(fd, d)
    BY <1>4 DEF PeerSends, Counted
  <2>2. d \in Sockets /\ d.conn = "up" /\ d.full = c.full /\ d.shut = c.shut /\ d.data = c.data + 1
    BY <1>1, <2>1 DEF Sockets
  <2> HIDE DEF d
  <2> QED BY <1>1, <2>1, <2>2, HappensKeeps
<1>5. CASE PeerEnds(fd)
  <2> DEFINE d == [c EXCEPT !.eof = TRUE]
  <2>1. c.conn = "up" /\ traffic' = traffic + 1 /\ traffic < MaxTraffic /\ Happens(fd, d)
    BY <1>5 DEF PeerEnds, Counted
  <2>2. d \in Sockets /\ d.conn = "up" /\ d.full = c.full /\ d.shut = c.shut /\ d.data = c.data
    BY <1>1, <2>1 DEF Sockets
  <2> HIDE DEF d
  <2> QED BY <1>1, <2>1, <2>2, HappensKeeps
<1>6. CASE PeerReads(fd)
  <2> DEFINE d == [c EXCEPT !.full = FALSE]
  <2>1. c.conn = "up" /\ traffic' = traffic /\ Happens(fd, d)
    BY <1>6 DEF PeerReads
  <2>2. d \in Sockets /\ d.conn = "up" /\ ~d.full /\ d.shut = c.shut /\ d.data = c.data
    BY <1>1, <2>1 DEF Sockets
  <2> HIDE DEF d
  <2> QED BY <1>1, <2>1, <2>2, HappensKeeps
<1>7. CASE Fails(fd)
  <2>1. c.conn = "up" /\ traffic' = traffic + 1 /\ traffic < MaxTraffic /\ Happens(fd, Failed(c))
    BY <1>7 DEF Fails, Counted
  <2> QED BY <1>1, <1>2, <2>1, HappensKeeps
<1> QED BY <1>3, <1>4, <1>5, <1>6, <1>7

-------------------------------------------------------------------------------
(* A session that is not connected is ready for output when it is for input. *)
LEMMA MaskFresh ==
  ASSUME Orderly, NEW s \in Opened
  PROVE  Mask(SockOf(s)) \in Bits /\ Fresh(s, Mask(SockOf(s)))
<1> DEFINE c == SockOf(s)
<1>1. /\ c \in Sockets /\ c.conn # "none"
      /\ ses[s].state = "establishing" => ~c.full /\ ~c.shut
      /\ c.conn = "connecting" => c.data = 0 /\ ~c.eof
  BY OpenHas DEF Orderly, Kept, Fitting, Untouched, SockOf
<1>2. c.conn \in {"connecting", "up", "failed"}
  BY <1>1 DEF Sockets
<1> HIDE DEF c
<1>3. Mask(c) \in Bits
  BY DEF Mask, Bits
<1>4. "err" \in Mask(c) => c.conn = "failed"
  BY DEF Mask
<1>5. ses[s].state = "establishing" /\ "in" \in Mask(c) => "out" \in Mask(c)
  BY <1>1, <1>2 DEF Mask
<1> QED BY <1>3, <1>4, <1>5 DEF Fresh, c

(* A pass begins with events that are true when they are collected. *)
LEMMA CollectKeeps ==
  ASSUME Orderly, Idle, UNCHANGED <<system, backlog, session, traffic>>,
         sock' \in [Fds -> Sockets],
         \A fd \in Fds : \E e \in BOOLEAN : sock'[fd] = [sock[fd] EXCEPT !.edge = e],
         NEW n \in Nat, NEW of, \A i \in 1 .. n : of[i] \in Opened \cup {Acceptor},
         \A i, j \in 1 .. n : of[i] = of[j] => i = j,
         evs' = [i \in 1 .. n |-> Event(of[i])], at' = NoEvent
  PROVE  Orderly'
<1>1. \A fd \in Fds : /\ sock'[fd].conn = sock[fd].conn /\ sock'[fd].data = sock[fd].data
                      /\ sock'[fd].eof = sock[fd].eof /\ sock'[fd].shut = sock[fd].shut
                      /\ sock'[fd].full = sock[fd].full
  BY DEF Orderly, Typed, Sockets
<1>2. Steady
  BY <1>1 DEF Steady, session
<1>3. /\ Kept' /\ Opened' = Opened
      /\ \A s \in Opened : \A todo : Fresh(s, todo) => Fresh(s, todo)'
  BY <1>2, SteadyKeeps DEF Orderly
<1>4. \A s \in Opened \cup {Acceptor} : /\ Event(s) \in Events /\ Event(s).of = s
                                        /\ s # Acceptor => Fresh(s, Event(s).todo)
  <2> TAKE s \in Opened \cup {Acceptor}
  <2>1. CASE s = Acceptor
    BY <2>1 DEF Event, Events, Bits
  <2>2. CASE s # Acceptor
    <3>1. s \in Recs /\ Mask(SockOf(s)) \in Bits /\ Fresh(s, Mask(SockOf(s)))
      BY <2>2, MaskFresh DEF Opened
    <3>2. Event(s) = [of |-> s, todo |-> Mask(SockOf(s))]
      BY <2>2 DEF Event
    <3> QED BY <3>1, <3>2 DEF Events
  <2> QED BY <2>1, <2>2
<1>5. /\ evs' \in Seq(Events) /\ Len(evs') = n
      /\ \A i \in 1 .. n : evs'[i] = Event(of[i]) /\ evs'[i].of = of[i]
  BY <1>4
<1>6. Typed'
  BY <1>1, <1>5, NoEventHandled DEF Orderly, Typed, system, session
<1>7. Passing'
  BY <1>3, <1>5 DEF Orderly, Passing, Idle, system
<1>8. Fitting'
  <2>1. (\A s \in Opened : Untouched(s))'
    BY <1>1, <1>3 DEF Orderly, Fitting, Untouched, SockOf, Kept, session
  <2>2. (\A e \in Fds : sock[e].conn = "connecting" => sock[e].data = 0 /\ ~sock[e].eof)'
    BY <1>1 DEF Orderly, Fitting
  <2>3. (\A i \in 1 .. Len(evs) : evs[i].of # Acceptor => Fresh(evs[i].of, evs[i].todo))'
    BY <1>3, <1>4, <1>5
  <2> QED BY <2>1, <2>2, <2>3 DEF Fitting
<1> QED BY <1>3, <1>6, <1>7, <1>8 DEF Orderly

(* epoll_wait *)
LEMMA EpollWaitKeeps ==
  ASSUME Orderly, EpollWait
  PROVE  Orderly'
<1> DEFINE woken == {s \in Opened : SockOf(s).edge /\ Mask(SockOf(s)) # {}}
           ready == woken \cup (IF acceptor /\ backlog THEN {Acceptor} ELSE {})
           S == {Event(s) : s \in ready}
           n == Cardinality(S)
           of == [i \in 1 .. n |-> evs'[i].of]
<1>1. /\ Idle /\ UNCHANGED <<system, backlog, session, traffic>>
      /\ evs' \in SetToSeqs(S)
      /\ sock' = [fd \in Fds |-> [sock[fd] EXCEPT !.edge = FALSE]] /\ at' = NoEvent
  BY DEF EpollWait
<1>2. ready \subseteq Opened \cup {Acceptor} /\ ready \subseteq Recs \cup {Acceptor}
  BY DEF Opened
<1> HIDE DEF ready
<1>3. n \in Nat
  <2>1. IsFiniteSet(Recs \cup {Acceptor})
    BY FS_AddElement, NetAssumption
  <2>2. IsFiniteSet(ready)
    BY <1>2, <2>1, FS_Subset
  <2>3. IsFiniteSet(S)
    <3> DEFINE f == [s \in ready |-> Event(s)]
    <3>1. f \in Surjection(ready, S)
      BY DEF Surjection
    <3> QED BY <2>2, <3>1, FS_Surjection
  <2> QED BY <2>3, FS_CardinalityType
<1>4. /\ evs' \in [1 .. n -> S]
      /\ \A i, j \in 1 .. n : i # j => evs'[i] # evs'[j]
  BY <1>1 DEF SetToSeqs
<1> HIDE DEF n
<1>5. \A i \in 1 .. n : \E s \in ready : evs'[i] = Event(s)
  BY <1>4
<1>6. \A s : Event(s).of = s
  BY DEF Event
<1>7. \A i \in 1 .. n : of[i] \in ready /\ evs'[i] = Event(of[i])
  BY <1>5, <1>6
<1>8. \A i, j \in 1 .. n : of[i] = of[j] => i = j
  BY <1>4, <1>7
<1>9. evs' = [i \in 1 .. n |-> Event(of[i])]
  BY <1>4, <1>7
<1>10. /\ sock' \in [Fds -> Sockets]
       /\ \A fd \in Fds : \E e \in BOOLEAN : sock'[fd] = [sock[fd] EXCEPT !.edge = e]
  BY <1>1 DEF Orderly, Typed, Sockets
<1> HIDE DEF of
<1> QED BY <1>1, <1>2, <1>3, <1>7, <1>8, <1>9, <1>10, CollectKeeps

(* poll, of the acceptor and the list in its order. *)
LEMMA PollKeeps ==
  ASSUME Orderly, Poll
  PROVE  Orderly'
<1> DEFINE first == IF acceptor THEN <<Acceptor>> ELSE <<>>
           watched == first \o ses_list
           Ready(s) == IF s = Acceptor THEN backlog ELSE Mask(SockOf(s)) # {}
           R == {i \in 1 .. Len(watched) : Ready(watched[i])}
           n == Cardinality(R)
<1>1. /\ Idle /\ UNCHANGED <<system, backlog, session, sock, traffic>>
      /\ evs' = [i \in 1 .. n |-> Event(watched[i])] /\ at' = NoEvent
  BY DEF Poll
<1>2. ses_list \in Seq(Opened) /\ Len(ses_list) \in Nat
  <2>1. ses_list \in Seq(Recs) /\ \A i \in 1 .. Len(ses_list) : ses_list[i] \in Opened
    BY DEF Orderly, Typed, Kept, ListsOnce
  <2> HIDE DEF first, watched, Ready, R, n
  <2> QED BY ONLY <2>1
<1>3. /\ first \in Seq({Acceptor}) /\ Len(first) \in {0, 1}
      /\ \A i \in 1 .. Len(first) : first[i] = Acceptor
  <2>1. CASE acceptor
    BY <2>1
  <2>2. CASE ~acceptor
    BY <2>2
  <2> QED BY <2>1, <2>2
<1> HIDE DEF first
<1>4. /\ Len(watched) = Len(first) + Len(ses_list)
      /\ \A i \in 1 .. Len(first) + Len(ses_list) :
           watched[i] = IF i <= Len(first) THEN first[i] ELSE ses_list[i - Len(first)]
  <2>1. first \in Seq(Opened \cup {Acceptor}) /\ ses_list \in Seq(Opened \cup {Acceptor})
    BY <1>2, <1>3
  <2> QED BY <2>1, ConcatProperties
<1> HIDE DEF watched
<1>5. Len(watched) \in Nat
  BY <1>2, <1>3, <1>4
<1>6. n \in Nat /\ n <= Len(watched)
  <2>1. IsFiniteSet(1 .. Len(watched)) /\ Cardinality(1 .. Len(watched)) = Len(watched)
    <3>1. 1 \in Int /\ Len(watched) \in Int
      BY <1>5
    <3>2. /\ IsFiniteSet(1 .. Len(watched))
          /\ Cardinality(1 .. Len(watched)) = IF 1 > Len(watched) THEN 0 ELSE Len(watched) - 1 + 1
      BY <3>1, FS_Interval
    <3> QED BY <1>5, <3>2
  <2>2. IsFiniteSet(R) /\ n <= Cardinality(1 .. Len(watched))
    BY <2>1, FS_Subset
  <2> QED BY <2>1, <2>2, FS_CardinalityType
<1> HIDE DEF n
<1>7. \A i \in 1 .. n : watched[i] \in Opened \cup {Acceptor}
  <2> SUFFICES ASSUME NEW i \in 1 .. n PROVE watched[i] \in Opened \cup {Acceptor}
    OBVIOUS
  <2>1. i \in 1 .. Len(first) + Len(ses_list) /\ Len(first) \in Nat
    BY <1>2, <1>3, <1>4, <1>5, <1>6
  <2>2. CASE i <= Len(first)
    <3>1. i \in 1 .. Len(first) /\ watched[i] = first[i]
      BY <1>4, <2>1, <2>2
    <3> QED BY <1>3, <3>1
  <2>3. CASE ~(i <= Len(first))
    <3>1. i - Len(first) \in 1 .. Len(ses_list) /\ watched[i] = ses_list[i - Len(first)]
      BY <1>2, <1>4, <2>1, <2>3
    <3> QED BY <1>2, <3>1
  <2> QED BY <2>2, <2>3
<1>8. \A i, j \in 1 .. n : watched[i] = watched[j] => i = j
  <2> SUFFICES ASSUME NEW i \in 1 .. n, NEW j \in 1 .. n, watched[i] = watched[j]
               PROVE  i = j
    OBVIOUS
  <2>1. i \in 1 .. Len(watched) /\ j \in 1 .. Len(watched) /\ Acceptor \notin Opened
    BY <1>5, <1>6, NetAssumption DEF Opened
  <2>2. \A k, m \in 1 .. Len(ses_list) : ses_list[k] = ses_list[m] => k = m
    BY DEF Orderly, Kept, ListsOnce
  <2> DEFINE m == Len(first)
  <2>3. m \in {0, 1} /\ (\A k \in 1 .. m : k = 1) /\ i \in Nat /\ j \in Nat
    BY <1>3, <1>5, <2>1
  <2>4. CASE i <= m /\ j <= m
    BY <1>5, <2>1, <2>3, <2>4
  <2>5. CASE i > m /\ j > m
    <3>1. /\ i - m \in 1 .. Len(ses_list) /\ watched[i] = ses_list[i - m]
          /\ j - m \in 1 .. Len(ses_list) /\ watched[j] = ses_list[j - m]
      BY <1>2, <1>4, <2>1, <2>3, <2>5
    <3>2. i - m = j - m
      BY <2>2, <3>1
    <3> QED BY <2>3, <3>2
  <2>6. \A k \in 1 .. Len(watched) : /\ k <= m => watched[k] = Acceptor
                                     /\ k > m => watched[k] \in Opened
    BY <1>2, <1>3, <1>4, <1>5, <2>3
  <2> HIDE DEF m
  <2> QED BY <2>1, <2>3, <2>4, <2>5, <2>6
<1>9. /\ sock' \in [Fds -> Sockets]
      /\ \A fd \in Fds : \E e \in BOOLEAN : sock'[fd] = [sock[fd] EXCEPT !.edge = e]
  <2> SUFFICES ASSUME NEW fd \in Fds PROVE sock[fd] = [sock[fd] EXCEPT !.edge = sock[fd].edge]
                                         /\ sock[fd].edge \in BOOLEAN
    BY <1>1 DEF Orderly, Typed
  <2> QED BY DEF Orderly, Typed, Sockets
<1> QED BY <1>1, <1>6, <1>7, <1>8, <1>9, CollectKeeps

-------------------------------------------------------------------------------
(* The smaller of two numbers. *)
LEMMA MinOf ==
  ASSUME NEW a \in Int, NEW b \in Int
  PROVE  Min({a, b}) \in {a, b} /\ Min({a, b}) <= a /\ Min({a, b}) <= b
<1>1. \E x \in {a, b} : \A y \in {a, b} : x <= y
  <2>1. CASE a <= b
    BY <2>1
  <2>2. CASE ~(a <= b)
    BY <2>2
  <2> QED BY <2>1, <2>2
<1> QED BY <1>1 DEF Min

(* A step that changes what is left of the event being handled, and of the *)
(* session's record and socket only its phase and the bytes to be read.    *)
LEMMA HandlerKeeps ==
  ASSUME Orderly, at # NoEvent, UNCHANGED <<system, backlog, ses_list, owed, evs, traffic>>,
         ses' \in [Recs -> Records], sock' \in [Fds -> Sockets], Steady,
         \A t \in Recs : ses[t].state = "closing" => ses'[t].state = "closing",
         \A fd \in Fds : /\ sock'[fd].conn = sock[fd].conn /\ sock'[fd].data <= sock[fd].data
                         /\ sock'[fd].full = sock[fd].full /\ sock'[fd].shut = sock[fd].shut
                         /\ sock'[fd].eof = sock[fd].eof,
         at' \in Handled,
         at' # NoEvent => at'.ses = at.ses, (at # NoEvent => Fresh(at.ses, at.todo))'
  PROVE  Orderly'
<1>1. /\ Kept' /\ Opened' = Opened
      /\ \A s \in Opened : \A todo : Fresh(s, todo) => Fresh(s, todo)'
  BY SteadyKeeps DEF Orderly
<1>2. \A fd \in Fds : sock'[fd].data \in Nat /\ sock[fd].data \in Nat
  BY NetAssumption DEF Orderly, Typed, Sockets
<1>3. Typed'
  <2>1. \A fd \in Fds : sock'[fd].data <= traffic
    <3> TAKE fd \in Fds
    <3>1. sock[fd].data <= traffic /\ traffic \in Nat
      BY NetAssumption DEF Orderly, Typed
    <3> QED BY <1>2, <3>1
  <2> QED BY <2>1 DEF Orderly, Typed, system
<1>4. Passing'
  BY <1>1 DEF Orderly, Passing, NotNamed, system
<1>5. Fitting'
  <2>1. (\A s \in Opened : Untouched(s))'
    BY <1>1 DEF Orderly, Fitting, Untouched, SockOf, Steady, Kept, Opened
  <2>2. (\A e \in Fds : sock[e].conn = "connecting" => sock[e].data = 0 /\ ~sock[e].eof)'
    BY <1>2 DEF Orderly, Fitting
  <2>3. (\A i \in 1 .. Len(evs) : evs[i].of # Acceptor => Fresh(evs[i].of, evs[i].todo))'
    BY <1>1 DEF Orderly, Fitting, Passing
  <2> QED BY <2>1, <2>2, <2>3 DEF Fitting
<1> QED BY <1>1, <1>3, <1>4, <1>5 DEF Orderly

(* The next event of the pass. *)
LEMMA TakeKeeps ==
  ASSUME Orderly, Take
  PROVE  Orderly'
<1>1. /\ evs # <<>> /\ evs \in Seq(Events) /\ evs' = Tail(evs) /\ net = "up"
      /\ Head(evs).of # Acceptor
      /\ at' = [NoEvent EXCEPT !.ses = Head(evs).of, !.todo = Head(evs).todo]
      /\ UNCHANGED <<net_type, net, acceptor, backlog, ses, ses_list, owed, sock, traffic>>
  BY DEF Orderly, Typed, Take, NextEvent, system, session
<1>2. /\ evs' \in Seq(Events) /\ Len(evs') = Len(evs) - 1 /\ Len(evs) \in Nat
      /\ \A i \in 1 .. Len(evs') : evs'[i] = evs[i + 1] /\ i + 1 \in 1 .. Len(evs)
  BY <1>1, HeadTailProperties
<1>3. Head(evs) = evs[1] /\ 1 \in 1 .. Len(evs) /\ evs[1] \in Events
  BY <1>1
<1>4. /\ at' \in Handled /\ at'.ses = evs[1].of /\ at'.todo = evs[1].todo
      /\ evs[1].of \in Opened /\ evs[1].of \in Recs
  <2>1. evs[1].of \in Opened /\ evs[1].of \in Recs
    BY <1>1, <1>3 DEF Orderly, Passing, Opened
  <2>2. evs[1].todo \in Bits
    BY <1>3 DEF Events
  <2> QED BY <1>1, <1>3, <2>1, <2>2, NoEventHandled DEF Handled
<1>5. Steady
  BY <1>1 DEF Steady
<1>6. /\ Kept' /\ Opened' = Opened
      /\ \A s \in Opened : \A todo : Fresh(s, todo) => Fresh(s, todo)'
  BY <1>5, SteadyKeeps DEF Orderly
<1>7. Typed'
  BY <1>1, <1>2, <1>4 DEF Orderly, Typed
<1>8. Passing'
  <2>1. \A i, j \in 1 .. Len(evs) : evs[i].of = evs[j].of => i = j
    BY DEF Orderly, Passing
  <2>2. \A i \in 1 .. Len(evs') : evs'[i].of # evs[1].of
    BY <1>2, <1>3, <2>1
  <2>3. \A i, j \in 1 .. Len(evs') : evs'[i].of = evs'[j].of => i = j
    <3> SUFFICES ASSUME NEW i \in 1 .. Len(evs'), NEW j \in 1 .. Len(evs'),
                        evs'[i].of = evs'[j].of
                 PROVE  i = j
      OBVIOUS
    <3>1. i + 1 \in 1 .. Len(evs) /\ j + 1 \in 1 .. Len(evs) /\ evs[i + 1].of = evs[j + 1].of
      BY <1>2
    <3>2. i + 1 = j + 1
      BY <2>1, <3>1
    <3> QED BY <1>2, <3>2
  <2>4. \A i \in 1 .. Len(evs') : evs'[i].of \in Opened \cup {Acceptor}
    BY <1>2 DEF Orderly, Passing
  <2> QED BY <1>1, <1>4, <1>6, <2>2, <2>3, <2>4 DEF Passing, NotNamed
<1>9. Fitting'
  <2>1. (\A s \in Opened : Untouched(s))'
    BY <1>1, <1>6 DEF Orderly, Fitting, Untouched, SockOf
  <2>2. (\A i \in 1 .. Len(evs) : evs[i].of # Acceptor => Fresh(evs[i].of, evs[i].todo))'
    BY <1>2, <1>6 DEF Orderly, Fitting, Passing
  <2>3. PICK s \in Opened, todo \in Bits : s = evs[1].of /\ todo = evs[1].todo
    BY <1>3, <1>4 DEF Events
  <2>4. Fresh(s, todo)
    BY <1>1, <1>3, <2>3 DEF Orderly, Fitting
  <2>5. Fresh(s, todo)'
    BY <1>6, <2>4
  <2>6. (at # NoEvent => Fresh(at.ses, at.todo))'
    BY <1>4, <2>3, <2>5
  <2>7. (\A fd \in Fds : sock[fd].conn = "connecting" => sock[fd].data = 0 /\ ~sock[fd].eof)'
    BY <1>1 DEF Orderly, Fitting
  <2> QED BY <2>1, <2>2, <2>6, <2>7 DEF Fitting
<1> QED BY <1>6, <1>7, <1>8, <1>9 DEF Orderly

(* _net_on_send of a session that was not yet connected. *)
LEMMA OnConnectKeeps ==
  ASSUME Orderly, OnConnect
  PROVE  Orderly'
<1> DEFINE s == at.ses
<1>1. /\ at # NoEvent /\ s \in Opened /\ Fresh(s, at.todo) /\ ses[s].state = "establishing"
  BY Handling DEF OnConnect, Doing
<1>2. /\ ses' = [ses EXCEPT ![s].state = "normal"] /\ at' = [at EXCEPT !.call = "conn"]
      /\ UNCHANGED <<system, backlog, ses_list, owed, sock, evs, traffic>>
  BY DEF OnConnect
<1>3. s \in Recs /\ ses[s] \in Records
  BY <1>1, OpenHas
<1>4. /\ ses' \in [Recs -> Records] /\ ses'[s] = [ses[s] EXCEPT !.state = "normal"]
      /\ \A t \in Recs \ {s} : ses'[t] = ses[t]
  BY <1>2, <1>3 DEF Orderly, Typed, Records
<1>5. ses'[s].state = "normal" /\ ses'[s].fd = ses[s].fd
  BY <1>3, <1>4 DEF Records
<1>6. Steady
  BY <1>1, <1>2, <1>4, <1>5 DEF Steady
<1>7. at' \in Handled /\ at'.ses = s /\ at'.todo = at.todo
  BY <1>2 DEF Orderly, Typed, Handled
<1>8. PICK t \in Opened, todo \in Bits : t = s /\ todo = at.todo
  BY <1>1 DEF Orderly, Typed, Handled
<1>9. (at # NoEvent => Fresh(at.ses, at.todo))'
  <2>1. Fresh(t, todo)'
    BY <1>1, <1>6, <1>8, SteadyKeeps DEF Orderly
  <2> QED BY <1>7, <1>8, <2>1
<1>10. \A fd \in Fds : /\ sock'[fd] = sock[fd] /\ sock[fd].data <= sock[fd].data
  BY <1>2, NetAssumption DEF Orderly, Typed, Sockets
<1>11. \A t2 \in Recs : ses[t2].state = "closing" => ses'[t2].state = "closing"
  BY <1>1, <1>4
<1> QED BY <1>1, <1>2, <1>4, <1>6, <1>7, <1>9, <1>10, <1>11, HandlerKeeps DEF Orderly, Typed

(* A session that receives is connected, or is waiting to be closed. *)
LEMMA ReadingOpen ==
  ASSUME Orderly, Reading
  PROVE  /\ at # NoEvent /\ at.ses \in Opened /\ NotNamed(at.ses) /\ Fresh(at.ses, at.todo)
         /\ ses[at.ses].state \in {"normal", "closing"}
BY Handling, OpenHas DEF Reading, Doing, Fresh

(* A recv that returns bytes. *)
LEMMA OnRecvKeeps ==
  ASSUME Orderly, OnRecv
  PROVE  Orderly' /\ at # NoEvent /\ at.ses \in Opened /\ UNCHANGED <<ses, owed>>
<1> DEFINE s == at.ses
           fd == ses[s].fd
           c == SockOf(s)
           k == Min({c.data, RecvLen - at.got})
           full == at.got + k = RecvLen
<1>1. /\ at # NoEvent /\ s \in Opened /\ ses[s].state \in {"normal", "closing"}
      /\ Fresh(s, at.todo)
  BY ReadingOpen DEF OnRecv
<1>2. /\ s \in Recs /\ fd \in Fds /\ c \in Sockets /\ sock[fd] = c
  BY <1>1, OpenHas DEF SockOf
<1>3. /\ sock' = [sock EXCEPT ![fd].data = @ - k]
      /\ at' = [at EXCEPT !.got = IF full THEN 0 ELSE @ + k,
                         !.call = IF full THEN "recv" ELSE "none"]
      /\ k > 0 /\ UNCHANGED <<system, backlog, ses, ses_list, owed, evs, traffic>>
  BY DEF OnRecv, session
<1>4. c.data \in Nat /\ at \in Handled /\ at.got \in 0 .. (RecvLen - 1) /\ RecvLen \in Nat
  BY <1>2, NetAssumption DEF Sockets, Orderly, Typed, Handled
<1>5. k \in Nat /\ k <= c.data /\ k <= RecvLen - at.got
  <2> DEFINE room == RecvLen - at.got
  <2>1. room \in Int /\ c.data \in Int
    BY <1>4
  <2> HIDE DEF room, c
  <2>2. Min({c.data, room}) \in {c.data, room} /\ Min({c.data, room}) <= c.data
        /\ Min({c.data, room}) <= room
    BY <2>1, MinOf
  <2>3. k = Min({c.data, room})
    BY DEF room, c
  <2> HIDE DEF k
  <2>4. k \in Nat /\ k <= c.data /\ k <= room
    BY <1>3, <1>4, <2>1, <2>2, <2>3
  <2> QED BY <2>4 DEF room, c
<1> HIDE DEF k, fd, c
<1>6. /\ sock' \in [Fds -> Sockets] /\ sock'[fd] = [c EXCEPT !.data = @ - k]
      /\ \A e \in Fds \ {fd} : sock'[e] = sock[e]
  <2> DEFINE d == [c EXCEPT !.data = @ - k]
  <2>1. sock' = [sock EXCEPT ![fd] = d]
    BY <1>2, <1>3
  <2>2. c.data - k \in 0 .. MaxTraffic
    BY <1>2, <1>4, <1>5, NetAssumption DEF Sockets
  <2>3. d \in Sockets
    BY <1>2, <2>2 DEF Sockets
  <2> HIDE DEF d
  <2>4. sock' \in [Fds -> Sockets] /\ sock'[fd] = d /\ \A e \in Fds \ {fd} : sock'[e] = sock[e]
    BY <1>2, <2>1, <2>3 DEF Orderly, Typed
  <2> QED BY <2>4 DEF d
<1>7. \A e \in Fds : /\ sock'[e].conn = sock[e].conn /\ sock'[e].data <= sock[e].data
                     /\ sock'[e].full = sock[e].full /\ sock'[e].shut = sock[e].shut
                     /\ sock'[e].eof = sock[e].eof
  <2> TAKE e \in Fds
  <2>1. CASE e = fd
    BY <1>2, <1>4, <1>5, <1>6, <2>1 DEF Sockets
  <2>2. CASE e # fd
    BY <1>6, <2>2, NetAssumption DEF Orderly, Typed, Sockets
  <2> QED BY <2>1, <2>2
<1>8. Steady
  BY <1>3, <1>7 DEF Steady
<1>9. at' \in Handled /\ at'.ses = s /\ at'.todo = at.todo
  <2>1. (IF full THEN 0 ELSE at.got + k) \in 0 .. (RecvLen - 1)
    BY <1>4, <1>5
  <2> QED BY <1>3, <1>4, <2>1 DEF Handled
<1>10. (at # NoEvent => Fresh(at.ses, at.todo))'
  <2>1. PICK t \in Opened, todo \in Bits : t = s /\ todo = at.todo
    BY <1>1 DEF Orderly, Typed, Handled
  <2>2. Fresh(t, todo)'
    BY <1>1, <1>8, <2>1, SteadyKeeps DEF Orderly
  <2> QED BY <1>9, <2>1, <2>2
<1>11. ses' \in [Recs -> Records]
  BY <1>3 DEF Orderly, Typed
<1>12. Orderly'
  BY <1>1, <1>3, <1>6, <1>7, <1>8, <1>9, <1>10, <1>11, HandlerKeeps
<1> QED BY <1>1, <1>3, <1>12

(* Where the input handler ends: with the session, or with what it read. *)
LEMMA OnRecvEndKeeps ==
  ASSUME Orderly, OnRecvEnd
  PROVE  /\ Orderly' /\ at # NoEvent /\ at.ses \in Opened
         /\ \/ Drop(at.ses) /\ Opened' = Opened \ {at.ses}
            \/ /\ Opened' = Opened /\ UNCHANGED <<ses, owed>>
               /\ at'.call = "none" \/ (at'.call = "recv" /\ at'.ses = at.ses)
<1> DEFINE s == at.ses
<1>1. /\ at # NoEvent /\ s \in Opened /\ ses[s].state \in {"normal", "closing"}
      /\ Fresh(s, at.todo) /\ NotNamed(s) /\ "in" \in at.todo
  BY ReadingOpen DEF OnRecvEnd, Reading, Doing
<1>2. CASE Drop(s)
  BY <1>1, <1>2, DropKeeps DEF OnRecvEnd
<1>3. ASSUME at' = (IF at.got = 0 THEN Done("in")
                    ELSE [at EXCEPT !.todo = @ \ {"in"}, !.got = 0, !.call = "recv"]),
             UNCHANGED <<session, sock, evs>>
      PROVE  /\ Orderly' /\ Opened' = Opened
             /\ at'.call = "none" \/ (at'.call = "recv" /\ at'.ses = s)
  <2>1. /\ at' \in Handled
        /\ at' # NoEvent => at'.ses = s /\ at'.todo = at.todo \ {"in"}
        /\ at'.call = "none" \/ (at'.call = "recv" /\ at'.ses = s)
    <3>1. CASE at.got = 0
      <4>1. at' = Done("in")
        BY <1>3, <3>1
      <4>2. /\ Done("in") \in Handled /\ Done("in").call = "none"
            /\ Done("in") # NoEvent => Done("in").ses = at.ses /\ Done("in").todo = at.todo \ {"in"}
        BY <1>1, DoneKeeps
      <4> QED BY <4>1, <4>2
    <3>2. CASE at.got # 0
      <4>1. at \in Handled /\ 0 \in 0 .. (RecvLen - 1)
        BY NetAssumption DEF Orderly, Typed
      <4>2. at.todo \ {"in"} \in Bits
        BY <4>1 DEF Handled, Bits
      <4> QED BY <1>3, <3>2, <4>1, <4>2 DEF Handled
    <3> QED BY <3>1, <3>2
  <2>2. UNCHANGED <<system, backlog, ses, ses_list, owed, sock, evs, traffic>>
    BY <1>3 DEF OnRecvEnd, session
  <2>3. Steady
    BY <2>2 DEF Steady
  <2>4. Opened' = Opened
    BY <2>3, SteadyKeeps DEF Orderly
  <2>5. (at # NoEvent => Fresh(at.ses, at.todo))'
    <3>1. PICK t \in Opened, todo \in Bits : t = s /\ todo = at.todo \ {"in"}
      BY <1>1 DEF Orderly, Typed, Handled, Bits
    <3>2. Fresh(t, todo)
      BY <1>1, <3>1, FreshLess
    <3>3. Fresh(t, todo)'
      BY <2>3, <3>2, SteadyKeeps DEF Orderly
    <3>4. at' # NoEvent => at'.ses = t /\ at'.todo = todo
      BY <2>1, <3>1
    <3> QED BY <3>3, <3>4
  <2>6. \A fd \in Fds : /\ sock'[fd] = sock[fd] /\ sock[fd].data <= sock[fd].data
    BY <2>2, NetAssumption DEF Orderly, Typed, Sockets
  <2>7. ses' \in [Recs -> Records] /\ sock' \in [Fds -> Sockets]
    BY <2>2 DEF Orderly, Typed
  <2>8. Orderly'
    <3>1. at' \in Handled /\ (at' # NoEvent => at'.ses = at.ses)
      BY <2>1
    <3> HIDE DEF s
    <3> QED BY <1>1, <3>1, <2>2, <2>3, <2>5, <2>6, <2>7, HandlerKeeps
  <2> QED BY <2>1, <2>4, <2>8
<1> HIDE DEF s
<1> QED BY <1>1, <1>2, <1>3 DEF OnRecvEnd, s, session

(* _net_on_error closes a session whose connection failed. *)
LEMMA OnErrorKeeps ==
  ASSUME Orderly, OnError
  PROVE  /\ Orderly' /\ at.ses \in Opened /\ Drop(at.ses) /\ Opened' = Opened \ {at.ses}
         /\ SockOf(at.ses).conn = "failed"
<1>1. /\ at.ses \in Opened /\ NotNamed(at.ses) /\ "err" \in at.todo
      /\ SockOf(at.ses).conn = "failed"
  BY Handling DEF OnError, Doing, Fresh
<1> QED BY <1>1, DropKeeps DEF OnError

-------------------------------------------------------------------------------
(* A process starts in order, with no net. *)
LEMMA InitOrderly == Init => Orderly
<1> SUFFICES ASSUME Init PROVE Orderly
  OBVIOUS
<1>1. Opened = {} /\ \A s \in Recs : ses[s] = Closed
  BY ClosedRecord DEF Init, Opened
<1>2. NoSock \in Sockets /\ NoSock.data = 0 /\ NoSock.conn = "none"
  BY NetAssumption DEF NoSock, Sockets
<1>3. Typed
  <2>1. <<>> \in Seq(Recs) /\ <<>> \in Seq(Events)
    OBVIOUS
  <2>2. ses \in [Recs -> Records] /\ ses_list \in Seq(Recs) /\ evs \in Seq(Events) /\ at \in Handled
    BY <2>1, ClosedRecord, NoEventHandled DEF Init, lst_new
  <2>3. traffic \in 0 .. MaxTraffic /\ sock \in [Fds -> Sockets] /\ \A fd \in Fds : sock[fd].data <= traffic
    BY <1>2, NetAssumption DEF Init
  <2>4. owed \in [Recs -> Int]
    BY 0 \in Int DEF Init
  <2> QED BY <2>2, <2>3, <2>4 DEF Init, Typed
<1>4. Kept
  BY <1>1, <1>2, NewOnce DEF Init, Kept
<1>5. Passing /\ Fitting
  BY <1>1, <1>2 DEF Init, Passing, Fitting
<1> QED BY <1>3, <1>4, <1>5 DEF Orderly

(* No step brings disorder. *)
LEMMA StepOrderly == Orderly /\ [Next]_vars => Orderly'
<1> SUFFICES ASSUME Orderly, [Next]_vars PROVE Orderly'
  OBVIOUS
<1>1. CASE Loop
  BY <1>1, EpollWaitKeeps, PollKeeps, AcceptKeeps, TakeKeeps, OnConnectKeeps, OnSendKeeps,
     OnRecvKeeps, OnRecvEndKeeps, OnErrorKeeps, DestroySessionKeeps DEF Loop
<1>2. CASE Client
  BY <1>2, ClientQuietKeeps, ConnectKeeps, DisconnectKeeps, SendKeeps DEF Client
<1>3. CASE Peers
  BY <1>3, ClientQuietKeeps, PeersKeep DEF Peers
<1>4. CASE UNCHANGED vars
  BY <1>4, QuietKeeps DEF vars, system, pass, Orderly, Typed, Passing
<1> QED BY <1>1, <1>2, <1>3, <1>4 DEF Next

(* In every reachable state, whatever the lengths and the client's care. *)
THEOREM Invariance == Spec => []Orderly
<1> QED BY InitOrderly, StepOrderly, PTL DEF Spec

-------------------------------------------------------------------------------
(* The bytes net_send took and the kernel has not are those in the buffer,  *)
(* as long as the client leaves a byte of it free.                          *)
LEMMA SendsOwed ==
  ASSUME Orderly, OwedExact, NEW s \in Opened, NEW p \in Records, NEW c,
         NEW accepted \in Nat, NEW next, owed[s] + accepted = Unsent(p),
         Sends(s, p, c, accepted, next)
  PROVE  OwedExact'
<1>1. s \in Recs /\ ses \in [Recs -> Records] /\ owed \in [Recs -> Int] /\ Unsent(p) \in Nat
  BY OpenHas, UnsentNat DEF Orderly, Typed
<1>2. CASE /\ Close(s) /\ Opened' = Opened \ {s}
           /\ \/ owed' = owed
              \/ owed' = [owed EXCEPT ![s] = @ + accepted - Unsent(p)]
  <2>1. \A t \in Recs \ {s} : owed'[t] = owed[t]
    BY <1>1, <1>2
  <2>2. \A t \in Recs \ {s} : ses'[t] = ses[t]
    BY <1>1, <1>2 DEF Close
  <2> QED BY <1>2, <2>1, <2>2 DEF OwedExact, Opened
<1>3. ASSUME NEW k \in 0 .. Unsent(p), owed' = [owed EXCEPT ![s] = @ + accepted - k],
             ses' = [ses EXCEPT ![s] = Sent(p, k)], Opened' = Opened
      PROVE  OwedExact'
  <2>1. owed'[s] = Unsent(p) - k /\ \A t \in Recs \ {s} : owed'[t] = owed[t]
    BY <1>1, <1>3
  <2>2. ses'[s] = Sent(p, k) /\ \A t \in Recs \ {s} : ses'[t] = ses[t]
    BY <1>1, <1>3
  <2>3. Unsent(Sent(p, k)) = Unsent(p) - k
    BY SentFits
  <2> QED BY <1>3, <2>1, <2>2, <2>3 DEF OwedExact, Opened
<1> QED BY <1>2, <1>3 DEF Sends

(* The sessions that stay open owe what they did. *)
LEMMA DropOwed ==
  ASSUME Orderly, OwedExact, NEW s \in Opened, Drop(s)
  PROVE  OwedExact'
<1>1. s \in Recs /\ ses \in [Recs -> Records] /\ owed \in [Recs -> Int]
  BY OpenHas DEF Orderly, Typed
<1>2. ses'[s] = Closed /\ \A t \in Recs \ {s} : ses'[t] = ses[t]
  BY <1>1 DEF Drop, Close
<1>3. owed' = owed
  BY DEF Drop
<1> QED BY <1>1, <1>2, <1>3, ClosedRecord DEF OwedExact, Opened

(* A new one owes nothing. *)
LEMMA NewOwed ==
  ASSUME Orderly, OwedExact, NEW s \in Recs, NEW conn \in {"connecting", "up"},
         NewSession(s, conn)
  PROVE  OwedExact'
<1>1. /\ Opened' = Opened \cup {s} /\ owed' = [owed EXCEPT ![s] = 0]
      /\ ses' = [ses EXCEPT ![s] = ses'[s]] /\ Unsent(ses'[s]) = 0
  BY NewKeeps
<1>2. owed'[s] = 0 /\ \A t \in Recs \ {s} : ses'[t] = ses[t] /\ owed'[t] = owed[t]
  BY <1>1 DEF Orderly, Typed
<1> QED BY <1>1, <1>2 DEF OwedExact, Opened

(* No step of a careful client's net makes the buffers inexact. *)
LEMMA OwedStep ==
  ASSUME Careful, Orderly, OwedExact, [Next]_vars
  PROVE  OwedExact'
<1>1. ASSUME UNCHANGED <<ses, owed>> PROVE OwedExact'
  BY <1>1 DEF OwedExact, Opened
<1>2. CASE EpollWait \/ Poll \/ Take \/ Listen \/ DestroyAcceptor \/ Destroy \/ Create
           \/ PeerConnects \/ UNCHANGED vars
  BY <1>1, <1>2 DEF EpollWait, Poll, Take, Listen, DestroyAcceptor, Destroy, Create,
                    PeerConnects, vars, session
<1>3. ASSUME NEW fd \in Fds,
             Resolve(fd) \/ PeerSends(fd) \/ PeerEnds(fd) \/ PeerReads(fd) \/ Fails(fd)
      PROVE  OwedExact'
  BY <1>1, <1>3 DEF Resolve, PeerSends, PeerEnds, PeerReads, Fails, Happens, session
<1>4. CASE OnRecv
  BY <1>1, <1>4, OnRecvKeeps
<1>5. CASE OnRecvEnd
  BY <1>1, <1>5, OnRecvEndKeeps, DropOwed
<1>6. CASE OnError
  BY <1>6, OnErrorKeeps, DropOwed
<1>7. CASE DestroySession
  BY <1>7, DestroySessionKeeps, DropOwed DEF DestroySession
<1>8. CASE Accept
  BY <1>1, <1>8, NewOwed DEF Accept, session
<1>9. ASSUME NEW s \in Recs, Connect(s) PROVE OwedExact'
  BY <1>9, NewOwed DEF Connect
<1>10. CASE OnConnect
  <2> DEFINE s == at.ses
  <2>1. s \in Recs /\ ses[s] \in Records /\ ses \in [Recs -> Records]
    BY <1>10, Handling, OpenHas DEF OnConnect, Doing, Orderly, Typed
  <2>2. ses' = [ses EXCEPT ![s].state = "normal"] /\ owed' = owed
    BY <1>10 DEF OnConnect
  <2>3. /\ ses'[s].r = ses[s].r /\ ses'[s].w = ses[s].w
        /\ \A t \in Recs \ {s} : ses'[t] = ses[t]
    BY <2>1, <2>2 DEF Records
  <2>4. ses[s].state = "establishing" /\ ses'[s].state = "normal"
    BY <1>10, <2>1, <2>2 DEF OnConnect, Records
  <2> HIDE DEF s
  <2>5. Unsent(ses'[s]) = Unsent(ses[s])
    BY <2>3 DEF Unsent
  <2>6. Opened' = Opened
    BY <2>3, <2>4 DEF Opened
  <2> QED BY <2>2, <2>3, <2>5, <2>6 DEF OwedExact, Opened
<1>11. CASE OnSend
  <2>1. /\ at.ses \in Opened /\ at.ses \in Recs /\ ses[at.ses] \in Records
        /\ Sends(at.ses, ses[at.ses], SockOf(at.ses), 0, Done("out"))
    BY <1>11, OnSendKeeps, OpenHas
  <2>2. owed[at.ses] + 0 = Unsent(ses[at.ses])
    BY <2>1 DEF OwedExact, Orderly, Typed
  <2> QED BY <2>1, <2>2, SendsOwed
<1>12. ASSUME NEW s \in Recs, Disconnect(s) PROVE OwedExact'
  <2>1. PICK p \in Records, c \in Sockets :
           /\ p = [ses[s] EXCEPT !.state = "closing"] /\ Sends(s, p, c, 0, at)
    BY <1>12, DisconnectKeeps
  <2>2. s \in Opened /\ ses[s] \in Records
    BY <1>12, DisconnectKeeps, OpenHas
  <2>3. Unsent(p) = Unsent(ses[s])
    BY <2>1, <2>2 DEF Unsent, Records
  <2>4. owed[s] + 0 = Unsent(p)
    BY <2>2, <2>3 DEF OwedExact, Orderly, Typed
  <2> QED BY <2>1, <2>2, <2>4, SendsOwed
<1>13. ASSUME NEW s \in Recs, NEW n \in DataLens, Send(s, n) PROVE OwedExact'
  <2>1. /\ s \in Opened /\ ses[s] \in Records /\ n \in Nat /\ Accepts(ses[s], n)
        /\ Unsent(ses[s]) + n < SendLen
    BY <1>13, SendKeeps, OpenHas, NetAssumption DEF Send
  <2>2. /\ Written(ses[s], n) \in Records
        /\ Sends(s, Written(ses[s], n), SockOf(s), n, at)
    BY <1>13, SendKeeps
  <2>3. owed[s] + n = Unsent(Written(ses[s], n))
    BY <2>1, WrittenFits DEF OwedExact
  <2> QED BY <2>1, <2>2, <2>3, SendsOwed
<1> QED BY <1>2, <1>3, <1>4, <1>5, <1>6, <1>7, <1>8, <1>9, <1>10, <1>11, <1>12, <1>13
        DEF Next, Loop, Client, Peers

(* At first nothing is owed. *)
LEMMA OwedInit == Init => OwedExact
BY ClosedRecord DEF Init, OwedExact, Opened

(* SessionsSound is in these invariants. *)
LEMMA SoundOfParts ==
  Orderly /\ OwedExact => SessionsSound
<1> SUFFICES ASSUME Orderly, OwedExact PROVE SessionsSound
  OBVIOUS
<1>1. TypeOK
  <2>1. at = NoEvent \/ at.ses \in Opened
    BY DEF Orderly, Passing
  <2>2. at.todo \subseteq {"out", "in", "err"} /\ at.got \in 0 .. (RecvLen - 1)
    BY DEF Orderly, Typed, Handled, Bits
  <2> QED BY <2>1, <2>2 DEF Orderly, Typed, Passing, TypeOK, Records
<1>2. \A s \in Opened : ses[s].fd # 0
  BY NetAssumption DEF Orderly, Kept
<1> QED BY <1>1, <1>2 DEF SessionsSound, Orderly, Kept, OwedExact, Opened

(* When the client leaves a byte of the send buffer free, the records, the *)
(* list, the descriptors and the send buffers agree in every state.        *)
THEOREM SessionsAlwaysSound == ASSUME Careful PROVE Spec => []SessionsSound
<1>1. Orderly /\ OwedExact /\ [Next]_vars => Orderly' /\ OwedExact'
  BY StepOrderly, OwedStep
<1>2. Init => Orderly /\ OwedExact
  BY InitOrderly, OwedInit
<1> QED BY <1>1, <1>2, SoundOfParts, PTL DEF Spec

-------------------------------------------------------------------------------
(* The same steps, told by the phase of each session and the call that may *)
(* be running.                                                             *)
PhaseOf == [s \in Recs |-> Phase[ses[s].state]]

(* The phase of each state. *)
LEMMA PhaseAt ==
  /\ Phase["closed"] = "none" /\ Phase["establishing"] = "opening"
  /\ Phase["normal"] = "open" /\ Phase["closing"] = "closing"
BY DEF Phase

(* One record changes, and its phase with it. *)
LEMMA PhaseMoves ==
  ASSUME ses \in [Recs -> Records], NEW s \in Recs, NEW q, ses' = [ses EXCEPT ![s] = q]
  PROVE  PhaseOf' = [PhaseOf EXCEPT ![s] = Phase[q.state]]
BY DEF PhaseOf

(* A close is the call that tells the session disconnected. *)
LEMMA DisconnStep ==
  ASSUME Orderly, NEW s \in Opened, Close(s)
  PROVE  Server!Disconn(s)
<1>1. /\ s \in Recs /\ ses \in [Recs -> Records]
      /\ ses[s].state \in {"establishing", "normal", "closing"}
  BY OpenHas DEF Orderly, Typed
<1>2. PhaseOf' = [PhaseOf EXCEPT ![s] = "none"]
  <2>1. ses' = [ses EXCEPT ![s] = Closed]
    BY DEF Close
  <2>2. PhaseOf' = [PhaseOf EXCEPT ![s] = Phase[Closed.state]]
    BY <1>1, <2>1, PhaseMoves
  <2>3. Phase[Closed.state] = "none"
    BY PhaseAt, ClosedRecord
  <2> QED BY <2>2, <2>3
<1>3. PhaseOf[s] \in {"opening", "open", "closing"}
  BY <1>1, PhaseAt DEF PhaseOf
<1>4. Calling(at)' = Calling(NoEvent)
  BY DEF Close
<1> QED BY <1>2, <1>3, <1>4 DEF Server!Disconn, Server!Moves, PhaseOf

ServerStep == [Server!Next]_<<PhaseOf, Calling(at)>>

(* No session changes its phase and at most a callback returns. *)
LEMMA QuietStep ==
  ASSUME PhaseOf' = PhaseOf, Calling(at)' \in {Calling(at), Calling(NoEvent)}
  PROVE  ServerStep
BY DEF ServerStep, Server!Next, Server!Return, PhaseOf

(* What is running when no callback is. *)
LEMMA NoCallback ==
  ASSUME NEW e, e.call = "none"
  PROVE  Calling(e) = Calling(NoEvent)
BY NoEventHandled DEF Calling

(* A close is a step of Sessions. *)
LEMMA DisconnTold ==
  ASSUME Orderly, NEW s \in Opened, Close(s)
  PROVE  ServerStep
<1>1. s \in Recs
  BY OpenHas
<1> QED BY <1>1, DisconnStep DEF ServerStep, Server!Next

(* What _net_try_send_all does is told only by a close. *)
LEMMA SendsTold ==
  ASSUME Orderly, NEW s \in Opened, NEW p \in Records, p.state = ses[s].state,
         NEW c, NEW accepted, NEW next, next = at \/ next.call = "none",
         Sends(s, p, c, accepted, next)
  PROVE  ServerStep
<1>1. /\ s \in Recs /\ ses \in [Recs -> Records]
  BY OpenHas DEF Orderly, Typed
<1>2. CASE Close(s)
  BY <1>2, DisconnTold
<1>3. ASSUME NEW k \in 0 .. Unsent(p), ses' = [ses EXCEPT ![s] = Sent(p, k)], at' = next
      PROVE  ServerStep
  <2>1. Sent(p, k).state = ses[s].state
    BY SentFits
  <2>2. PhaseOf' = [PhaseOf EXCEPT ![s] = Phase[ses[s].state]]
    <3>1. PhaseOf' = [PhaseOf EXCEPT ![s] = Phase[Sent(p, k).state]]
      BY <1>1, <1>3, PhaseMoves
    <3> QED BY <2>1, <3>1
  <2>3. PhaseOf' = PhaseOf
    BY <1>1, <2>2 DEF PhaseOf
  <2>4. Calling(at)' = Calling(next)
    BY <1>3 DEF Calling
  <2>5. Calling(at)' \in {Calling(at), Calling(NoEvent)}
    BY <2>4, NoCallback
  <2> QED BY <2>3, <2>5, QuietStep
<1> QED BY <1>2, <1>3 DEF Sends

(* net_disconnect moves the session on, unless it closes it at once. *)
LEMMA DisconnectTold ==
  ASSUME Orderly, NEW s \in Recs, Disconnect(s)
  PROVE  ServerStep
<1>1. PICK p \in Records, c \in Sockets :
         p = [ses[s] EXCEPT !.state = "closing"] /\ Sends(s, p, c, 0, at)
  BY DisconnectKeeps
<1>2. /\ s \in Opened /\ ses[s] \in Records /\ ses \in [Recs -> Records]
      /\ ses[s].state \in {"establishing", "normal"} /\ p.state = "closing"
  BY <1>1, DisconnectKeeps, OpenHas DEF Disconnect, Orderly, Typed, Records
<1>3. CASE Close(s)
  BY <1>2, <1>3, DisconnTold
<1>4. ASSUME NEW k \in 0 .. Unsent(p), ses' = [ses EXCEPT ![s] = Sent(p, k)], at' = at
      PROVE  ServerStep
  <2>1. Sent(p, k).state = "closing"
    BY <1>2, SentFits
  <2>2. PhaseOf' = [PhaseOf EXCEPT ![s] = "closing"]
    <3>1. PhaseOf' = [PhaseOf EXCEPT ![s] = Phase[Sent(p, k).state]]
      BY <1>2, <1>4, PhaseMoves
    <3> QED BY <2>1, <3>1, PhaseAt
  <2>3. PhaseOf[s] \in {"opening", "open"}
    BY <1>2, PhaseAt DEF PhaseOf
  <2>4. Calling(at)' = Calling(at)
    BY <1>4 DEF Calling
  <2>5. Server!Disconnect(s)
    BY <2>2, <2>3, <2>4 DEF Server!Disconnect, Server!Moves, PhaseOf
  <2> QED BY <2>5 DEF ServerStep, Server!Next
<1> QED BY <1>1, <1>3, <1>4 DEF Sends

(* A session is opened by the client, or by a peer and told so. *)
LEMMA NewTold ==
  ASSUME Orderly, NEW s \in Recs, NEW conn \in {"connecting", "up"}, NewSession(s, conn),
         at' = at \/ at' = [NoEvent EXCEPT !.ses = s, !.call = "acc"]
  PROVE  ServerStep
<1>1. /\ s \notin Opened /\ ses \in [Recs -> Records] /\ ses' = [ses EXCEPT ![s] = ses'[s]]
      /\ ses'[s].state = "establishing"
  BY NewKeeps DEF Orderly, Typed
<1>2. PhaseOf' = [PhaseOf EXCEPT ![s] = "opening"]
  BY <1>1, PhaseMoves, PhaseAt
<1>3. PhaseOf[s] = "none"
  BY <1>1, PhaseAt DEF PhaseOf, Opened
<1>4. Calling(at)' = Calling(at) \/ Calling(at)' = [ses |-> s, call |-> "acc"]
  BY NoEventHandled DEF Calling, NoEvent
<1>5. Server!Open(s)
  BY <1>2, <1>3, <1>4 DEF Server!Open, Server!Moves, Server!Calls, PhaseOf
<1> QED BY <1>5 DEF ServerStep, Server!Next

(* The callback that tells a session connected. *)
LEMMA OnConnectTold ==
  ASSUME Orderly, OnConnect
  PROVE  ServerStep
<1> DEFINE s == at.ses
<1>1. /\ s \in Opened /\ s \in Recs /\ ses \in [Recs -> Records] /\ ses[s].state = "establishing"
  BY Handling, OpenHas DEF OnConnect, Doing, Orderly, Typed
<1>2. PhaseOf' = [PhaseOf EXCEPT ![s] = "open"]
  <2>1. ses' = [ses EXCEPT ![s] = [ses[s] EXCEPT !.state = "normal"]]
    BY <1>1 DEF OnConnect
  <2>2. [ses[s] EXCEPT !.state = "normal"].state = "normal"
    BY <1>1 DEF Records
  <2>3. PICK q : q = [ses[s] EXCEPT !.state = "normal"]
    OBVIOUS
  <2>4. PICK t \in Recs : t = s
    BY <1>1
  <2> HIDE DEF s
  <2>5. PhaseOf' = [PhaseOf EXCEPT ![t] = Phase[q.state]]
    BY <1>1, <2>1, <2>3, <2>4, PhaseMoves
  <2> QED BY <2>2, <2>3, <2>4, <2>5, PhaseAt
<1>3. PhaseOf[s] = "opening"
  BY <1>1, PhaseAt DEF PhaseOf
<1>4. Calling(at)' = [ses |-> s, call |-> "conn"]
  BY DEF OnConnect, Calling, Orderly, Typed, Handled
<1> HIDE DEF s
<1>5. PICK t \in Recs : t = s
  BY <1>1
<1>6. Server!Conn(t)
  BY <1>2, <1>3, <1>4, <1>5 DEF Server!Conn, Server!Moves, Server!Calls, PhaseOf
<1> QED BY <1>6 DEF ServerStep, Server!Next

(* The callback of what was read, or none. *)
LEMMA RecvTold ==
  ASSUME Orderly, Reading, ses' = ses,
         at'.call = "none" \/ (at'.call = "recv" /\ at'.ses = at.ses)
  PROVE  ServerStep
<1> DEFINE s == at.ses
<1>1. s \in Recs /\ ses[s].state \in {"normal", "closing"}
  BY ReadingOpen, OpenHas
<1>2. PhaseOf' = PhaseOf /\ PhaseOf[s] \in {"open", "closing"}
  BY <1>1, PhaseAt DEF PhaseOf
<1>3. CASE at'.call = "none"
  <2>1. Calling(at)' = Calling(NoEvent)
    BY <1>3, NoEventHandled DEF Calling
  <2> QED BY <1>2, <2>1, QuietStep
<1>4. CASE at'.call = "recv" /\ at'.ses = s
  <2>1. Calling(at)' = [ses |-> s, call |-> "recv"]
    BY <1>4 DEF Calling
  <2> HIDE DEF s
  <2>2. Server!Recv(s)
    BY <1>2, <2>1 DEF Server!Recv, Server!Calls, PhaseOf
  <2> QED BY <1>1, <2>2 DEF ServerStep, Server!Next
<1> QED BY <1>3, <1>4

(* Every step of the net is a step of Sessions, or none. *)
LEMMA StepTold == Orderly /\ [Next]_vars => ServerStep
<1> SUFFICES ASSUME Orderly, [Next]_vars PROVE ServerStep
  OBVIOUS
<1>1. ASSUME ses' = ses, at' = at \/ at' = NoEvent PROVE ServerStep
  <2>1. PhaseOf' = PhaseOf
    BY <1>1 DEF PhaseOf
  <2>2. Calling(at)' \in {Calling(at), Calling(NoEvent)}
    BY <1>1 DEF Calling
  <2> QED BY <2>1, <2>2, QuietStep
<1>2. CASE EpollWait \/ Poll \/ Listen \/ DestroyAcceptor \/ Destroy \/ Create
           \/ PeerConnects \/ UNCHANGED vars
  BY <1>1, <1>2 DEF EpollWait, Poll, Listen, DestroyAcceptor, Destroy, Create,
                    PeerConnects, vars, session, pass
<1>3. ASSUME NEW fd \in Fds,
             Resolve(fd) \/ PeerSends(fd) \/ PeerEnds(fd) \/ PeerReads(fd) \/ Fails(fd)
      PROVE  ServerStep
  BY <1>1, <1>3 DEF Resolve, PeerSends, PeerEnds, PeerReads, Fails, Happens, session, pass
<1>4. CASE Take
  <2>1. ses' = ses /\ at'.call = "none"
    BY <1>4, NoEventHandled DEF Take, session, NoEvent
  <2>2. PhaseOf' = PhaseOf /\ Calling(at)' = Calling(NoEvent)
    BY <2>1, NoEventHandled DEF PhaseOf, Calling
  <2> QED BY <2>2, QuietStep
<1>5. CASE Accept
  BY <1>1, <1>5, NewTold DEF Accept, session
<1>6. CASE OnRecv
  <2>1. ses' = ses /\ at'.ses = at.ses /\ at'.call \in {"none", "recv"}
    BY <1>6 DEF OnRecv, session, Orderly, Typed, Handled
  <2> QED BY <1>6, <2>1, RecvTold DEF OnRecv
<1>7. CASE OnRecvEnd
  <2>1. CASE Drop(at.ses)
    BY <1>7, <2>1, OnRecvEndKeeps, DisconnTold DEF Drop
  <2>2. CASE ~Drop(at.ses)
    BY <1>7, <2>2, OnRecvEndKeeps, RecvTold DEF OnRecvEnd
  <2> QED BY <2>1, <2>2
<1>8. CASE OnError
  BY <1>8, OnErrorKeeps, DisconnTold DEF Drop
<1>9. CASE DestroySession
  BY <1>9, DestroySessionKeeps, DisconnTold DEF DestroySession, Drop
<1>10. CASE OnConnect
  BY <1>10, OnConnectTold
<1>11. CASE OnSend
  BY <1>11, OnSendKeeps, OpenHas, SendsTold
<1>12. ASSUME NEW s \in Recs, Connect(s) PROVE ServerStep
  BY <1>12, NewTold DEF Connect, pass
<1>13. ASSUME NEW s \in Recs, Disconnect(s) PROVE ServerStep
  BY <1>13, DisconnectTold
<1>14. ASSUME NEW s \in Recs, NEW n \in DataLens, Send(s, n) PROVE ServerStep
  <2>1. ses[s].state = "normal"
    BY <1>14 DEF Send
  <2> QED BY <1>14, <2>1, SendKeeps, SendsTold
<1> QED BY <1>2, <1>3, <1>4, <1>5, <1>6, <1>7, <1>8, <1>9, <1>10, <1>11, <1>12, <1>13, <1>14
        DEF Next, Loop, Client, Peers

(* Net implements Sessions: a session is told connected once, receives only *)
(* then, and is told nothing after the call that tells it disconnected.     *)
THEOREM Refinement == Spec => ImplementsSessions
<1>1. Init => Server!Init
  BY PhaseAt, ClosedRecord DEF Init, Server!Init
<1>2. Orderly /\ [Next]_vars => [Server!Next]_<<PhaseOf, Calling(at)>>
  BY StepTold DEF ServerStep
<1> QED BY <1>1, <1>2, Invariance, PTL DEF Spec, ImplementsSessions, Server!Spec, PhaseOf

-------------------------------------------------------------------------------
(* Why a session may be closed. *)
Justified(s) ==
  \/ SockOf(s).conn = "failed"
  \/ AtEnd(s) /\ SockOf(s).eof
  \/ owed'[s] = 0 /\ (ses[s].state = "closing" \/ Disconnect(s))
  \/ CutShort(s)
  \/ net = "down"

(* _net_try_send_all closes when the connection failed or all is sent. *)
LEMMA SendsJustified ==
  ASSUME Orderly, OwedExact, NEW s \in Opened, NEW p \in Records, NEW c, NEW next,
         Unsent(p) = Unsent(ses[s]), c.conn = SockOf(s).conn, Sends(s, p, c, 0, next),
         p.state = "closing" => ses[s].state = "closing" \/ Disconnect(s)
  PROVE  \A t \in Opened \ Opened' : Justified(t)
<1>1. s \in Recs /\ owed \in [Recs -> Int] /\ owed[s] = Unsent(p) /\ Unsent(p) \in Nat
  BY OpenHas, UnsentNat DEF Orderly, Typed, OwedExact
<1>2. CASE Opened' = Opened
  BY <1>2
<1>3. CASE Opened' = Opened \ {s} /\ c.conn = "failed"
  BY <1>3 DEF Justified
<1>4. CASE /\ Opened' = Opened \ {s} /\ p.state = "closing"
           /\ owed' = [owed EXCEPT ![s] = @ + 0 - Unsent(p)]
  <2>1. owed'[s] = 0
    BY <1>1, <1>4
  <2> QED BY <1>4, <2>1 DEF Justified
<1> QED BY <1>2, <1>3, <1>4 DEF Sends

(* No step closes a session without a reason. *)
LEMMA StepJustified ==
  ASSUME Orderly, OwedExact, [Next]_vars
  PROVE  \A t \in Opened \ Opened' : Justified(t)
<1>1. ASSUME ses' = ses PROVE Opened' = Opened
  BY <1>1 DEF Opened
<1>2. CASE EpollWait \/ Poll \/ Take \/ Listen \/ DestroyAcceptor \/ Destroy \/ Create
           \/ PeerConnects \/ UNCHANGED vars
  BY <1>1, <1>2 DEF EpollWait, Poll, Take, Listen, DestroyAcceptor, Destroy, Create,
                    PeerConnects, vars, session
<1>3. ASSUME NEW fd \in Fds,
             Resolve(fd) \/ PeerSends(fd) \/ PeerEnds(fd) \/ PeerReads(fd) \/ Fails(fd)
      PROVE  \A t \in Opened \ Opened' : Justified(t)
  BY <1>3, PeersKeep
<1>4. CASE Accept
  <2>1. CASE UNCHANGED <<backlog, session, sock>>
    BY <1>1, <2>1 DEF session
  <2>2. ASSUME NEW s \in Recs, NewSession(s, "up") PROVE Opened' = Opened \cup {s}
    BY <2>2, NewKeeps
  <2> QED BY <1>4, <2>1, <2>2 DEF Accept
<1>5. ASSUME NEW s \in Recs, Connect(s) PROVE Opened' = Opened \cup {s}
  BY <1>5, NewKeeps DEF Connect
<1>6. CASE OnConnect
  <2>1. at.ses \in Recs /\ ses[at.ses].state = "establishing" /\ ses \in [Recs -> Records]
    BY <1>6, Handling, OpenHas DEF OnConnect, Doing, Orderly, Typed
  <2>2. ses' = [ses EXCEPT ![at.ses].state = "normal"]
    BY <1>6 DEF OnConnect
  <2>3. \A t \in Recs : ses[t].state # "closed" => ses'[t].state # "closed"
    BY <2>1, <2>2 DEF Records
  <2> QED BY <2>3 DEF Opened
<1>7. CASE OnRecv
  BY <1>1, <1>7, OnRecvKeeps
<1>8. CASE OnRecvEnd
  <2> DEFINE s == at.ses
  <2>1. CASE Opened' = Opened
    BY <2>1
  <2>2. CASE Drop(s) /\ Opened' = Opened \ {s}
    <3>1. AtEnd(s) /\ (SockOf(s).shut => ses[s].state = "closing")
      BY <1>8, OnRecvEndKeeps DEF OnRecvEnd, AtEnd, Orderly, Fitting, Untouched
    <3>2. CASE SockOf(s).conn = "failed" \/ Ended(SockOf(s))
      BY <2>2, <3>1, <3>2 DEF Justified, CutShort, Ended
    <3>3. CASE ~(SockOf(s).conn = "failed" \/ Ended(SockOf(s)))
      <4>1. ses' = ses
        BY <1>8, <3>3 DEF OnRecvEnd, session
      <4> QED BY <1>1, <4>1
    <3> QED BY <3>2, <3>3
  <2> QED BY <1>8, <2>1, <2>2, OnRecvEndKeeps
<1>9. CASE OnError
  BY <1>9, OnErrorKeeps DEF Justified
<1>10. CASE DestroySession
  BY <1>10 DEF DestroySession, Justified
<1>11. CASE OnSend
  <2>1. /\ at.ses \in Opened /\ ses[at.ses] \in Records
        /\ Sends(at.ses, ses[at.ses], SockOf(at.ses), 0, Done("out"))
    BY <1>11, OnSendKeeps, OpenHas
  <2> QED BY <2>1, SendsJustified
<1>12. ASSUME NEW s \in Recs, Disconnect(s) PROVE \A t \in Opened \ Opened' : Justified(t)
  <2>1. PICK p \in Records, c \in Sockets :
           /\ p = [ses[s] EXCEPT !.state = "closing"] /\ c.conn = SockOf(s).conn
           /\ Sends(s, p, c, 0, at)
    BY <1>12, DisconnectKeeps
  <2>2. s \in Opened /\ ses[s] \in Records
    BY <1>12, DisconnectKeeps, OpenHas
  <2>3. Unsent(p) = Unsent(ses[s])
    BY <2>1, <2>2 DEF Unsent, Records
  <2> QED BY <1>12, <2>1, <2>2, <2>3, SendsJustified
<1>13. ASSUME NEW s \in Recs, NEW n \in DataLens, Send(s, n)
       PROVE  \A t \in Opened \ Opened' : Justified(t)
  BY <1>13, SendKeeps DEF Sends, Justified
<1> QED BY <1>2, <1>3, <1>4, <1>5, <1>6, <1>7, <1>8, <1>9, <1>10, <1>11, <1>12, <1>13
        DEF Next, Loop, Client, Peers

(* When the client leaves a byte of the send buffer free, a session of a net *)
(* that is up is closed only because its connection failed, because its peer *)
(* ended the input, or because the client asked for it and every byte        *)
(* net_send took has gone to the kernel, unless recv meets the end of the    *)
(* input that net_disconnect shut: that case is told apart, as CutShort.     *)
THEOREM ClosesJustified == ASSUME Careful PROVE Spec => CloseJustified
<1>1. Orderly /\ OwedExact /\ [Next]_vars => Orderly' /\ OwedExact'
  BY StepOrderly, OwedStep
<1>2. Init => Orderly /\ OwedExact
  BY InitOrderly, OwedInit
<1>3. Orderly /\ OwedExact /\ [Next]_vars
      => [\A s \in Opened \ Opened' : Justified(s)]_vars
  BY StepJustified
<1> QED BY <1>1, <1>2, <1>3, PTL DEF Spec, CloseJustified, Justified

-------------------------------------------------------------------------------
(* The ring buffer of ringbuf.c, when the writer leaves a byte of it free,  *)
(* for every size and all lengths of blocks.                                *)

Offsets == 0 .. size
Distance(r, w) == IF r <= w THEN w - r ELSE w + size - r

(* The k-th cell, counted from 0, from an offset on. *)
Cell(o, k) == IF o + k < size THEN o + k ELSE o + k - size

(* The bytes a call has copied when it is through with the first n. *)
First(n) == [k \in 1 .. n |-> mem[Cell(r_offset, k - 1)]]

-------------------------------------------------------------------------------
(* What a call has still to do: everything, the piece at the start of the   *)
(* memory, or only to store its offset.                                     *)
Starts(c, o, n) == c = Around(o, n)
Turns(c, o, n) == o + n > size /\ c = InOne(0, n - (size - o))
Stops(c, o, n) == c = [pieces |-> <<>>, to |-> Around(o, n).to]

WriteSound ==
  \/ writing = NoCall
  \/ \E n \in Blocks : /\ Unread + n < size
                       /\ \/ Starts(writing, w_offset, n)
                          \/ Turns(writing, w_offset, n)
                          \/ Stops(writing, w_offset, n)

ReadSound ==
  \/ reading = NoCall /\ buf = <<>>
  \/ \E n \in Blocks :
       /\ n <= Unread
       /\ \/ Starts(reading, r_offset, n) /\ buf = <<>>
          \/ Turns(reading, r_offset, n) /\ buf = First(size - r_offset)
          \/ Stops(reading, r_offset, n) /\ buf = First(n)

MemoryOK ==
  /\ r_offset \in Offsets /\ w_offset \in Offsets /\ Unread < size
  /\ mem \in [0 .. (size - 1) -> Bytes]
  /\ sent \in Bytes
  /\ got \in Seq(Bytes) /\ Len(got) <= size

RingInv == MemoryOK /\ WriteSound /\ ReadSound

-------------------------------------------------------------------------------
(* Offsets and distances. *)
LEMMA AroundTo ==
  ASSUME NEW o \in Offsets, NEW n \in 1 .. size
  PROVE  /\ Around(o, n).to = IF o + n <= size THEN o + n ELSE o + n - size
         /\ Around(o, n).to \in Offsets
<1>1. size \in Nat \ {0}
  BY RingAssumption
<1>2. CASE o + n <= size
  <2>1. size - o >= n
    BY <1>1, <1>2 DEF Offsets
  <2> QED BY <1>1, <1>2, <2>1 DEF Around, InOne, Offsets
<1>3. CASE o + n > size
  <2>1. ~(size - o >= n)
    BY <1>1, <1>3 DEF Offsets
  <2> QED BY <1>1, <1>3, <2>1 DEF Around, InOne, Offsets
<1> QED BY <1>1, <1>2, <1>3 DEF Offsets

LEMMA ReaderMoves ==
  ASSUME NEW r \in Offsets, NEW w \in Offsets, NEW n \in 1 .. size, n <= Distance(r, w)
  PROVE  /\ Distance(Around(r, n).to, w) = Distance(r, w) - n
         /\ \A k \in 0 .. Distance(r, w) - n - 1 : Cell(Around(r, n).to, k) = Cell(r, n + k)
<1> DEFINE to == Around(r, n).to
<1>1. size \in Nat \ {0} /\ to = IF r + n <= size THEN r + n ELSE r + n - size
  BY AroundTo, RingAssumption
<1> HIDE DEF to
<1>2. Distance(to, w) = Distance(r, w) - n
  BY <1>1 DEF Distance, Offsets
<1>3. ASSUME NEW k \in 0 .. Distance(r, w) - n - 1
      PROVE  Cell(to, k) = Cell(r, n + k)
  BY <1>1 DEF Distance, Offsets, Cell
<1> QED BY <1>2, <1>3 DEF to

LEMMA WriterMoves ==
  ASSUME NEW r \in Offsets, NEW w \in Offsets, NEW n \in 1 .. size, Distance(r, w) + n < size
  PROVE  Distance(r, Around(w, n).to) = Distance(r, w) + n
<1> DEFINE to == Around(w, n).to
<1>1. size \in Nat \ {0} /\ to = IF w + n <= size THEN w + n ELSE w + n - size
  BY AroundTo, RingAssumption
<1> HIDE DEF to
<1>2. Distance(r, to) = Distance(r, w) + n
  BY <1>1 DEF Distance, Offsets
<1> QED BY <1>2 DEF to

(* The cells being written hold nothing that is still to be read. *)
LEMMA Apart ==
  ASSUME NEW r \in Offsets, NEW w \in Offsets, NEW n \in 1 .. size, Distance(r, w) + n < size,
         NEW k \in 0 .. Distance(r, w) - 1, NEW j \in 0 .. n - 1
  PROVE  Cell(r, k) # Cell(w, j) /\ Cell(r, k) \in 0 .. size - 1
BY RingAssumption DEF Distance, Offsets, Cell

(* The remainder that the refinement mapping takes. *)
LEMMA RemainderOnce ==
  ASSUME NEW x \in Nat, NEW s \in Nat \ {0}, x < 2 * s
  PROVE  x % s = IF x < s THEN x ELSE x - s
<1> DEFINE q == x \div s
           m == x % s
<1>1. q \in Int /\ x = s * q + m /\ m \in 0 .. s - 1
  OBVIOUS
<1> HIDE DEF q, m
<1>2. q >= 0
  BY <1>1
<1>3. q < 2
  BY <1>1, <1>2
<1>4. q = 0 \/ q = 1
  BY <1>1, <1>2, <1>3
<1>5. m = IF x < s THEN x ELSE x - s
  BY <1>1, <1>4
<1> QED BY <1>5 DEF m

LEMMA CellIsRemainder ==
  ASSUME NEW o \in Offsets, NEW k \in 0 .. size - 1
  PROVE  (o + k) % size = Cell(o, k)
<1>1. size \in Nat \ {0} /\ o + k \in Nat /\ o + k < 2 * size
  BY RingAssumption DEF Offsets
<1>2. (o + k) % size = IF o + k < size THEN o + k ELSE (o + k) - size
  BY <1>1, RemainderOnce
<1> QED BY <1>1, <1>2 DEF Cell, Offsets

-------------------------------------------------------------------------------
(* Sequences written as functions. *)
LEMMA FunctionConcat ==
  ASSUME NEW S, NEW a \in Nat, NEW b \in Nat, NEW s \in [1 .. a + b -> S]
  PROVE  s = [k \in 1 .. a |-> s[k]] \o [k \in 1 .. b |-> s[a + k]]
<1> DEFINE u == [k \in 1 .. a |-> s[k]]
           v == [k \in 1 .. b |-> s[a + k]]
<1>1. \A k \in 1 .. b : a + k \in 1 .. a + b
  OBVIOUS
<1>2. u \in Seq(S) /\ Len(u) = a /\ v \in Seq(S) /\ Len(v) = b
  BY <1>1
<1>3. s \in Seq(S) /\ Len(s) = a + b
  OBVIOUS
<1>4. \A i \in 1 .. a : u[i] = s[i]
  OBVIOUS
<1>5. \A i \in 1 .. b : v[i] = s[a + i]
  OBVIOUS
<1> HIDE DEF u, v
<1>6. /\ u \o v \in Seq(S) /\ Len(u \o v) = a + b
      /\ \A i \in 1 .. a + b : (u \o v)[i] = IF i <= a THEN u[i] ELSE v[i - a]
  BY <1>2, ConcatProperties
<1>7. \A i \in 1 .. a + b : (u \o v)[i] = s[i]
  <2> TAKE i \in 1 .. a + b
  <2>1. CASE i <= a
    BY <1>4, <1>6, <2>1
  <2>2. CASE i > a
    <3>1. i - a \in 1 .. b /\ a + (i - a) = i
      BY <2>2
    <3> QED BY <1>5, <1>6, <2>2, <3>1
  <2>3. i <= a \/ i > a
    OBVIOUS
  <2> QED BY <2>1, <2>2, <2>3
<1>8. s = u \o v
  BY <1>3, <1>6, <1>7, SeqEqual
<1> QED BY <1>8 DEF u, v

LEMMA FunctionSubSeq ==
  ASSUME NEW S, NEW n \in Nat, NEW m \in 0 .. n, NEW s \in [1 .. n -> S]
  PROVE  /\ SubSeq(s, 1, m) = [k \in 1 .. m |-> s[k]]
         /\ SubSeq(s, m + 1, n) = [k \in 1 .. n - m |-> s[m + k]]
<1>1. SubSeq(s, 1, m) = [k \in 1 .. m |-> s[k]]
  OBVIOUS
<1>2. SubSeq(s, m + 1, n) = [k \in 1 .. n - m |-> s[m + k]]
  OBVIOUS
<1> QED BY <1>1, <1>2

-------------------------------------------------------------------------------
LEMMA UnreadType ==
  ASSUME MemoryOK
  PROVE  Unread = Distance(r_offset, w_offset) /\ Unread \in 0 .. size - 1
BY RingAssumption DEF MemoryOK, Unread, Distance, Offsets

(* What has been copied is bytes of the memory. *)
LEMMA FirstType ==
  ASSUME MemoryOK, NEW n \in 0 .. Unread
  PROVE  First(n) \in [1 .. n -> Bytes] /\ First(n) \in Seq(Bytes) /\ Len(First(n)) = n
<1>1. size \in Nat \ {0} /\ Unread \in 0 .. size - 1
  BY UnreadType, RingAssumption
<1>2. \A k \in 1 .. n : Cell(r_offset, k - 1) \in 0 .. size - 1
  BY <1>1 DEF MemoryOK, Offsets, Cell
<1>3. \A k \in 1 .. n : mem[Cell(r_offset, k - 1)] \in Bytes
  BY <1>2 DEF MemoryOK
<1>4. First(n) \in [1 .. n -> Bytes]
  BY <1>3 DEF First
<1>5. First(n) = [k \in 1 .. n |-> First(n)[k]] /\ n \in Nat
  BY <1>1, <1>4
<1> QED BY <1>4, <1>5

(* One copy: what is copied, and how far the call is then. *)
LEMMA Copies ==
  ASSUME NEW o \in Offsets, NEW n \in 1 .. size, NEW c, c.pieces # <<>>,
         Starts(c, o, n) \/ Turns(c, o, n) \/ Stops(c, o, n)
  PROVE  LET p == Head(c.pieces)
             d == [c EXCEPT !.pieces = Tail(@)]
         IN  \/ Starts(c, o, n) /\ o + n <= size /\ p = <<o, n>> /\ Stops(d, o, n)
             \/ Starts(c, o, n) /\ o + n > size /\ p = <<o, size - o>> /\ Turns(d, o, n)
             \/ Turns(c, o, n) /\ p = <<0, n - (size - o)>> /\ Stops(d, o, n)
<1> DEFINE p == Head(c.pieces)
           d == [c EXCEPT !.pieces = Tail(@)]
           l == n - (size - o)
<1>1. size \in Nat \ {0} /\ o \in 0 .. size /\ (size - o >= n <=> o + n <= size)
  BY RingAssumption DEF Offsets
<1>2. \A x : Head(<<x>>) = x /\ Tail(<<x>>) = <<>>
  OBVIOUS
<1>3. \A x, y : Head(<<x, y>>) = x /\ Tail(<<x, y>>) = <<y>>
  OBVIOUS
<1>4. CASE Starts(c, o, n) /\ o + n <= size
  <2>1. c = [pieces |-> << <<o, n>> >>, to |-> o + n] /\ Around(o, n).to = o + n
    BY <1>1, <1>4 DEF Starts, Around, InOne
  <2>2. p = <<o, n>> /\ d = [pieces |-> <<>>, to |-> o + n]
    BY <1>2, <2>1
  <2> QED BY <1>4, <2>1, <2>2 DEF Stops
<1>5. CASE Starts(c, o, n) /\ o + n > size
  <2>1. c = [pieces |-> << <<o, size - o>>, <<0, l>> >>, to |-> l]
    BY <1>1, <1>5 DEF Starts, Around
  <2>2. p = <<o, size - o>> /\ d = [pieces |-> << <<0, l>> >>, to |-> l]
    BY <1>3, <2>1
  <2>3. InOne(0, l) = [pieces |-> << <<0, l>> >>, to |-> l]
    BY <1>1 DEF InOne
  <2> QED BY <1>5, <2>2, <2>3 DEF Turns
<1>6. CASE Turns(c, o, n)
  <2>1. c = [pieces |-> << <<0, l>> >>, to |-> l] /\ Around(o, n).to = l
    BY <1>1, <1>6 DEF Turns, Around, InOne
  <2>2. p = <<0, l>> /\ d = [pieces |-> <<>>, to |-> l]
    BY <1>2, <2>1
  <2> QED BY <1>6, <2>1, <2>2 DEF Stops
<1>7. ~Stops(c, o, n)
  BY DEF Stops
<1>8. o + n <= size \/ o + n > size
  BY <1>1
<1> QED BY <1>4, <1>5, <1>6, <1>7, <1>8

(* A call that has nothing to copy has only its offset to store. *)
LEMMA CopiedAll ==
  ASSUME NEW o \in Offsets, NEW n \in 1 .. size, NEW c, c.pieces = <<>>,
         Starts(c, o, n) \/ Turns(c, o, n) \/ Stops(c, o, n)
  PROVE  Stops(c, o, n) /\ c.to = Around(o, n).to
<1>1. ~Starts(c, o, n)
  BY DEF Starts, Around, InOne
<1>2. ~Turns(c, o, n)
  <2>1. \A m : InOne(0, m).pieces # <<>>
    BY DEF InOne
  <2> QED BY <2>1 DEF Turns
<1> QED BY <1>1, <1>2 DEF Stops

-------------------------------------------------------------------------------
LEMMA RingInitInv == RingInit => RingInv
<1> SUFFICES ASSUME RingInit PROVE RingInv
  OBVIOUS
<1>1. r_offset = 0 /\ w_offset = 0 /\ Unread = 0 /\ size \in Nat \ {0}
  BY RingAssumption DEF RingInit, Unread
<1>2. /\ mem \in [0 .. (size - 1) -> Bytes] /\ sent \in Bytes
      /\ got \in Seq(Bytes) /\ Len(got) = 0
  BY <1>1 DEF RingInit, Bytes
<1> QED BY <1>1, <1>2 DEF RingInit, RingInv, MemoryOK, Offsets, WriteSound, ReadSound

LEMMA WriteBeginInv ==
  ASSUME LeavesOne, RingInv, NEW n \in Blocks, WriteBegin(n)
  PROVE  RingInv'
<1>1. n \in 1 .. size /\ size \in Nat \ {0} /\ Unread + n < size
  BY RingAssumption DEF WriteBegin
<1>2. writing' = Around(w_offset, n)
  <2>1. CASE w_offset < r_offset
    <3>1. size - w_offset >= n
      BY <1>1, <2>1 DEF WriteBegin, HasRoom, RingInv, MemoryOK, Offsets
    <3> QED BY <2>1, <3>1 DEF WriteBegin, Around
  <2>2. CASE ~(w_offset < r_offset)
    BY <2>2 DEF WriteBegin
  <2> QED BY <2>1, <2>2
<1>3. /\ UNCHANGED <<r_offset, w_offset, mem, sent, reading, buf, got>>
  BY DEF WriteBegin
<1>4. Unread' = Unread /\ \A m : First(m)' = First(m)
  BY <1>3 DEF Unread, First
<1> QED BY <1>1, <1>2, <1>3, <1>4
        DEF RingInv, MemoryOK, WriteSound, ReadSound, Starts, Turns, Stops

LEMMA ReadBeginInv ==
  ASSUME RingInv, NEW n \in Blocks, ReadBegin(n)
  PROVE  RingInv'
<1>1. n \in 1 .. size /\ size \in Nat \ {0}
  BY RingAssumption
<1>2. n <= Unread /\ (r_offset <= w_offset => size - r_offset >= n)
  BY <1>1 DEF ReadBegin, Has, Unread, RingInv, MemoryOK, Offsets
<1>3. reading' = Around(r_offset, n)
  BY <1>2 DEF ReadBegin, Around
<1>4. UNCHANGED <<r_offset, w_offset, mem, sent, writing, buf, got>> /\ reading = NoCall
  BY DEF ReadBegin
<1>5. buf = <<>>
  <2>1. \A m \in Blocks : ~Starts(reading, r_offset, m) /\ ~Turns(reading, r_offset, m)
    BY <1>4 DEF Starts, Turns, Around, InOne, NoCall
  <2>2. \A m \in Blocks : Around(r_offset, m).to # -1
    BY AroundTo, RingAssumption DEF RingInv, MemoryOK, Offsets
  <2>3. \A m \in Blocks : ~Stops(reading, r_offset, m)
    BY <1>4, <2>2 DEF Stops, NoCall
  <2> QED BY <2>1, <2>3 DEF RingInv, ReadSound
<1>6. Unread' = Unread
  BY <1>4 DEF Unread
<1>7. ReadSound'
  BY <1>2, <1>3, <1>4, <1>5, <1>6 DEF ReadSound, Starts
<1> QED BY <1>4, <1>6, <1>7 DEF RingInv, MemoryOK, WriteSound, Starts, Turns, Stops

(* A copy into the ring leaves what is there to read as it is. *)
LEMMA WriteCopyKeeps ==
  ASSUME RingInv, WriteCopy
  PROVE  /\ \A k \in 0 .. Unread - 1 :
              mem'[Cell(r_offset, k)] = mem[Cell(r_offset, k)]
         /\ \E n \in Blocks : /\ Unread + n < size
                              /\ Turns(writing', w_offset, n) \/ Stops(writing', w_offset, n)
<1> DEFINE o == Head(writing.pieces)[1]
           l == Head(writing.pieces)[2]
<1>1. writing.pieces # <<>> /\ writing # NoCall
  BY DEF WriteCopy, NoCall
<1>2. PICK n \in Blocks : /\ Unread + n < size
                          /\ \/ Starts(writing, w_offset, n)
                             \/ Turns(writing, w_offset, n)
                             \/ Stops(writing, w_offset, n)
  BY <1>1 DEF RingInv, WriteSound
<1>3. n \in 1 .. size /\ size \in Nat \ {0} /\ w_offset \in Offsets /\ r_offset \in Offsets
  BY RingAssumption DEF RingInv, MemoryOK
<1>4. writing' = [writing EXCEPT !.pieces = Tail(@)]
  BY DEF WriteCopy
<1>5. /\ Turns(writing', w_offset, n) \/ Stops(writing', w_offset, n)
      /\ \/ w_offset + n <= size /\ o = w_offset /\ l = n
         \/ w_offset + n > size /\ o = w_offset /\ l = size - w_offset
         \/ w_offset + n > size /\ o = 0 /\ l = n - (size - w_offset)
  <2> DEFINE c == writing
             p == Head(c.pieces)
             d == [c EXCEPT !.pieces = Tail(@)]
  <2>1. \/ Starts(c, w_offset, n) /\ w_offset + n <= size /\ p = <<w_offset, n>> /\ Stops(d, w_offset, n)
        \/ Starts(c, w_offset, n) /\ w_offset + n > size /\ p = <<w_offset, size - w_offset>>
             /\ Turns(d, w_offset, n)
        \/ Turns(c, w_offset, n) /\ p = <<0, n - (size - w_offset)>> /\ Stops(d, w_offset, n)
    BY <1>1, <1>2, <1>3, Copies
  <2> QED BY <1>4, <2>1 DEF Turns
<1>6. \A i \in 0 .. size - 1 : mem'[i] # mem[i] => i \in o .. o + l - 1
  <2>1. mem' = [i \in DOMAIN mem |->
                  IF i \in o .. (o + l - 1) THEN (sent + i - o) % (size + 1) ELSE mem[i]]
    BY DEF WriteCopy
  <2>2. DOMAIN mem = 0 .. size - 1
    BY DEF RingInv, MemoryOK
  <2> QED BY <2>1, <2>2
<1> HIDE DEF o, l
<1>7. \A i \in 0 .. size - 1 : i \in o .. o + l - 1 => \E j \in 0 .. n - 1 : i = Cell(w_offset, j)
  <2> SUFFICES ASSUME NEW i \in 0 .. size - 1, i \in o .. o + l - 1
               PROVE  \E j \in 0 .. n - 1 : i = Cell(w_offset, j)
    OBVIOUS
  <2>1. CASE o = w_offset
    <3>1. i - w_offset \in 0 .. n - 1 /\ i = Cell(w_offset, i - w_offset)
      BY <1>3, <1>5, <2>1 DEF Cell, Offsets
    <3> QED BY <3>1
  <2>2. CASE o = 0 /\ w_offset + n > size /\ l = n - (size - w_offset)
    <3>1. i + size - w_offset \in 0 .. n - 1 /\ i = Cell(w_offset, i + size - w_offset)
      BY <1>3, <2>2 DEF Cell, Offsets
    <3> QED BY <3>1
  <2> QED BY <1>5, <2>1, <2>2
<1>8. ASSUME NEW k \in 0 .. Unread - 1
      PROVE  mem'[Cell(r_offset, k)] = mem[Cell(r_offset, k)]
  <2>1. Unread = Distance(r_offset, w_offset)
    BY UnreadType DEF RingInv
  <2>2. /\ Cell(r_offset, k) \in 0 .. size - 1
        /\ \A j \in 0 .. n - 1 : Cell(r_offset, k) # Cell(w_offset, j)
    <3>1. 0 \in 0 .. n - 1
      BY <1>3
    <3> QED BY <1>2, <1>3, <2>1, <3>1, Apart
  <2> QED BY <1>6, <1>7, <2>2
<1> QED BY <1>2, <1>5, <1>8

(* The bytes a reader has copied, and those it has still to copy, are the   *)
(* same after a copy into the ring.                                         *)
LEMMA WriteCopyFirst ==
  ASSUME RingInv, WriteCopy
  PROVE  Unread' = Unread /\ \A n \in 0 .. Unread : First(n)' = First(n)
<1>1. r_offset' = r_offset /\ w_offset' = w_offset
  BY DEF WriteCopy
<1>2. Unread' = Unread /\ Unread \in Nat
  BY <1>1, UnreadType DEF Unread, RingInv
<1>3. ASSUME NEW n \in 0 .. Unread
      PROVE  First(n)' = First(n)
  <2>1. \A k \in 1 .. n : k - 1 \in 0 .. Unread - 1
    BY <1>2
  <2>2. \A k \in 1 .. n : mem'[Cell(r_offset, k - 1)] = mem[Cell(r_offset, k - 1)]
    BY <2>1, WriteCopyKeeps
  <2>3. First(n)' = [k \in 1 .. n |-> mem'[Cell(r_offset, k - 1)]]
    BY <1>1 DEF First, Cell
  <2> QED BY <2>2, <2>3 DEF First
<1> QED BY <1>2, <1>3

LEMMA WriteCopyInv ==
  ASSUME RingInv, WriteCopy
  PROVE  RingInv'
<1>1. UNCHANGED <<r_offset, w_offset, reading, buf, got>> /\ Unread' = Unread
  BY WriteCopyFirst DEF WriteCopy
<1>2. size \in Nat \ {0} /\ Unread \in 0 .. size - 1 /\ r_offset \in Offsets
  BY RingAssumption, UnreadType DEF RingInv, MemoryOK
<1>3. WriteSound'
  BY <1>1, WriteCopyKeeps DEF WriteSound, Turns, Stops
<1>4. ReadSound'
  <2>1. \A n \in Blocks : n <= Unread => First(n)' = First(n)
    <3>1. \A n \in Blocks : n \in Nat
      BY RingAssumption
    <3> QED BY <1>2, <3>1, WriteCopyFirst
  <2>2. \A n \in Blocks : n <= Unread /\ r_offset + n > size =>
                            First(size - r_offset)' = First(size - r_offset)
    <3> SUFFICES ASSUME NEW n \in Blocks, n <= Unread, r_offset + n > size
                 PROVE  First(size - r_offset)' = First(size - r_offset)
      OBVIOUS
    <3>1. PICK a \in 0 .. Unread : a = size - r_offset
      BY <1>2, RingAssumption DEF Offsets
    <3>2. First(a)' = First(a)
      BY WriteCopyFirst
    <3> QED BY <1>1, <3>1, <3>2 DEF First
  <2>3. \A n \in Blocks : Turns(reading, r_offset, n) => r_offset + n > size
    BY DEF Turns
  <2>4. CASE reading = NoCall /\ buf = <<>>
    BY <1>1, <2>4 DEF ReadSound
  <2>5. CASE ~(reading = NoCall /\ buf = <<>>)
    <3>1. PICK n \in Blocks :
            /\ n <= Unread
            /\ \/ Starts(reading, r_offset, n) /\ buf = <<>>
               \/ Turns(reading, r_offset, n) /\ buf = First(size - r_offset)
               \/ Stops(reading, r_offset, n) /\ buf = First(n)
      BY <2>5 DEF RingInv, ReadSound
    <3>2. /\ n <= Unread'
          /\ \/ Starts(reading, r_offset, n)' /\ buf' = <<>>
             \/ Turns(reading, r_offset, n)' /\ buf' = First(size - r_offset)'
             \/ Stops(reading, r_offset, n)' /\ buf' = First(n)'
      BY <1>1, <2>1, <2>2, <2>3, <3>1 DEF Starts, Turns, Stops
    <3> QED BY <3>2 DEF ReadSound
  <2> QED BY <2>4, <2>5
<1>5. MemoryOK'
  <2> DEFINE o == Head(writing.pieces)[1]
             l == Head(writing.pieces)[2]
  <2>1. /\ mem' = [i \in DOMAIN mem |->
                     IF i \in o .. (o + l - 1) THEN (sent + i - o) % (size + 1) ELSE mem[i]]
        /\ sent' = (sent + l) % (size + 1)
    BY DEF WriteCopy
  <2>2. o \in Int /\ l \in Int
    <3>1. writing.pieces # <<>> /\ writing # NoCall
      BY DEF WriteCopy, NoCall
    <3>2. PICK n \in Blocks : \/ Starts(writing, w_offset, n)
                              \/ Turns(writing, w_offset, n)
                              \/ Stops(writing, w_offset, n)
      BY <3>1 DEF RingInv, WriteSound
    <3>3. n \in 1 .. size /\ w_offset \in Offsets
      BY RingAssumption DEF RingInv, MemoryOK
    <3>4. Head(writing.pieces) \in {<<w_offset, n>>, <<w_offset, size - w_offset>>,
                                    <<0, n - (size - w_offset)>>}
      BY <3>1, <3>2, <3>3, Copies
    <3>5. w_offset \in Int /\ n \in Int /\ size - w_offset \in Int
      BY <1>2, <3>3 DEF Offsets
    <3> QED BY <1>2, <3>4, <3>5
  <2> HIDE DEF o, l
  <2>3. /\ mem \in [0 .. size - 1 -> Bytes] /\ sent \in Int
    BY <1>2 DEF RingInv, MemoryOK, Bytes
  <2>4. \A x \in Int : x % (size + 1) \in Bytes
    BY <1>2 DEF Bytes
  <2>5. \A i \in 0 .. size - 1 : (sent + i - o) \in Int
    BY <2>2, <2>3
  <2>6. mem' \in [0 .. size - 1 -> Bytes] /\ sent' \in Bytes
    BY <2>1, <2>2, <2>3, <2>4, <2>5
  <2> QED BY <1>1, <2>6 DEF RingInv, MemoryOK
<1> QED BY <1>3, <1>4, <1>5 DEF RingInv

(* The writer stores its offset, and what it wrote can be read. *)
LEMMA WriteEndMoves ==
  ASSUME RingInv, WriteEnd
  PROVE  \E n \in Blocks : /\ Unread + n < size /\ Unread' = Unread + n
                           /\ w_offset' \in Offsets
<1>1. writing # NoCall /\ writing.pieces = <<>> /\ w_offset' = writing.to /\ r_offset' = r_offset
  BY DEF WriteEnd
<1>2. PICK n \in Blocks : /\ Unread + n < size
                          /\ \/ Starts(writing, w_offset, n)
                             \/ Turns(writing, w_offset, n)
                             \/ Stops(writing, w_offset, n)
  BY <1>1 DEF RingInv, WriteSound
<1>3. n \in 1 .. size /\ w_offset \in Offsets /\ r_offset \in Offsets
  BY RingAssumption DEF RingInv, MemoryOK
<1>4. w_offset' = Around(w_offset, n).to
  BY <1>1, <1>2, <1>3, CopiedAll
<1>5. w_offset' \in Offsets
  BY <1>3, <1>4, AroundTo
<1>6. Unread = Distance(r_offset, w_offset) /\ Unread' = Distance(r_offset, w_offset')
  BY <1>1 DEF Unread, Distance
<1>7. Unread' = Unread + n
  BY <1>2, <1>3, <1>4, <1>6, WriterMoves
<1> QED BY <1>2, <1>5, <1>7

LEMMA WriteEndInv ==
  ASSUME RingInv, WriteEnd
  PROVE  RingInv'
<1>1. PICK n \in Blocks : /\ Unread + n < size /\ Unread' = Unread + n
                          /\ w_offset' \in Offsets
  BY WriteEndMoves
<1>2. UNCHANGED <<r_offset, mem, sent, reading, buf, got>> /\ writing' = NoCall
  BY DEF WriteEnd
<1>3. n \in Nat /\ Unread \in Nat /\ size \in Nat /\ \A m \in Blocks : m \in Nat
  BY RingAssumption, UnreadType DEF RingInv
<1>4. \A m : First(m)' = First(m)
  BY <1>2 DEF First, Cell
<1>5. ReadSound'
  <2>1. \A m \in Blocks : m <= Unread => m <= Unread'
    BY <1>1, <1>3
  <2> QED BY <1>2, <1>4, <2>1 DEF RingInv, ReadSound, Starts, Turns, Stops
<1>6. MemoryOK'
  BY <1>1, <1>2 DEF RingInv, MemoryOK
<1> QED BY <1>2, <1>5, <1>6 DEF RingInv, WriteSound

(* A copy out of the ring adds the next bytes to those copied before. *)
LEMMA ReadCopyInv ==
  ASSUME RingInv, ReadCopy
  PROVE  RingInv'
<1> DEFINE r == r_offset
           o == Head(reading.pieces)[1]
           l == Head(reading.pieces)[2]
           piece == [k \in 1 .. l |-> mem[o + k - 1]]
<1>1. reading.pieces # <<>> /\ reading # NoCall
  BY DEF ReadCopy, NoCall
<1>2. /\ reading' = [reading EXCEPT !.pieces = Tail(@)] /\ buf' = buf \o piece
      /\ UNCHANGED <<r_offset, w_offset, mem, sent, writing, got>>
  BY DEF ReadCopy
<1>3. PICK n \in Blocks : /\ n <= Unread
                          /\ \/ Starts(reading, r, n) /\ buf = <<>>
                             \/ Turns(reading, r, n) /\ buf = First(size - r)
                             \/ Stops(reading, r, n) /\ buf = First(n)
  BY <1>1 DEF RingInv, ReadSound
<1>4. /\ n \in 1 .. size /\ size \in Nat \ {0} /\ r \in 0 .. size
      /\ Unread \in 0 .. size - 1 /\ n \in 0 .. Unread
  BY <1>3, RingAssumption, UnreadType DEF RingInv, MemoryOK, Offsets
<1>5. Unread' = Unread /\ \A m : First(m)' = First(m)
  BY <1>2 DEF Unread, First, Cell
<1>6. LET p == Head(reading.pieces)
          d == [reading EXCEPT !.pieces = Tail(@)]
      IN  \/ Starts(reading, r, n) /\ r + n <= size /\ p = <<r, n>> /\ Stops(d, r, n)
          \/ Starts(reading, r, n) /\ r + n > size /\ p = <<r, size - r>> /\ Turns(d, r, n)
          \/ Turns(reading, r, n) /\ p = <<0, n - (size - r)>> /\ Stops(d, r, n)
  BY <1>1, <1>3, <1>4, Copies DEF Offsets
<1>7. ~Turns(reading, r, n) \/ ~Starts(reading, r, n)
  <2>1. Turns(reading, r, n) => Len(reading.pieces) = 1
    BY DEF Turns, InOne
  <2>2. Starts(reading, r, n) /\ r + n > size => Len(reading.pieces) = 2
    BY <1>4 DEF Starts, Around
  <2> QED BY <2>1, <2>2 DEF Turns
<1>8. ~Stops(reading, r, n)
  BY <1>1 DEF Stops
<1>9. CASE Starts(reading, r, n) /\ r + n <= size
  <2>1. o = r /\ l = n /\ Stops(reading', r, n) /\ buf = <<>>
    BY <1>2, <1>3, <1>4, <1>6, <1>7, <1>8, <1>9
  <2>2. \A k \in 1 .. n : o + k - 1 = Cell(r, k - 1)
    BY <1>4, <1>9, <2>1 DEF Cell
  <2>3. piece = First(n)
    BY <2>1, <2>2 DEF First
  <2>4. buf' = First(n)
    <3>1. First(n) \in Seq(Bytes)
      BY <1>4, FirstType DEF RingInv
    <3> QED BY <1>2, <2>1, <2>3, <3>1, ConcatEmptySeq
  <2> QED BY <1>2, <1>3, <1>5, <2>1, <2>4
          DEF RingInv, MemoryOK, WriteSound, ReadSound, Starts, Turns, Stops
<1>10. CASE Starts(reading, r, n) /\ r + n > size
  <2>1. o = r /\ l = size - r /\ Turns(reading', r, n) /\ buf = <<>>
    BY <1>2, <1>3, <1>4, <1>6, <1>7, <1>8, <1>10
  <2>2. \A k \in 1 .. size - r : o + k - 1 = Cell(r, k - 1)
    BY <1>4, <2>1 DEF Cell
  <2>3. piece = First(size - r)
    BY <2>1, <2>2 DEF First
  <2>4. buf' = First(size - r)
    <3>1. size - r \in 0 .. Unread
      BY <1>4, <1>10
    <3>2. First(size - r) \in Seq(Bytes)
      BY <3>1, FirstType DEF RingInv
    <3> QED BY <1>2, <2>1, <2>3, <3>2, ConcatEmptySeq
  <2> QED BY <1>2, <1>3, <1>5, <2>1, <2>4
          DEF RingInv, MemoryOK, WriteSound, ReadSound, Starts, Turns, Stops
<1>11. CASE Turns(reading, r, n)
  <2>0. ~Starts(reading, r, n) /\ buf = First(size - r)
    BY <1>3, <1>7, <1>8, <1>11
  <2>1. /\ o = 0 /\ l = n - (size - r) /\ Stops(reading', r, n) /\ buf = First(size - r)
        /\ r + n > size
    <3>1. Head(reading.pieces) = <<0, n - (size - r)>> /\ Stops(reading', r, n)
      BY <1>2, <1>6, <2>0
    <3>2. r + n > size
      BY <1>11 DEF Turns
    <3> QED BY <2>0, <3>1, <3>2
  <2> DEFINE s == First(n)
             a == size - r
  <2>2. a \in Nat /\ l \in Nat /\ a + l = n
    BY <1>4, <2>1
  <2>3. s \in [1 .. n -> Bytes]
    BY <1>4, FirstType DEF RingInv
  <2>4. buf = [k \in 1 .. a |-> s[k]]
    <3>1. \A k \in 1 .. a : k \in 1 .. n
      BY <2>2
    <3> QED BY <2>1, <3>1 DEF First
  <2>5. piece = [k \in 1 .. l |-> s[a + k]]
    <3>1. \A k \in 1 .. l : a + k \in 1 .. n
      BY <2>2
    <3>2. \A k \in 1 .. l : o + k - 1 = k - 1
      BY <2>1, <2>2
    <3>3. \A k \in 1 .. l : s[a + k] = mem[k - 1]
      <4> TAKE k \in 1 .. l
      <4>1. s[a + k] = mem[Cell(r, (a + k) - 1)]
        BY <3>1 DEF First
      <4>2. Cell(r, (a + k) - 1) = k - 1
        BY <1>4, <2>1, <2>2 DEF Cell
      <4> HIDE DEF s, a, r
      <4> QED BY <4>1, <4>2
    <3> HIDE DEF s, a
    <3> QED BY <3>2, <3>3
  <2> HIDE DEF s, a, o, l, piece
  <2>6. s = [k \in 1 .. a |-> s[k]] \o [k \in 1 .. l |-> s[a + k]]
    BY <2>2, <2>3, FunctionConcat
  <2>7. buf' = s
    BY <1>2, <2>4, <2>5, <2>6
  <2> QED BY <1>2, <1>3, <1>5, <2>1, <2>7
          DEF s, RingInv, MemoryOK, WriteSound, ReadSound, Starts, Turns, Stops
<1> QED BY <1>6, <1>9, <1>10, <1>11

(* The reader stores its offset behind the bytes it has copied. *)
LEMMA ReadEndMoves ==
  ASSUME RingInv, ReadEnd
  PROVE  \E n \in Blocks :
           /\ n <= Unread /\ Unread' = Unread - n /\ r_offset' \in Offsets
           /\ got' = First(n)
           /\ \A k \in 0 .. Unread - n - 1 : Cell(r_offset', k) = Cell(r_offset, n + k)
<1>1. /\ reading # NoCall /\ reading.pieces = <<>> /\ r_offset' = reading.to
      /\ w_offset' = w_offset /\ got' = buf
  BY DEF ReadEnd
<1>2. PICK n \in Blocks : /\ n <= Unread
                          /\ \/ Starts(reading, r_offset, n) /\ buf = <<>>
                             \/ Turns(reading, r_offset, n) /\ buf = First(size - r_offset)
                             \/ Stops(reading, r_offset, n) /\ buf = First(n)
  BY <1>1 DEF RingInv, ReadSound
<1>3. n \in 1 .. size /\ w_offset \in Offsets /\ r_offset \in Offsets
  BY RingAssumption DEF RingInv, MemoryOK
<1>4. r_offset' = Around(r_offset, n).to
  BY <1>1, <1>2, <1>3, CopiedAll
<1>5. buf = First(n)
  <2>1. ~Starts(reading, r_offset, n) /\ ~Turns(reading, r_offset, n)
    <3>1. \A m : InOne(0, m).pieces # <<>>
      BY DEF InOne
    <3>2. Around(r_offset, n).pieces # <<>>
      BY DEF Around, InOne
    <3> QED BY <1>1, <3>1, <3>2 DEF Starts, Turns
  <2> QED BY <1>2, <2>1
<1>6. r_offset' \in Offsets
  BY <1>3, <1>4, AroundTo
<1>7. Unread = Distance(r_offset, w_offset) /\ Unread' = Distance(r_offset', w_offset)
  BY <1>1 DEF Unread, Distance
<1>8. /\ Unread' = Unread - n
      /\ \A k \in 0 .. Unread - n - 1 : Cell(r_offset', k) = Cell(r_offset, n + k)
  BY <1>2, <1>3, <1>4, <1>7, ReaderMoves
<1> QED BY <1>1, <1>2, <1>5, <1>6, <1>8

LEMMA ReadEndInv ==
  ASSUME RingInv, ReadEnd
  PROVE  RingInv'
<1>1. PICK n \in Blocks : /\ n <= Unread /\ Unread' = Unread - n /\ r_offset' \in Offsets
                          /\ got' = First(n)
  BY ReadEndMoves
<1>2. UNCHANGED <<w_offset, mem, sent, writing>> /\ reading' = NoCall /\ buf' = <<>>
  BY DEF ReadEnd
<1>3. /\ n \in 1 .. size /\ Unread \in 0 .. size - 1 /\ size \in Nat /\ n \in 0 .. Unread
      /\ \A m \in Blocks : m \in Nat
  BY <1>1, RingAssumption, UnreadType DEF RingInv
<1>4. First(n) \in Seq(Bytes) /\ Len(First(n)) = n
  BY <1>3, FirstType DEF RingInv
<1>5. MemoryOK'
  BY <1>1, <1>2, <1>3, <1>4 DEF RingInv, MemoryOK
<1>6. WriteSound'
  <2>1. \A m \in Blocks : Unread + m < size => Unread' + m < size
    BY <1>1, <1>3
  <2> QED BY <1>2, <2>1 DEF RingInv, WriteSound, Starts, Turns, Stops
<1> QED BY <1>2, <1>5, <1>6 DEF RingInv, ReadSound

LEMMA ResetInv ==
  ASSUME RingInv, Reset
  PROVE  RingInv'
<1>1. buf = <<>>
  <2>1. \A m \in Blocks : ~Starts(reading, r_offset, m) /\ ~Turns(reading, r_offset, m)
    BY DEF Reset, Starts, Turns, Around, InOne, NoCall
  <2>2. \A m \in Blocks : Around(r_offset, m).to # -1
    BY AroundTo, RingAssumption DEF RingInv, MemoryOK, Offsets
  <2>3. \A m \in Blocks : ~Stops(reading, r_offset, m)
    BY <2>2 DEF Reset, Stops, NoCall
  <2> QED BY <2>1, <2>3 DEF RingInv, ReadSound
<1>2. size \in Nat \ {0} /\ Unread' = 0
  BY RingAssumption DEF Reset, Unread
<1> QED BY <1>1, <1>2 DEF Reset, RingInv, MemoryOK, Offsets, WriteSound, ReadSound

LEMMA RingNextInv == LeavesOne /\ RingInv /\ [RingNext]_ring => RingInv'
<1> SUFFICES ASSUME LeavesOne, RingInv, [RingNext]_ring PROVE RingInv'
  OBVIOUS
<1>1. CASE UNCHANGED ring
  <2>1. Unread' = Unread /\ \A m : First(m)' = First(m)
    BY <1>1 DEF ring, Unread, First, Cell
  <2> QED BY <1>1, <2>1
          DEF ring, RingInv, MemoryOK, WriteSound, ReadSound, Starts, Turns, Stops
<1>2. CASE RingNext
  BY <1>2, WriteBeginInv, WriteCopyInv, WriteEndInv, ReadBeginInv, ReadCopyInv,
     ReadEndInv, ResetInv DEF RingNext
<1> QED BY <1>1, <1>2

-------------------------------------------------------------------------------
(* The queue of the refinement mapping. *)
Queue == [k \in 1 .. Unread |-> mem[(r_offset + k - 1) % size]]

LEMMA QueueCell ==
  ASSUME NEW r \in Offsets, NEW k \in 1 .. size
  PROVE  (r + k - 1) % size = Cell(r, k - 1)
<1>1. k - 1 \in 0 .. size - 1 /\ r + k - 1 = r + (k - 1)
  BY RingAssumption DEF Offsets
<1> QED BY <1>1, CellIsRemainder

LEMMA QueueIs ==
  ASSUME RingInv
  PROVE  /\ Queue = [k \in 1 .. Unread |-> mem[Cell(r_offset, k - 1)]]
         /\ Queue = First(Unread)
         /\ Queue \in [1 .. Unread -> Bytes] /\ Len(Queue) = Unread
<1>1. Unread \in 0 .. size - 1 /\ size \in Nat /\ r_offset \in Offsets
  BY UnreadType, RingAssumption DEF RingInv, MemoryOK
<1>2. \A k \in 1 .. Unread : (r_offset + k - 1) % size = Cell(r_offset, k - 1)
  <2>1. \A k \in 1 .. Unread : k \in 1 .. size
    BY <1>1
  <2> QED BY <1>1, <2>1, QueueCell
<1>3. Queue = First(Unread)
  BY <1>2 DEF Queue, First
<1>4. First(Unread) \in [1 .. Unread -> Bytes] /\ Len(First(Unread)) = Unread
  BY <1>1, FirstType DEF RingInv
<1> QED BY <1>3, <1>4 DEF First

(* The same in the next state. *)
LEMMA QueueNext ==
  RingInv' => /\ Queue' = [k \in 1 .. Unread' |-> mem'[Cell(r_offset', k - 1)]]
           /\ Queue' \in [1 .. Unread' -> Bytes] /\ Len(Queue') = Unread'
<1>1. RingInv => /\ Queue = [k \in 1 .. Unread |-> mem[Cell(r_offset, k - 1)]]
              /\ Queue \in [1 .. Unread -> Bytes] /\ Len(Queue) = Unread
  BY QueueIs
<1>2. (RingInv => /\ Queue = [k \in 1 .. Unread |-> mem[Cell(r_offset, k - 1)]]
               /\ Queue \in [1 .. Unread -> Bytes] /\ Len(Queue) = Unread)'
  BY <1>1, PTL
<1> QED BY <1>2 DEF Cell, Bytes

LEMMA WriteCopyHides ==
  ASSUME RingInv, RingInv', WriteCopy
  PROVE  Queue' = Queue
<1>1. r_offset' = r_offset /\ Unread' = Unread /\ Unread \in Nat
  BY WriteCopyFirst, UnreadType DEF WriteCopy, RingInv
<1>2. Queue' = [k \in 1 .. Unread |-> mem'[Cell(r_offset, k - 1)]]
  BY <1>1, QueueNext
<1>3. \A k \in 1 .. Unread : mem'[Cell(r_offset, k - 1)] = mem[Cell(r_offset, k - 1)]
  <2>1. \A k \in 1 .. Unread : k - 1 \in 0 .. Unread - 1
    BY <1>1
  <2> QED BY <2>1, WriteCopyKeeps
<1> QED BY <1>2, <1>3, QueueIs

LEMMA WriteEndWrites ==
  ASSUME RingInv, RingInv', WriteEnd
  PROVE  \E n \in Blocks : Stream!Write(n)
<1>1. PICK n \in Blocks : Unread' = Unread + n
  BY WriteEndMoves
<1>2. Unread \in Nat /\ n \in Nat /\ UNCHANGED <<mem, r_offset, got>>
  BY RingAssumption, UnreadType DEF RingInv, WriteEnd
<1>3. /\ Queue = [k \in 1 .. Unread |-> mem[Cell(r_offset, k - 1)]] /\ Len(Queue) = Unread
      /\ Queue' = [k \in 1 .. Unread + n |-> mem[Cell(r_offset, k - 1)]]
      /\ Queue' \in [1 .. Unread + n -> Bytes] /\ Len(Queue') = Unread + n
  BY <1>1, <1>2, QueueIs, QueueNext
<1>4. Queue = [k \in 1 .. Unread |-> Queue'[k]]
  <2>1. \A k \in 1 .. Unread : k \in 1 .. Unread + n
    BY <1>2
  <2> QED BY <1>3, <2>1
<1>5. Queue' = Queue \o [k \in 1 .. n |-> Queue'[Len(Queue) + k]]
  BY <1>2, <1>3, <1>4, FunctionConcat
<1> QED BY <1>1, <1>2, <1>3, <1>5 DEF Stream!Write, Queue

LEMMA ReadEndReads ==
  ASSUME RingInv, RingInv', ReadEnd
  PROVE  \E n \in Blocks : Stream!Read(n)
<1>1. PICK n \in Blocks :
        /\ n <= Unread /\ Unread' = Unread - n /\ got' = First(n)
        /\ \A k \in 0 .. Unread - n - 1 : Cell(r_offset', k) = Cell(r_offset, n + k)
  BY ReadEndMoves
<1>2. Unread \in Nat /\ n \in 0 .. Unread /\ mem' = mem
  BY <1>1, RingAssumption, UnreadType DEF RingInv, ReadEnd
<1>3. /\ Queue = [k \in 1 .. Unread |-> mem[Cell(r_offset, k - 1)]]
      /\ Queue \in [1 .. Unread -> Bytes] /\ Len(Queue) = Unread
      /\ Queue' = [k \in 1 .. Unread - n |-> mem[Cell(r_offset', k - 1)]]
  BY <1>1, <1>2, QueueIs, QueueNext
<1>4. /\ SubSeq(Queue, 1, n) = [k \in 1 .. n |-> Queue[k]]
      /\ SubSeq(Queue, n + 1, Unread) = [k \in 1 .. Unread - n |-> Queue[n + k]]
  BY <1>2, <1>3, FunctionSubSeq
<1>5. got' = SubSeq(Queue, 1, n)
  <2>1. \A k \in 1 .. n : k \in 1 .. Unread
    BY <1>2
  <2> QED BY <1>1, <1>3, <1>4, <2>1 DEF First
<1>6. Queue' = SubSeq(Queue, n + 1, Len(Queue))
  <2>1. ASSUME NEW k \in 1 .. Unread - n
        PROVE  mem[Cell(r_offset', k - 1)] = Queue[n + k]
    <3>1. /\ k - 1 \in 0 .. Unread - n - 1 /\ n + k \in 1 .. Unread
          /\ n + (k - 1) = (n + k) - 1
      BY <1>2
    <3>2. Queue[n + k] = mem[Cell(r_offset, (n + k) - 1)]
      BY <1>3, <3>1
    <3>3. Cell(r_offset', k - 1) = Cell(r_offset, n + (k - 1))
      BY <1>1, <3>1
    <3> QED BY <3>1, <3>2, <3>3
  <2>2. [k \in 1 .. Unread - n |-> mem[Cell(r_offset', k - 1)]]
          = [k \in 1 .. Unread - n |-> Queue[n + k]]
    BY <2>1
  <2> QED BY <1>3, <1>4, <2>2
<1> QED BY <1>1, <1>2, <1>3, <1>5, <1>6 DEF Stream!Read, Queue

LEMMA StepStreams ==
  ASSUME LeavesOne, RingInv, [RingNext]_ring
  PROVE  [Stream!Next]_<<Queue, got>>
<1>1. RingInv'
  BY RingNextInv
<1>2. CASE \/ UNCHANGED ring
           \/ \E n \in Blocks : WriteBegin(n) \/ ReadBegin(n)
           \/ ReadCopy
  BY <1>2 DEF ring, WriteBegin, ReadBegin, ReadCopy, Queue, Unread
<1>3. CASE WriteCopy
  BY <1>1, <1>3, WriteCopyHides DEF WriteCopy
<1>4. CASE WriteEnd
  BY <1>1, <1>4, WriteEndWrites DEF Stream!Next
<1>5. CASE ReadEnd
  BY <1>1, <1>5, ReadEndReads DEF Stream!Next
<1>6. CASE Reset
  <2>1. Unread' = 0 /\ got' = <<>>
    BY <1>6 DEF Reset, Unread
  <2>2. Queue' = <<>>
    BY <1>1, <2>1, QueueNext
  <2> QED BY <2>1, <2>2 DEF Stream!Discard, Stream!Next, Queue
<1> QED BY <1>2, <1>3, <1>4, <1>5, <1>6 DEF RingNext

(* What the reader gets is what the writer wrote, in order, each byte once, *)
(* for every ring and every interleaving of the two: neither copies where   *)
(* the other does, as the writer stays a byte behind the reader.            *)
THEOREM RingRefinement ==
  ASSUME LeavesOne
  PROVE  RingSpec => ImplementsByteStream
<1>1. RingInit => Stream!Init
  <2> SUFFICES ASSUME RingInit PROVE Stream!Init
    OBVIOUS
  <2>1. Unread = 0
    BY DEF RingInit, Unread
  <2>2. Queue = <<>>
    BY <2>1 DEF Queue
  <2> QED BY <2>2 DEF RingInit, Stream!Init, Queue
<1>2. RingInv /\ [RingNext]_ring =>
        [Stream!Next]_<<[k \in 1 .. Unread |-> mem[(r_offset + k - 1) % size]], got>>
  BY StepStreams DEF Queue
<1>3. RingInv /\ [RingNext]_ring => RingInv'
  BY RingNextInv
<1> QED BY <1>1, <1>2, <1>3, RingInitInv, PTL DEF RingSpec, ImplementsByteStream, Stream!Spec

-------------------------------------------------------------------------------
(* The calls have their type. *)
LEMMA CallType ==
  ASSUME NEW o \in Offsets, NEW n \in 1 .. size, NEW c,
         Starts(c, o, n) \/ Turns(c, o, n) \/ Stops(c, o, n)
  PROVE  c \in Calls
<1> DEFINE Piece == (0 .. size) \X (0 .. size)
           Pieces == UNION {[1 .. k -> Piece] : k \in 0 .. 2}
           l == n - (size - o)
<1>1. size \in Nat \ {0} /\ o \in 0 .. size /\ (size - o >= n <=> o + n <= size)
  BY RingAssumption DEF Offsets
<1>2. Around(o, n).to \in 0 .. size
  BY AroundTo DEF Offsets
<1>3. \A p \in Pieces, t \in 0 .. size : [pieces |-> p, to |-> t] \in Calls
  BY DEF Calls
<1>4. \A x \in Piece : <<x>> \in Pieces
  <2> TAKE x \in Piece
  <2>1. <<x>> \in [1 .. 1 -> Piece] /\ 1 \in 0 .. 2
    OBVIOUS
  <2> HIDE DEF Piece
  <2> QED BY <2>1
<1>5. \A x, y \in Piece : <<x, y>> \in Pieces
  <2> TAKE x, y \in Piece
  <2>1. <<x, y>> \in [1 .. 2 -> Piece] /\ 2 \in 0 .. 2
    OBVIOUS
  <2> HIDE DEF Piece
  <2> QED BY <2>1
<1>6. <<>> \in Pieces
  <2>1. <<>> \in [1 .. 0 -> Piece] /\ 0 \in 0 .. 2
    OBVIOUS
  <2> HIDE DEF Piece
  <2> QED BY <2>1
<1>7. CASE Starts(c, o, n) /\ o + n <= size
  <2>1. c = [pieces |-> << <<o, n>> >>, to |-> o + n]
    BY <1>1, <1>7 DEF Starts, Around, InOne
  <2>2. <<o, n>> \in Piece /\ o + n \in 0 .. size
    BY <1>1, <1>7
  <2> HIDE DEF Piece, Pieces
  <2> QED BY <1>3, <1>4, <2>1, <2>2
<1>8. CASE Starts(c, o, n) /\ o + n > size
  <2>1. c = [pieces |-> << <<o, size - o>>, <<0, l>> >>, to |-> l]
    BY <1>1, <1>8 DEF Starts, Around
  <2>2. <<o, size - o>> \in Piece /\ <<0, l>> \in Piece /\ l \in 0 .. size
    BY <1>1, <1>8
  <2> HIDE DEF Piece, Pieces, l
  <2> QED BY <1>3, <1>5, <2>1, <2>2
<1>9. CASE Turns(c, o, n)
  <2>1. c = [pieces |-> << <<0, l>> >>, to |-> 0 + l]
    BY <1>9 DEF Turns, InOne
  <2>2. <<0, l>> \in Piece /\ l \in 0 .. size /\ 0 + l = l
    BY <1>1, <1>9 DEF Turns
  <2> HIDE DEF Piece, Pieces, l
  <2> QED BY <1>3, <1>4, <2>1, <2>2
<1>10. CASE Stops(c, o, n)
  <2> HIDE DEF Pieces
  <2> QED BY <1>2, <1>3, <1>6, <1>10 DEF Stops
<1> QED BY <1>1, <1>7, <1>8, <1>9, <1>10

LEMMA RingTypes == RingInv => RingTyped
<1> SUFFICES ASSUME RingInv PROVE RingTyped
  OBVIOUS
<1>1. /\ size \in Nat \ {0} /\ Unread \in 0 .. size - 1
      /\ r_offset \in Offsets /\ w_offset \in Offsets /\ \A n \in Blocks : n \in 1 .. size
  BY RingAssumption, UnreadType DEF RingInv, MemoryOK
<1>2. writing \in Calls
  BY <1>1, CallType DEF RingInv, WriteSound, Calls
<1>3. reading \in Calls
  BY <1>1, CallType DEF RingInv, ReadSound, Calls
<1>4. Len(buf) <= size /\ \A k \in 1 .. Len(buf) : buf[k] \in Bytes
  <2>1. buf = <<>> \/ \E n \in 0 .. Unread : buf = First(n)
    <3>1. \A n \in Blocks : n <= Unread => n \in 0 .. Unread
      BY <1>1
    <3>2. \A n \in Blocks : n <= Unread /\ Turns(reading, r_offset, n) =>
                              size - r_offset \in 0 .. Unread
      BY <1>1 DEF Turns, Offsets
    <3> QED BY <3>1, <3>2 DEF RingInv, ReadSound
  <2>2. CASE buf = <<>>
    BY <1>1, <2>2
  <2>3. ASSUME NEW n \in 0 .. Unread, buf = First(n)
        PROVE  Len(buf) <= size /\ \A k \in 1 .. Len(buf) : buf[k] \in Bytes
    <3>1. buf \in [1 .. n -> Bytes] /\ Len(buf) = n
      BY <2>3, FirstType DEF RingInv
    <3> QED BY <1>1, <3>1
  <2> QED BY <2>1, <2>2, <2>3
<1> QED BY <1>2, <1>3, <1>4 DEF RingTyped, RingInv, MemoryOK, Offsets

(* A write that leaves a byte of the ring free is accepted, and so is a     *)
(* read of less than all that is there.                                     *)
THEOREM RefusesOnlyNearLimits ==
  ASSUME LeavesOne
  PROVE  RingSpec => []RefusesOnlyAtLimits
<1>1. RingInv => RefusesOnlyAtLimits
  <2> SUFFICES ASSUME RingInv PROVE RefusesOnlyAtLimits
    OBVIOUS
  <2>1. size \in Nat \ {0} /\ r_offset \in 0 .. size /\ w_offset \in 0 .. size
    BY RingAssumption DEF RingInv, MemoryOK, Offsets
  <2>2. \A n \in 1 .. size : (Unread + n < size => HasRoom(n)) /\ (n < Unread => Has(n))
    BY <2>1 DEF Unread, HasRoom, Has
  <2> QED BY <2>2, RingTypes DEF RefusesOnlyAtLimits
<1>2. RingInv /\ [RingNext]_ring => RingInv'
  BY RingNextInv
<1> QED BY <1>1, <1>2, RingInitInv, PTL DEF RingSpec
===============================================================================
