---------------------------------- MODULE Net ----------------------------------
(***************************************************************************)
(* The network of net.c: one thread, one struct _inet_impl over epoll      *)
(* (NT_INTERNET) or poll (NT_INTRANET), at most one acceptor, the client   *)
(* with its callbacks, the kernel's sockets and the peers behind them.     *)
(*                                                                         *)
(* A pass of net_run collects events and handles them one after the other; *)
(* each step of a handler up to its next callback is an action.  Within a  *)
(* callback the client makes calls for the session it is called for, as    *)
(* test_net.c does, and none in the callback that tells it disconnected;   *)
(* an event then names its session, be it by record or by descriptor.      *)
(* There are as many records and buffers as descriptors, and max_fd_count  *)
(* does not cut a pass short.                                              *)
(***************************************************************************)
EXTENDS Integers, FiniteSets, DList

CONSTANTS
  Recs,                     \* records of the cache "net_ses_zone"
  Fds,                      \* descriptors that are left to sockets
  NetTypes,                 \* internet, intranet
  SendLen, RecvLen,         \* send_buff_len, recv_buff_len
  DataLens,                 \* lengths given to net_send
  MaxTraffic,               \* bound on traffic
  Careful                   \* the client leaves a byte of the send buffer free

NoSes == "none"
Acceptor == "acceptor"

ASSUME NetAssumption ==
  /\ Fds \subseteq Nat \ {0} /\ IsFiniteSet(Fds) /\ IsFiniteSet(Recs)
  /\ Cardinality(Fds) <= Cardinality(Recs)
  /\ NoSes \notin Recs /\ Acceptor \notin Recs
  /\ NetTypes \subseteq {"internet", "intranet"}
  /\ SendLen \in Nat \ {0} /\ RecvLen \in Nat \ {0}
  /\ DataLens \subseteq Nat \ {0}
  /\ MaxTraffic \in Nat /\ Careful \in BOOLEAN

VARIABLES
  net_type,                 \* which of __net_ops
  net,                      \* up or down, net_destroy under way included
  acceptor,                 \* the net has an acceptor
  backlog,                  \* a peer waits to be accepted
  ses,                      \* record -> _state, _sock_fd, _r_offset, _w_offset
  ses_list,                 \* _ses_list
  sock,                     \* descriptor -> the socket in the kernel
  evs,                      \* events of the pass not yet handled
  at,                       \* the event being handled: what is left of it, the
                            \*   bytes read, the callback that may be running
  owed,                     \* bytes net_send took that the kernel has not; of a
                            \*   closed session, those that were lost
  traffic                   \* net_sends accepted, bytes from peers, connections
                            \*   they ended or that failed, all in all

system == <<net_type, net, acceptor>>
session == <<ses, ses_list, owed>>
pass == <<evs, at>>
vars == <<system, backlog, session, sock, pass, traffic>>

Closed == [state |-> "closed", fd |-> 0, r |-> 0, w |-> 0]
NoSock == [conn |-> "none", data |-> 0, eof |-> FALSE, shut |-> FALSE,
           full |-> FALSE, edge |-> FALSE]
NoEvent == [ses |-> NoSes, todo |-> {}, got |-> 0, call |-> "none"]

Init ==
  /\ net_type \in NetTypes
  /\ net = "down" /\ acceptor = FALSE /\ backlog = FALSE
  /\ ses = [s \in Recs |-> Closed] /\ ses_list = lst_new
  /\ sock = [fd \in Fds |-> NoSock]
  /\ evs = <<>> /\ at = NoEvent
  /\ owed = [s \in Recs |-> 0] /\ traffic = 0

-------------------------------------------------------------------------------
Opened == {s \in Recs : ses[s].state # "closed"}
SockOf(s) == sock[ses[s].fd]

(* No event is being handled; the client may call for any session. *)
Idle == net = "up" /\ evs = <<>> /\ at.todo = {}
MayCall(s) == s \in Opened /\ (Idle \/ (at.call # "none" /\ at.ses = s))

(* The kernel gives out the lowest descriptor. *)
FreeFds == {fd \in Fds : sock[fd].conn = "none"}
NewFd(fd) == fd \in FreeFds /\ \A other \in FreeFds : fd <= other

(* _net_create_session, with the socket in a state conn.  Only epoll keeps  *)
(* note of what has happened to a socket since it was last looked at.       *)
Woken == net_type = "internet"
NewSession(s, conn) ==
  /\ s \notin Opened
  /\ \E fd \in Fds :
       /\ NewFd(fd)
       /\ ses' = [ses EXCEPT ![s] = [Closed EXCEPT !.state = "establishing", !.fd = fd]]
       /\ sock' = [sock EXCEPT ![fd] = [NoSock EXCEPT !.conn = conn, !.edge = Woken]]
  /\ ses_list' = lst_push_back(ses_list, s)
  /\ owed' = [owed EXCEPT ![s] = 0]

(* _net_close *)
Close(s) ==
  /\ ses' = [ses EXCEPT ![s] = Closed]
  /\ ses_list' = lst_remove(ses_list, s)
  /\ sock' = [sock EXCEPT ![ses[s].fd] = NoSock]
  /\ at' = NoEvent
  /\ UNCHANGED evs

(* What was not sent is lost. *)
Drop(s) == Close(s) /\ UNCHANGED owed

-------------------------------------------------------------------------------
(* The send buffer of a session's record p. *)
Unsent(p) == IF p.r <= p.w THEN p.w - p.r ELSE SendLen - p.r + p.w

(* _write_send_buf of n bytes, when it accepts them. *)
Accepts(p, n) == IF p.w < p.r THEN n <= p.r - p.w ELSE p.w + n < p.r + SendLen
Written(p, n) ==
  [p EXCEPT !.w = IF p.w < p.r \/ p.w + n <= SendLen THEN p.w + n ELSE p.w + n - SendLen]

(* Slip: the end of the buffer is not seen. *)
SentNoWrap(p, k) == [p EXCEPT !.r = p.r + k]

(* The offset _net_try_send_all moves when the kernel takes k bytes. *)
Sent(p, k) ==
  [p EXCEPT !.r = IF p.r <= p.w \/ p.r + k < SendLen THEN p.r + k ELSE p.r + k - SendLen]

(* What the kernel may take of n bytes: less than all only when it is full. *)
Takes(c, n) == IF n = 0 \/ c.full THEN {0} ELSE 1 .. n

(* Slip: a session that waits to be closed is closed, sent or not. *)
SendAllAtOnce(s, p, c, accepted, next) ==
  LET n == Unsent(p)
  IN  IF n > 0 /\ c.conn = "failed" THEN Drop(s)
      ELSE \E k \in Takes(c, n) :
             /\ owed' = [owed EXCEPT ![s] = @ + accepted - k]
             /\ IF p.state = "closing" THEN Close(s)
                ELSE /\ ses' = [ses EXCEPT ![s] = Sent(p, k)]
                     /\ sock' = [sock EXCEPT ![p.fd] = [c EXCEPT !.full = @ \/ k < n]]
                     /\ at' = next
                     /\ UNCHANGED <<ses_list, evs>>

(* _net_try_send_all for session s, whose record and socket the caller has  *)
(* made p and c after it accepted some bytes.  The session is closed when   *)
(* its connection failed, and when it was to be closed and all is sent;     *)
(* otherwise the loop goes on at next.                                      *)
SendAll(s, p, c, accepted, next) ==
  LET n == Unsent(p)
  IN  IF n > 0 /\ c.conn = "failed" THEN Drop(s)
      ELSE \E k \in Takes(c, n) :
             /\ owed' = [owed EXCEPT ![s] = @ + accepted - k]
             /\ IF p.state = "closing" /\ k = n THEN Close(s)
                ELSE /\ ses' = [ses EXCEPT ![s] = Sent(p, k)]
                     /\ sock' = [sock EXCEPT ![p.fd] = [c EXCEPT !.full = @ \/ k < n]]
                     /\ at' = next
                     /\ UNCHANGED <<ses_list, evs>>

-------------------------------------------------------------------------------
Counted == traffic < MaxTraffic /\ traffic' = traffic + 1

(* net_send *)
Send(s, n) ==
  LET p == ses[s]
  IN  /\ MayCall(s) /\ p.state = "normal"
      /\ Accepts(p, n)
      /\ Careful => Unsent(p) + n < SendLen
      /\ Counted
      /\ SendAll(s, Written(p, n), SockOf(s), n, at)
      /\ UNCHANGED <<system, backlog>>

(* net_disconnect.  The kernel wakes those that wait for the socket. *)
Disconnect(s) ==
  /\ MayCall(s) /\ ses[s].state \in {"establishing", "normal"}
  /\ SendAll(s, [ses[s] EXCEPT !.state = "closing"],
              [SockOf(s) EXCEPT !.shut = TRUE, !.edge = Woken], 0, at)
  /\ UNCHANGED <<system, backlog, traffic>>

(* net_connect.  If the connection cannot even be tried, the session is     *)
(* made and closed again, its callback called, and nothing is left of it.   *)
Connect(s) ==
  /\ Idle
  /\ NewSession(s, "connecting")
  /\ UNCHANGED <<system, backlog, pass, traffic>>

(* net_create_acceptor *)
Listen ==
  /\ Idle /\ ~acceptor
  /\ acceptor' = TRUE
  /\ UNCHANGED <<net_type, net, backlog, session, sock, pass, traffic>>

(* net_destroy_acceptor.  For poll it looks for the wrong key and fails. *)
DestroyAcceptor ==
  /\ Idle /\ acceptor /\ net_type = "internet"
  /\ acceptor' = FALSE /\ backlog' = FALSE
  /\ UNCHANGED <<net_type, net, session, sock, pass, traffic>>

(* net_destroy, which closes the sessions one by one.  The sockets of the   *)
(* acceptors stay open, though no net looks at them any more: epoll's       *)
(* descriptor is closed before they are to be taken from it, and poll's     *)
(* node is looked for under the wrong key.                                  *)
Destroy ==
  /\ Idle
  /\ net' = "down" /\ acceptor' = FALSE /\ backlog' = FALSE /\ at' = NoEvent
  /\ UNCHANGED <<net_type, session, sock, evs, traffic>>

DestroySession ==
  /\ net = "down" /\ ~lst_empty(ses_list)
  /\ Drop(lst_first(ses_list))
  /\ UNCHANGED <<system, backlog, traffic>>

(* net_create, for the first net and after one was destroyed. *)
Create ==
  /\ net = "down" /\ lst_empty(ses_list)
  /\ net' = "up"
  /\ UNCHANGED <<net_type, acceptor, backlog, session, sock, pass, traffic>>

-------------------------------------------------------------------------------
(* Slip: the socket is not registered for output. *)
MaskInput(c) ==
  (IF c.conn = "failed" \/ c.data > 0 \/ c.eof \/ c.shut THEN {"in"} ELSE {})
  \cup (IF c.conn = "failed" THEN {"err"} ELSE {})

(* What a socket is ready for. *)
Mask(c) ==
  (IF c.conn = "failed" \/ (c.conn = "up" /\ ~c.full) THEN {"out"} ELSE {})
  \cup (IF c.conn = "failed" \/ c.data > 0 \/ c.eof \/ c.shut THEN {"in"} ELSE {})
  \cup (IF c.conn = "failed" THEN {"err"} ELSE {})

Event(s) == [of |-> s, todo |-> IF s = Acceptor THEN {} ELSE Mask(SockOf(s))]

(* epoll_wait: the acceptor if someone waits, and the sessions that         *)
(* something happened to and that are ready, in any order.                  *)
EpollWait ==
  LET woken == {s \in Opened : SockOf(s).edge /\ Mask(SockOf(s)) # {}}
      ready == woken \cup (IF acceptor /\ backlog THEN {Acceptor} ELSE {})
  IN  /\ Idle /\ net_type = "internet" /\ ready # {}
      /\ evs' \in SetToSeqs({Event(s) : s \in ready})
      /\ sock' = [fd \in Fds |-> [sock[fd] EXCEPT !.edge = FALSE]]
      /\ at' = NoEvent
      /\ UNCHANGED <<system, backlog, session, traffic>>

(* poll: as many entries are ready as cnt says, and the loop looks at that  *)
(* many from the first.                                                     *)
Poll ==
  LET watched == (IF acceptor THEN <<Acceptor>> ELSE <<>>) \o ses_list
      Ready(s) == IF s = Acceptor THEN backlog ELSE Mask(SockOf(s)) # {}
      cnt == Cardinality({i \in 1 .. Len(watched) : Ready(watched[i])})
  IN  /\ Idle /\ net_type = "intranet" /\ cnt > 0
      /\ evs' = [i \in 1 .. cnt |-> Event(watched[i])]
      /\ at' = NoEvent
      /\ UNCHANGED <<system, backlog, session, sock, traffic>>

NextEvent == net = "up" /\ at.todo = {} /\ evs # <<>>

(* _net_on_acc, which fails when no one waits or no descriptor is left. *)
Accept ==
  /\ NextEvent /\ Head(evs).of = Acceptor
  /\ evs' = Tail(evs)
  /\ IF backlog /\ FreeFds # {}
     THEN /\ backlog' = FALSE
          /\ \E s \in Recs : /\ NewSession(s, "up")
                             /\ at' = [NoEvent EXCEPT !.ses = s, !.call = "acc"]
     ELSE at' = NoEvent /\ UNCHANGED <<backlog, session, sock>>
  /\ UNCHANGED <<system, traffic>>

(* The handlers of a session's event run in order.  Once the session is     *)
(* closed the rest of them find no socket and no buffer and do nothing.     *)
Take ==
  /\ NextEvent /\ Head(evs).of # Acceptor
  /\ evs' = Tail(evs)
  /\ at' = [NoEvent EXCEPT !.ses = Head(evs).of, !.todo = Head(evs).todo]
  /\ UNCHANGED <<system, backlog, session, sock, traffic>>

Doing(k) == k \in at.todo
Done(k) == IF at.todo = {k} THEN NoEvent
           ELSE [at EXCEPT !.todo = @ \ {k}, !.got = 0, !.call = "none"]

(* Slip: the session is still not connected after the callback. *)
OnConnectStays ==
  LET s == at.ses
  IN  /\ Doing("out") /\ ses[s].state = "establishing"
      /\ at' = [at EXCEPT !.call = "conn"]
      /\ UNCHANGED <<system, backlog, session, sock, evs, traffic>>

(* _net_on_send: the callback of a session that was not yet connected ... *)
OnConnect ==
  LET s == at.ses
  IN  /\ Doing("out") /\ ses[s].state = "establishing"
      /\ ses' = [ses EXCEPT ![s].state = "normal"]
      /\ at' = [at EXCEPT !.call = "conn"]
      /\ UNCHANGED <<system, backlog, ses_list, owed, sock, evs, traffic>>

(* Slip: a session that is to be closed is not looked at. *)
OnSendNormal ==
  LET s == at.ses
  IN  /\ Doing("out") /\ ses[s].state # "establishing"
      /\ IF ses[s].state = "normal"
         THEN SendAll(s, ses[s], SockOf(s), 0, Done("out"))
         ELSE at' = Done("out") /\ UNCHANGED <<session, sock, evs>>
      /\ UNCHANGED <<system, backlog, traffic>>

(* ... and what is in the send buffer. *)
OnSend ==
  LET s == at.ses
  IN  /\ Doing("out") /\ ses[s].state # "establishing"
      /\ SendAll(s, ses[s], SockOf(s), 0, Done("out"))
      /\ UNCHANGED <<system, backlog, traffic>>

(* _net_on_recv: one recv that returns bytes, with the callback if they     *)
(* fill the buffer ...                                                      *)
Reading == Doing("in") /\ ~Doing("out")

OnRecv ==
  LET s == at.ses
      k == Min({SockOf(s).data, RecvLen - at.got})
      full == at.got + k = RecvLen
  IN  /\ Reading /\ k > 0
      /\ sock' = [sock EXCEPT ![ses[s].fd].data = @ - k]
      /\ at' = [at EXCEPT !.got = IF full THEN 0 ELSE @ + k,
                             !.call = IF full THEN "recv" ELSE "none"]
      /\ UNCHANGED <<system, backlog, session, evs, traffic>>

(* ... and the one that does not.  It fails with EAGAIN, with an error, or  *)
(* returns 0 at the end of the input; errno then is what some earlier call  *)
(* left in it.  For anything but EAGAIN the session is closed; otherwise    *)
(* the callback gets the bytes read so far.                                 *)
Ended(c) == c.eof \/ c.shut
OnRecvEnd ==
  LET s == at.ses
      c == SockOf(s)
  IN  /\ Reading /\ c.data = 0
      /\ \/ /\ c.conn = "failed" \/ Ended(c)
            /\ Drop(s)
         \/ /\ c.conn # "failed" \/ c.eof
            /\ at' = IF at.got = 0 THEN Done("in")
                     ELSE [at EXCEPT !.todo = @ \ {"in"}, !.got = 0, !.call = "recv"]
            /\ UNCHANGED <<session, sock, evs>>
      /\ UNCHANGED <<system, backlog, traffic>>

(* _net_on_error *)
OnError ==
  /\ Doing("err") /\ ~Doing("in") /\ ~Doing("out")
  /\ Drop(at.ses)
  /\ UNCHANGED <<system, backlog, traffic>>

-------------------------------------------------------------------------------
(* The peers and the connections to them; a change wakes epoll. *)
Happens(fd, c) ==
  /\ sock' = [sock EXCEPT ![fd] = [c EXCEPT !.edge = Woken]]
  /\ UNCHANGED <<system, backlog, session, pass>>

PeerConnects ==
  /\ acceptor /\ backlog' = TRUE
  /\ UNCHANGED <<system, session, sock, pass, traffic>>

(* What a failed connection had in hand of output and input to come is no  *)
(* longer of use; the bytes that arrived before can still be read.          *)
Failed(c) == [NoSock EXCEPT !.conn = "failed", !.data = c.data, !.eof = c.eof, !.shut = c.shut]

(* A connection that was begun is made, or fails. *)
Resolve(fd) ==
  /\ sock[fd].conn = "connecting"
  /\ \/ Happens(fd, [sock[fd] EXCEPT !.conn = "up"])
     \/ Happens(fd, Failed(sock[fd]))
  /\ UNCHANGED traffic

PeerSends(fd) ==
  /\ sock[fd].conn = "up" /\ ~sock[fd].eof
  /\ Happens(fd, [sock[fd] EXCEPT !.data = @ + 1])
  /\ Counted

PeerEnds(fd) ==
  /\ sock[fd].conn = "up" /\ ~sock[fd].eof
  /\ Happens(fd, [sock[fd] EXCEPT !.eof = TRUE])
  /\ Counted

PeerReads(fd) ==
  /\ sock[fd].conn = "up" /\ sock[fd].full
  /\ Happens(fd, [sock[fd] EXCEPT !.full = FALSE])
  /\ UNCHANGED traffic

Fails(fd) ==
  /\ sock[fd].conn = "up"
  /\ Happens(fd, Failed(sock[fd]))
  /\ Counted

-------------------------------------------------------------------------------
Loop == EpollWait \/ Poll \/ Accept \/ Take \/ OnConnect \/ OnSend
        \/ OnRecv \/ OnRecvEnd \/ OnError \/ DestroySession

Client ==
  \/ Listen \/ DestroyAcceptor \/ Destroy \/ Create
  \/ \E s \in Recs : \/ Connect(s) \/ Disconnect(s)
                     \/ \E n \in DataLens : Send(s, n)

Peers ==
  \/ PeerConnects
  \/ \E fd \in Fds : \/ Resolve(fd) \/ PeerSends(fd) \/ PeerEnds(fd)
                     \/ PeerReads(fd) \/ Fails(fd)

Next == Loop \/ Client \/ Peers

(* The client calls net_run again and again; a peer reads what it was sent, *)
(* or its connection fails, and a connection that was begun comes to an end *)
(* by the kernel's timeouts.                                                *)
Fairness ==
  /\ WF_vars(Loop)
  /\ \A fd \in Fds : WF_vars(PeerReads(fd)) /\ WF_vars(Resolve(fd))

Spec == Init /\ [][Next]_vars /\ Fairness

-------------------------------------------------------------------------------
Sockets == [conn : {"none", "connecting", "up", "failed"}, data : 0 .. MaxTraffic,
            eof : BOOLEAN, shut : BOOLEAN, full : BOOLEAN, edge : BOOLEAN]

TypeOK ==
  /\ net_type \in NetTypes /\ net \in {"up", "down"}
  /\ acceptor \in BOOLEAN /\ backlog \in BOOLEAN
  /\ ses \in [Recs -> [state : {"establishing", "normal", "closing", "closed"},
                      fd : Fds \cup {0}, r : 0 .. SendLen, w : 0 .. SendLen]]
  /\ sock \in [Fds -> Sockets]
  /\ \A i \in 1 .. Len(evs) : evs[i].of \in Opened \cup {Acceptor}
  /\ at = NoEvent \/ at.ses \in Opened
  /\ at.todo \subseteq {"out", "in", "err"} /\ at.got \in 0 .. (RecvLen - 1)
  /\ owed \in [Recs -> Int] /\ traffic \in 0 .. MaxTraffic

(* The records, the list and the descriptors agree, however the sessions    *)
(* were opened, refused, closed by their peers, by the client within a      *)
(* callback or with the net: every open session is in the list once and has *)
(* a socket of its own, every other socket is closed, and the send buffer   *)
(* of a session holds what net_send took and the kernel has not.            *)
SessionsSound ==
  /\ TypeOK
  /\ ListsOnce(ses_list, Opened)
  /\ \A s \in Opened : ses[s].fd # 0 /\ SockOf(s).conn # "none"
  /\ \A fd \in Fds : sock[fd].conn # "none" => \E s \in Opened : ses[s].fd = fd
  /\ \A s, t \in Opened : ses[s].fd = ses[t].fd => s = t
  /\ \A s \in Opened : owed[s] = Unsent(ses[s])

(* A session is told connected once and disconnected once, receives only in *)
(* between, and is not told anything after.                                 *)
Phase == [closed |-> "none", establishing |-> "opening", normal |-> "open",
          closing |-> "closing"]
Calling(e) == [call |-> e.call, ses |-> IF e.call = "none" THEN NoSes ELSE e.ses]
Server == INSTANCE Sessions WITH
            phase <- [s \in Recs |-> Phase[ses[s].state]],
            NoCall <- Calling(NoEvent),
            calling <- Calling(at)
ImplementsSessions == Server!Spec

(* recv returned 0 for session s.  That the peer has ended the input is one *)
(* reason; the other is the shutdown of the input by net_disconnect, and    *)
(* then what the client sent before is cut short.                           *)
AtEnd(s) == Reading /\ at.ses = s /\ SockOf(s).data = 0
CutShort(s) == AtEnd(s) /\ ses[s].state = "closing" /\ SockOf(s).shut

(* While the net is up a session is closed only because its connection      *)
(* failed, because its peer ended the input, which recv has read to the end *)
(* (in both cases with what was still to be sent), or because the client    *)
(* asked for it.  Then every byte net_send took has gone to the kernel, but *)
(* for one case, in which bytes are lost: _net_on_recv closes the session   *)
(* at the end of the input that net_disconnect itself has shut, before the  *)
(* rest of the send buffer is sent.                                         *)
CloseJustified ==
  [][\A s \in Opened \ Opened' :
       \/ SockOf(s).conn = "failed"
       \/ AtEnd(s) /\ SockOf(s).eof
       \/ owed'[s] = 0 /\ (ses[s].state = "closing" \/ Disconnect(s))
       \/ CutShort(s)
       \/ net = "down"]_vars

(* Over epoll, which tells of a change only once, a session that the client *)
(* asked to be closed is, when its peer reads: no wakeup is lost between    *)
(* the full socket and the rest of the send buffer.                         *)
DisconnectEnds ==
  \A s \in Recs : (net_type = "internet" /\ ses[s].state = "closing")
                   ~> (ses[s].state # "closing")

(* Over epoll, every session is told how its opening ended. *)
Told ==
  \A s \in Recs : (net_type = "internet" /\ ses[s].state = "establishing")
                   ~> (ses[s].state # "establishing")
===============================================================================
