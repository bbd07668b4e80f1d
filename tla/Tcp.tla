--------------------------------- MODULE Tcp ---------------------------------
(***************************************************************************)
(* lib/minip/tcp.c, with the timers of lib/minip/net_timer.c: one          *)
(* connection between two hosts that both run this code, from connect and  *)
(* listen to the last reference.  Segments stay in the network, so each    *)
(* may be delivered late, again, out of order or never.                    *)
(*                                                                         *)
(* A section under a socket's lock is one step.  Outside it are the steps  *)
(* between which others run: tcp_input between lookup_socket and the lock, *)
(* a timer between its removal from the list and its callback, and callers *)
(* that wait for an event.  Nothing reads tx_win_high, so it and the       *)
(* window in a segment are left out, and so is the length of a time.       *)
(***************************************************************************)
EXTENDS Integers, Sequences, FiniteSets

CONSTANTS
  Client, Listener, Accepted,  (* the three sockets of a connection       *)
  NULL,
  Modulus,      (* sequence numbers are below this (2^32)                 *)
  InitialSeqs,  (* what rand() gives for the first one                    *)
  MSS,
  WinSize,      (* rx_win_size, the size of the receive buffer            *)
  TxSize,       (* tx_buffer_size                                         *)
  ClientBytes,  (* bound: bytes the client writes                         *)
  ServerBytes   (* bound: bytes the server writes                         *)

ASSUME TcpAssumption ==
  /\ Client \notin {Listener, Accepted, NULL} /\ Listener \notin {Accepted, NULL}
  /\ Accepted # NULL
  /\ Modulus \in Nat /\ InitialSeqs \subseteq 0 .. Modulus - 1
  /\ {MSS, WinSize, TxSize} \subseteq Nat \ {0}
  /\ {ClientBytes, ServerBytes} \subseteq Nat
  /\ ClientBytes + ServerBytes + WinSize + 2 < Modulus \div 2

Sockets == {Client, Listener, Accepted}
Hosts   == {"client", "server"}
HostOf(x) == IF x = Client THEN "client" ELSE "server"
PeerOf(x) == IF x = Client THEN Accepted ELSE Client
Other(h)  == IF h = "client" THEN "server" ELSE "client"

VARIABLES
  sock,      (* tcp_socket_t of each socket; state NONE before it is      *)
             (* allocated and FREED after                                 *)
  accepted,  (* the listener's accepted socket, or NULL                   *)
  net,       (* every segment sent so far                                 *)
  input,     (* per host: the socket and segment of tcp_input after the   *)
             (* look-up, or Idle                                          *)
  firing,    (* per host: the socket and timer whose callback is due, or  *)
             (* Idle                                                      *)
  user,      (* "none", "open" (has the handle) or "closed"               *)
  accepting, (* a thread is in tcp_accept                                 *)
  reading,   (* a thread is in tcp_read of the socket                     *)
  writing,   (* bytes left of the tcp_write in progress                   *)
  fault,     (* "none", or the assertion that failed, or "lock kept"      *)
  written,   (* history: bytes put into the transmit buffer               *)
  got        (* history: bytes that tcp_read returned                     *)

connvars == <<sock, accepted, net, input, firing, fault>>
vars == <<connvars, user, accepting, reading, writing, written, got>>

(* Arithmetic and order of uint32_t sequence numbers. *)
Add(a, n) == (a + n) % Modulus
Diff(a, b) == (a - b) % Modulus
Signed(d) == IF d < Modulus \div 2 THEN d ELSE d - Modulus
SEQUENCE_GTE(a, b) == Signed(Diff(a, b)) >= 0
SEQUENCE_LTE(a, b) == Signed(Diff(a, b)) <= 0
SEQUENCE_GT(a, b)  == Signed(Diff(a, b)) > 0
Least(a, b) == IF a < b THEN a ELSE b

Unallocated ==
  [state |-> "NONE", ref |-> 0, listed |-> FALSE,
   rx_win_low |-> 0, rx_win_high |-> 0, rx_buffer |-> <<>>, rx_full_mss_count |-> 0,
   tx_win_low |-> 0, tx_highest_seq |-> 0, tx_buffer |-> <<>>,
   timers |-> {}, rx_event |-> FALSE, tx_event |-> FALSE, connect_event |-> FALSE]

Freed == [Unallocated EXCEPT !.state = "FREED"]

create_tcp_socket(iss) ==
  [Unallocated EXCEPT !.state = "CLOSED", !.ref = 1, !.tx_win_low = iss,
                      !.tx_highest_seq = iss, !.tx_event = TRUE]

(* No segment in tcp_input, or no callback due. *)
Idle == [socket |-> NULL]

Init ==
  /\ sock = [x \in Sockets |-> Unallocated]
  /\ accepted = NULL
  /\ net = {}
  /\ input = [h \in Hosts |-> Idle]
  /\ firing = [h \in Hosts |-> Idle]
  /\ user = [x \in Sockets |-> "none"]
  /\ accepting = FALSE
  /\ reading = [x \in Sockets |-> FALSE]
  /\ writing = [x \in Sockets |-> 0]
  /\ fault = "none"
  /\ written = [x \in Sockets |-> 0]
  /\ got = [x \in Sockets |-> <<>>]
-----------------------------------------------------------------------------
(* Steps under the lock of a socket work on w: the socket s, the host at   *)
(* the other end, the segments sent, and a failed assertion.               *)
World(x, s) == [s |-> s, remote |-> Other(HostOf(x)), out |-> {}, fault |-> "none"]

inc_socket_ref(s) == [s EXCEPT !.ref = @ + 1]

dec_socket_ref(s) == IF s.ref = 1 THEN Freed ELSE [s EXCEPT !.ref = @ - 1]

remove_socket_from_list(s) == [s EXCEPT !.listed = FALSE]

(* Mutant: a timer that is set again takes another reference. *)
tcp_timer_set_AlwaysRefs(s, timer) == inc_socket_ref([s EXCEPT !.timers = @ \cup {timer}])

(* A timer in the list holds a reference; the reference of one whose       *)
(* callback is due is the callback's.                                      *)
tcp_timer_set(s, timer) ==
  IF timer \in s.timers THEN s ELSE inc_socket_ref([s EXCEPT !.timers = @ \cup {timer}])

tcp_timer_cancel(s, timer) ==
  IF timer \in s.timers THEN dec_socket_ref([s EXCEPT !.timers = @ \ {timer}]) ELSE s

tcp_send(to, flags, seq, ack, data) ==
  [to |-> to, flags |-> flags, seq |-> seq, ack |-> ack, data |-> data]

(* Nothing reads the numbers in a RST. *)
Reset(to) == tcp_send(to, {"RST"}, 0, 0, <<>>)

(* Mutant: the window does not account for the unread bytes. *)
RxWinHigh_IgnoresUnread(s) == Add(s.rx_win_low, WinSize - 1)

(* The new right edge of the receive window; it never moves back. *)
RxWinHigh(s) ==
  LET high == Add(s.rx_win_low, WinSize - Len(s.rx_buffer) - 1)
  IN  IF SEQUENCE_GTE(high, s.rx_win_high) THEN high ELSE s.rx_win_high

tcp_socket_send(w, flags, seq, data) ==
  LET s == [w.s EXCEPT !.rx_win_high = RxWinHigh(w.s)]
  IN  [w EXCEPT
         !.s = IF "ACK" \in flags THEN tcp_timer_cancel(s, "ack") ELSE s,
         !.out = @ \cup {tcp_send(w.remote, flags, seq,
                                  IF "ACK" \in flags THEN s.rx_win_low ELSE 0, data)}]

send_ack(w) ==
  IF w.s.state \in {"ESTABLISHED", "CLOSE_WAIT", "FIN_WAIT_2"}
  THEN tcp_socket_send(w, {"ACK"}, w.s.tx_win_low, <<>>) ELSE w

(* cbuf_write keeps one byte of the buffer free and drops what has no room. *)
Stored(s, data) == SubSeq(data, 1, Least(Len(data), WinSize - 1 - Len(s.rx_buffer)))

(* Data that starts at the bottom of the window is stored up to its top.   *)
(* For data that starts below it, offset wraps and the assertion fails.    *)
(* Everything else is answered by a repeated acknowledgement.              *)
InWindow(w, data, sequence) ==
  LET s == w.s
      offset == Diff(sequence, s.rx_win_low)
      copy_len == Least(Diff(s.rx_win_high, s.rx_win_low), Len(data) - offset)
      full == IF copy_len >= MSS THEN s.rx_full_mss_count + 1 ELSE 0
      low == Add(s.rx_win_low, copy_len)
      at_once == full >= 2 \/ Signed(Diff(low + WinSize, s.rx_win_high)) > WinSize \div 2
      s1 == [s EXCEPT !.rx_win_low = low, !.rx_event = TRUE,
                      !.rx_buffer = @ \o Stored(s, SubSeq(data, offset + 1, offset + copy_len)),
                      !.rx_full_mss_count = IF at_once THEN 0 ELSE full]
  IN  IF offset >= Len(data) THEN [w EXCEPT !.fault = "offset < len"]
      ELSE IF at_once THEN send_ack([w EXCEPT !.s = s1])
      ELSE [w EXCEPT !.s = tcp_timer_set(s1, "ack")]

handle_data(w, data, sequence) ==
  IF /\ SEQUENCE_LTE(sequence, w.s.rx_win_low)
     /\ SEQUENCE_GTE(Add(sequence, Len(data) - 1), w.s.rx_win_low)
  THEN InWindow(w, data, sequence) ELSE send_ack(w)

handle_ack(w, sequence) ==
  LET s == w.s
      acked_len == Diff(sequence, s.tx_win_low)
      s1 == [s EXCEPT !.tx_buffer = SubSeq(@, acked_len + 1, Len(@)), !.tx_win_low = sequence,
                      !.tx_event = TRUE]
  IN  IF SEQUENCE_LTE(sequence, s.tx_win_low) \/ SEQUENCE_GT(sequence, s.tx_highest_seq) THEN w
      ELSE IF acked_len > Len(s.tx_buffer) THEN [w EXCEPT !.fault = "acked_len"]
      ELSE [w EXCEPT !.s = IF sequence = s.tx_highest_seq
                           THEN tcp_timer_cancel(s1, "retransmit")
                           ELSE tcp_timer_set(s1, "retransmit")]

Outstanding(s) == Diff(s.tx_highest_seq, s.tx_win_low)

(* What was never sent goes out in segments of up to MSS bytes, whatever   *)
(* their window; the first of them cancels the acknowledgement timer.      *)
tcp_write_pending_data(w) ==
  LET s == w.s
      first == Outstanding(s)
      pending == Diff(Len(s.tx_buffer), first)
      Chunk(offset) ==
        tcp_send(w.remote, {"ACK"}, Add(s.tx_highest_seq, offset), s.rx_win_low,
                 SubSeq(s.tx_buffer, first + offset + 1, first + Least(offset + MSS, pending)))
      sent == tcp_timer_cancel([s EXCEPT !.rx_win_high = RxWinHigh(s),
                                         !.tx_highest_seq = Add(@, pending)], "ack")
  IN  IF pending = 0 THEN w
      ELSE [w EXCEPT !.s = tcp_timer_set(sent, "retransmit"),
                     !.out = @ \cup {Chunk(i * MSS) : i \in 0 .. (pending - 1) \div MSS}]

(* Up to one segment from the bottom of the window. *)
tcp_retransmit(w) ==
  tcp_socket_send(w, {"ACK"}, w.s.tx_win_low,
                  SubSeq(w.s.tx_buffer, 1, Least(MSS, Outstanding(w.s))))

tcp_wakeup_waiters(s) ==
  [s EXCEPT !.rx_event = TRUE, !.tx_event = TRUE, !.connect_event = TRUE]

(* Mutant: nobody is told. *)
tcp_remote_close_Silent(s) ==
  IF s.state = "CLOSED" THEN s
  ELSE tcp_timer_cancel(tcp_timer_cancel([s EXCEPT !.state = "CLOSED"], "retransmit"), "ack")

(* The time-wait timer goes on. *)
tcp_remote_close(s) ==
  IF s.state = "CLOSED" THEN s
  ELSE tcp_wakeup_waiters(tcp_timer_cancel(tcp_timer_cancel(
         [s EXCEPT !.state = "CLOSED"], "retransmit"), "ack"))
-----------------------------------------------------------------------------
(* tcp_input, from the lock on, for each state.                            *)
send_reset(w) == [w EXCEPT !.out = @ \cup {Reset(w.remote)}]

in_SYN_RCVD(w, m) ==
  IF "SYN" \in m.flags \/ "ACK" \notin m.flags \/ m.ack # w.s.tx_win_low
  THEN send_reset(w)
  ELSE [w EXCEPT !.s.tx_highest_seq = w.s.tx_win_low, !.s.state = "ESTABLISHED"]

in_SYN_SENT(w, m) ==
  LET low == Add(m.seq, 1)
      s1 == [w.s EXCEPT !.rx_win_low = low, !.rx_win_high = Add(low, WinSize - 1),
                        !.tx_win_low = m.ack, !.tx_highest_seq = m.ack,
                        !.state = "ESTABLISHED"]
      w1 == send_ack([w EXCEPT !.s = s1])
  IN  IF ~({"SYN", "ACK"} \subseteq m.flags) \/ m.ack # Add(w.s.tx_win_low, 1)
      THEN send_reset(w)
      ELSE [w1 EXCEPT !.s.connect_event = TRUE]

Acked(w, m) == IF "ACK" \in m.flags THEN handle_ack(w, m.ack) ELSE w

(* A FIN counts when nothing below its number is missing. *)
in_ESTABLISHED(w, m) ==
  LET w1 == Acked(w, m)
      w2 == IF m.data # <<>> THEN handle_data(w1, m.data, m.seq) ELSE w1
      highest == Add(m.seq, IF m.data # <<>> THEN Len(m.data) - 1 ELSE 0)
      w3 == send_ack([w2 EXCEPT !.s.rx_win_low = Add(@, 1)])
  IN  IF "FIN" \in m.flags /\ SEQUENCE_GTE(w2.s.rx_win_low, highest)
      THEN [w3 EXCEPT !.s.state = "CLOSE_WAIT", !.s.rx_event = TRUE] ELSE w2

in_CLOSE_WAIT(w, m) ==
  IF "FIN" \in m.flags THEN send_ack(Acked(w, m)) ELSE Acked(w, m)

in_LAST_ACK(w, m) ==
  IF "ACK" \notin m.flags THEN w
  ELSE [w EXCEPT !.s = dec_socket_ref(remove_socket_from_list(tcp_remote_close(@)))]

TimeWait(w) == [w EXCEPT !.s = tcp_timer_set([@ EXCEPT !.state = "TIME_WAIT"], "time_wait")]

in_FIN_WAIT_2(w, m) ==
  IF "FIN" \in m.flags
  THEN TimeWait(send_ack([w EXCEPT !.s.rx_win_low = Add(@, 1)])) ELSE w

(* send_ack sends nothing in this state. *)
in_FIN_WAIT_1(w, m) ==
  IF "ACK" \in m.flags THEN in_FIN_WAIT_2([w EXCEPT !.s.state = "FIN_WAIT_2"], m)
  ELSE IF "FIN" \in m.flags
  THEN [send_ack([w EXCEPT !.s.rx_win_low = Add(@, 1)]) EXCEPT !.s.state = "CLOSING"]
  ELSE w

in_CLOSING(w, m) == IF "ACK" \in m.flags THEN TimeWait(w) ELSE w

Handle(w, m) ==
  CASE "RST" \in m.flags ->
         IF w.s.state = "LISTEN" THEN w ELSE [w EXCEPT !.s = tcp_remote_close(@)]
    [] "RST" \notin m.flags ->
  CASE w.s.state = "SYN_RCVD"    -> in_SYN_RCVD(w, m)
    [] w.s.state = "SYN_SENT"    -> in_SYN_SENT(w, m)
    [] w.s.state = "ESTABLISHED" -> in_ESTABLISHED(w, m)
    [] w.s.state = "CLOSE_WAIT"  -> in_CLOSE_WAIT(w, m)
    [] w.s.state = "LAST_ACK"    -> in_LAST_ACK(w, m)
    [] w.s.state = "FIN_WAIT_1"  -> in_FIN_WAIT_1(w, m)
    [] w.s.state = "FIN_WAIT_2"  -> in_FIN_WAIT_2(w, m)
    [] w.s.state = "CLOSING"     -> in_CLOSING(w, m)
    [] w.s.state = "TIME_WAIT"   -> w
    [] OTHER                     -> send_reset(w)

(* The socket of a segment for host h: the connection, or else the         *)
(* listener.                                                               *)
Connected(h) ==
  {x \in Sockets : HostOf(x) = h /\ sock[x].listed /\ sock[x].state \notin {"CLOSED", "LISTEN"}}

lookup_socket(h) ==
  IF Connected(h) # {} THEN CHOOSE x \in Connected(h) : TRUE
  ELSE IF h = "server" /\ sock[Listener].listed /\ sock[Listener].state = "LISTEN"
  THEN Listener ELSE NULL

Running == fault = "none"
Calls == <<user, accepting, reading, writing>>

tcp_input(m) ==
  LET x == lookup_socket(m.to)
  IN  /\ Running
      /\ input[m.to] = Idle
      /\ IF x = NULL
         THEN /\ "RST" \notin m.flags
              /\ net' = net \cup {Reset(Other(m.to))}
              /\ UNCHANGED <<sock, input>>
         ELSE /\ sock' = [sock EXCEPT ![x] = inc_socket_ref(@)]
              /\ input' = [input EXCEPT ![m.to] = [socket |-> x, segment |-> m]]
              /\ UNCHANGED net
      /\ UNCHANGED <<accepted, firing, fault, Calls, written, got>>

(* A SYN for the listener makes a socket, unless one is waiting to be      *)
(* accepted or there is no memory.                                         *)
tcp_input_accepts ==
  LET i == input["server"]
      low == Add(i.segment.seq, 1)
      w0(iss) ==
        World(Accepted, [create_tcp_socket(iss) EXCEPT
                           !.state = "SYN_RCVD", !.listed = TRUE,
                           !.rx_win_low = low, !.rx_win_high = Add(low, WinSize - 1)])
      w(iss) == tcp_socket_send(w0(iss), {"SYN", "ACK"}, iss, <<>>)
  IN  /\ Running
      /\ i # Idle
      /\ i.socket = Listener /\ sock[Listener].state = "LISTEN" /\ "SYN" \in i.segment.flags
      /\ accepted = NULL /\ sock[Accepted].state = "NONE"
      /\ \E iss \in InitialSeqs :
           /\ sock' = [sock EXCEPT ![Accepted] = [w(iss).s EXCEPT !.tx_win_low = Add(iss, 1)],
                                   ![Listener] = dec_socket_ref(@)]
           /\ net' = net \cup w(iss).out
      /\ accepted' = Accepted
      /\ input' = [input EXCEPT !["server"] = Idle]
      /\ UNCHANGED <<firing, fault, Calls, written, got>>

tcp_input_handles(h) ==
  LET i == input[h]
      x == i.socket
      listening == x = Listener /\ sock[x].state = "LISTEN" /\ "SYN" \in i.segment.flags
      w == IF listening THEN World(x, sock[x]) ELSE Handle(World(x, sock[x]), i.segment)
  IN  /\ Running
      /\ i # Idle
      /\ listening => accepted # NULL \/ sock[Accepted].state # "NONE"
      /\ sock' = [sock EXCEPT ![x] = dec_socket_ref(w.s)]
      /\ net' = net \cup w.out
      /\ fault' = w.fault
      /\ input' = [input EXCEPT ![h] = Idle]
      /\ UNCHANGED <<accepted, firing, Calls, written, got>>
-----------------------------------------------------------------------------
(* The timer thread takes a timer out of the list ... *)
net_timer_work_routine(x, timer) ==
  LET h == HostOf(x)
  IN  /\ Running
      /\ firing[h] = Idle
      /\ timer \in sock[x].timers
      /\ sock' = [sock EXCEPT ![x].timers = @ \ {timer}]
      /\ firing' = [firing EXCEPT ![h] = [socket |-> x, timer |-> timer]]
      /\ UNCHANGED <<accepted, net, input, fault, Calls, written, got>>

(* Mutant: what was sent again is not sent a third time. *)
handle_retransmit_timeout_Once(w) ==
  IF w.s.state \in {"ESTABLISHED", "CLOSE_WAIT"} /\ Outstanding(w.s) # 0
  THEN tcp_retransmit(w) ELSE w

handle_retransmit_timeout(w) ==
  IF w.s.state \in {"ESTABLISHED", "CLOSE_WAIT"} /\ Outstanding(w.s) # 0
  THEN [tcp_retransmit(w) EXCEPT !.s = tcp_timer_set(@, "retransmit")] ELSE w

handle_time_wait_timeout(w) ==
  IF w.s.state # "TIME_WAIT" THEN [w EXCEPT !.fault = "state == STATE_TIME_WAIT"]
  ELSE [w EXCEPT !.s = dec_socket_ref(remove_socket_from_list(@))]

(* ... and calls its callback, which ends by dropping the reference. *)
Callback(h) ==
  LET f == firing[h]
      w0 == World(f.socket, sock[f.socket])
      w == CASE f.timer = "ack"        -> send_ack(w0)
             [] f.timer = "retransmit" -> handle_retransmit_timeout(w0)
             [] f.timer = "time_wait"  -> handle_time_wait_timeout(w0)
  IN  /\ Running
      /\ f # Idle
      /\ sock' = [sock EXCEPT ![f.socket] = dec_socket_ref(w.s)]
      /\ net' = net \cup w.out
      /\ fault' = w.fault
      /\ firing' = [firing EXCEPT ![h] = Idle]
      /\ UNCHANGED <<accepted, input, Calls, written, got>>
-----------------------------------------------------------------------------
(* The calls of the application.                                           *)
tcp_connect ==
  /\ Running
  /\ sock[Client].state = "NONE"
  /\ \E iss \in InitialSeqs :
       /\ sock' = [sock EXCEPT ![Client] = [create_tcp_socket(iss) EXCEPT
                                              !.state = "SYN_SENT", !.listed = TRUE]]
       /\ net' = net \cup {tcp_send("server", {"SYN"}, iss, 0, <<>>)}
  /\ UNCHANGED <<accepted, input, firing, fault, Calls, written, got>>

(* The handle is returned with and without an error. *)
tcp_connect_returns ==
  /\ Running
  /\ user[Client] = "none"
  /\ sock[Client].connect_event
  /\ user' = [user EXCEPT ![Client] = "open"]
  /\ UNCHANGED <<connvars, accepting, reading, writing, written, got>>

tcp_open_listen ==
  /\ Running
  /\ sock[Listener].state = "NONE"
  /\ sock' = [sock EXCEPT ![Listener] = [create_tcp_socket(0) EXCEPT
                                           !.state = "LISTEN", !.listed = TRUE]]
  /\ user' = [user EXCEPT ![Listener] = "open"]
  /\ UNCHANGED <<accepted, net, input, firing, fault, accepting, reading, writing, written, got>>

tcp_accept ==
  /\ Running
  /\ user[Listener] = "open"
  /\ user[Accepted] = "none" /\ ~accepting
  /\ accepting' = TRUE
  /\ sock' = [sock EXCEPT ![Listener] = inc_socket_ref(@)]
  /\ UNCHANGED <<accepted, net, input, firing, fault, user, reading, writing, written, got>>

(* With the accepted socket, or without after the timeout. *)
tcp_accept_returns ==
  /\ Running
  /\ accepting
  /\ accepting' = FALSE
  /\ sock' = [sock EXCEPT ![Listener] = dec_socket_ref(@)]
  /\ \/ /\ accepted # NULL
        /\ user' = [user EXCEPT ![accepted] = "open"]
        /\ accepted' = NULL
     \/ UNCHANGED <<user, accepted>>
  /\ UNCHANGED <<net, input, firing, fault, reading, writing, written, got>>

tcp_read(x) ==
  /\ Running
  /\ x # Listener /\ user[x] = "open"
  /\ ~reading[x]
  /\ reading' = [reading EXCEPT ![x] = TRUE]
  /\ sock' = [sock EXCEPT ![x] = inc_socket_ref(@)]
  /\ UNCHANGED <<accepted, net, input, firing, fault, user, accepting, writing, written, got>>

(* The reader after its event: it takes bytes and opens the window, or     *)
(* returns ERR_CHANNEL_CLOSED, or waits again.                             *)
tcp_read_runs(x) ==
  LET s == sock[x]
      Taken(n) == [s EXCEPT !.rx_buffer = SubSeq(@, n + 1, Len(@)),
                            !.rx_event = ~(s.state = "ESTABLISHED" /\ n = Len(s.rx_buffer))]
      Opened(n) == /\ WinSize - (Len(s.rx_buffer) - n) >= MSS
                   /\ Diff(s.rx_win_high, s.rx_win_low) < MSS
      w(n) == IF Opened(n) THEN send_ack(World(x, Taken(n))) ELSE World(x, Taken(n))
  IN  /\ Running
      /\ reading[x]
      /\ s.rx_event
      /\ \/ \E n \in 1 .. Len(s.rx_buffer) :
              /\ got' = [got EXCEPT ![x] = @ \o SubSeq(s.rx_buffer, 1, n)]
              /\ sock' = [sock EXCEPT ![x] = dec_socket_ref(w(n).s)]
              /\ net' = net \cup w(n).out
              /\ reading' = [reading EXCEPT ![x] = FALSE]
         \/ /\ s.rx_buffer = <<>> /\ s.state # "ESTABLISHED"
            /\ sock' = [sock EXCEPT ![x] = dec_socket_ref(@)]
            /\ reading' = [reading EXCEPT ![x] = FALSE]
            /\ UNCHANGED <<net, got>>
         \/ /\ s.rx_buffer = <<>> /\ s.state = "ESTABLISHED"
            /\ sock' = [sock EXCEPT ![x].rx_event = FALSE]
            /\ UNCHANGED <<net, reading, got>>
      /\ UNCHANGED <<accepted, input, firing, fault, user, accepting, writing, written>>

Bytes(x) == IF x = Client THEN ClientBytes ELSE ServerBytes

tcp_write(x, len) ==
  /\ Running
  /\ x # Listener /\ user[x] = "open"
  /\ writing[x] = 0
  /\ written[x] + len <= Bytes(x)
  /\ writing' = [writing EXCEPT ![x] = len]
  /\ sock' = [sock EXCEPT ![x] = inc_socket_ref(@)]
  /\ UNCHANGED <<accepted, net, input, firing, fault, user, accepting, reading, written, got>>

(* One round of the writer's loop after its event; with no room in the     *)
(* buffer it goes round again.                                             *)
tcp_write_runs(x) ==
  LET s == sock[x]
      to_copy == Least(TxSize - Len(s.tx_buffer), writing[x])
      buffer == s.tx_buffer \o [i \in 1 .. to_copy |-> written[x] + i]
      w == tcp_write_pending_data(
             World(x, [s EXCEPT !.tx_buffer = buffer,
                                !.tx_event = @ /\ Len(buffer) # TxSize]))
  IN  /\ Running
      /\ writing[x] > 0
      /\ s.tx_event
      /\ \/ /\ s.state \notin {"ESTABLISHED", "CLOSE_WAIT"}
            /\ sock' = [sock EXCEPT ![x] = dec_socket_ref(@)]
            /\ writing' = [writing EXCEPT ![x] = 0]
            /\ UNCHANGED <<net, written>>
         \/ /\ s.state \in {"ESTABLISHED", "CLOSE_WAIT"}
            /\ to_copy > 0
            /\ writing' = [writing EXCEPT ![x] = @ - to_copy]
            /\ written' = [written EXCEPT ![x] = @ + to_copy]
            /\ sock' = [sock EXCEPT ![x] = IF to_copy = writing[x] THEN dec_socket_ref(w.s) ELSE w.s]
            /\ net' = net \cup w.out
      /\ UNCHANGED <<accepted, input, firing, fault, user, accepting, reading, got>>

(* The FIN has the number of the first byte that is not acknowledged, and  *)
(* is not sent again.                                                      *)
SendFin(w, state) ==
  [tcp_socket_send([w EXCEPT !.s.state = state], {"ACK", "FIN"}, w.s.tx_win_low, <<>>)
     EXCEPT !.s.tx_win_low = Add(@, 1)]

Closed(w) ==
  [w EXCEPT !.s = dec_socket_ref([tcp_timer_cancel(tcp_timer_cancel(
                    remove_socket_from_list(@), "ack"), "retransmit") EXCEPT !.state = "CLOSED"])]

(* A call after the socket was closed keeps the lock. *)
tcp_close(x) ==
  LET s == inc_socket_ref(sock[x])
      w0 == World(x, s)
      w == IF s.state \in {"CLOSED", "LISTEN"} THEN Closed(w0)
           ELSE IF s.state \in {"SYN_RCVD", "ESTABLISHED"} THEN SendFin(w0, "FIN_WAIT_1")
           ELSE IF s.state = "CLOSE_WAIT" THEN SendFin(w0, "LAST_ACK")
           ELSE [w0 EXCEPT !.fault = "lock kept"]
  IN  /\ Running
      /\ user[x] # "none" /\ sock[x].listed
      /\ sock' = [sock EXCEPT ![x] = IF w.fault # "none" THEN dec_socket_ref(s)
                                     ELSE dec_socket_ref(tcp_wakeup_waiters(w.s))]
      /\ net' = net \cup w.out
      /\ fault' = w.fault
      /\ user' = [user EXCEPT ![x] = "closed"]
      /\ UNCHANGED <<accepted, input, firing, accepting, reading, writing, written, got>>

Next ==
  \/ tcp_connect \/ tcp_connect_returns
  \/ tcp_open_listen \/ tcp_accept \/ tcp_accept_returns
  \/ \E m \in net : tcp_input(m)
  \/ tcp_input_accepts
  \/ \E h \in Hosts : tcp_input_handles(h) \/ Callback(h)
  \/ \E x \in Sockets :
       \/ \E timer \in {"ack", "retransmit", "time_wait"} : net_timer_work_routine(x, timer)
       \/ tcp_read(x) \/ tcp_read_runs(x)
       \/ \E len \in 1 .. Bytes(x) : tcp_write(x, len)
       \/ tcp_write_runs(x)
       \/ tcp_close(x)

Spec == Init /\ [][Next]_vars
-----------------------------------------------------------------------------
Received(x) == got[x] \o sock[x].rx_buffer

(* What a socket has received is the beginning of what its peer has        *)
(* written, every byte once and in order, and until the peer closes, what  *)
(* was written and has not been received is in the peer's buffer: nothing  *)
(* is acknowledged that could still be lost.                               *)
StreamIntact ==
  \A x \in {Client, Accepted} :
    LET y == PeerOf(x)
    IN  sock[x].state # "FREED" =>
        /\ Received(x) = [i \in 1 .. Len(Received(x)) |-> i]
        /\ Len(Received(x)) <= written[y]
        /\ sock[y].state = "ESTABLISHED" =>
             written[y] - Len(sock[y].tx_buffer) <= Len(Received(x))

Ones(P) == Cardinality({p \in DOMAIN P : P[p]})

(* The reference count of a socket is the number of those who hold it: the *)
(* list, queued timers, a due callback, tcp_input and callers; nobody      *)
(* holds a freed socket, so it is freed once and never used again.         *)
RefsExact ==
  \A x \in Sockets :
    sock[x].ref = Cardinality(sock[x].timers)
                  + Ones(<<sock[x].listed, reading[x], writing[x] > 0, x = Listener /\ accepting,
                           \E h \in Hosts : input[h].socket = x,
                           \E h \in Hosts : firing[h].socket = x>>)

(* A reader waits only on an open connection without data, a writer only   *)
(* on one with a full buffer: no close, FIN, RST, data or acknowledgement  *)
(* is missed.                                                              *)
NoSleepingCaller ==
  \A x \in {Client, Accepted} :
    /\ reading[x] /\ ~sock[x].rx_event =>
         sock[x].rx_buffer = <<>> /\ sock[x].state \in {"SYN_RCVD", "ESTABLISHED"}
    /\ writing[x] > 0 /\ ~sock[x].tx_event =>
         Len(sock[x].tx_buffer) = TxSize /\ sock[x].state \in {"ESTABLISHED", "CLOSE_WAIT"}

Armed(x, timer) ==
  \/ timer \in sock[x].timers
  \/ \E h \in Hosts : firing[h] = [socket |-> x, timer |-> timer]

(* While a connection is open, data without an acknowledgement will be     *)
(* sent again, and what was received has been or will be acknowledged.     *)
TimersArmed ==
  \A x \in {Client, Accepted} :
    /\ sock[x].state \in {"ESTABLISHED", "CLOSE_WAIT"} /\ Outstanding(sock[x]) # 0 =>
         Armed(x, "retransmit")
    /\ sock[x].state = "ESTABLISHED" /\ Received(x) # <<>> =>
         \/ Armed(x, "ack")
         \/ \E m \in net : /\ m.to = HostOf(PeerOf(x)) /\ "ACK" \in m.flags
                           /\ m.ack = sock[x].rx_win_low

(* The assertion of handle_data: a segment of which a part was received    *)
(* before has an offset inside of it.                                      *)
OffsetInSegment == fault # "offset < len"
=============================================================================
