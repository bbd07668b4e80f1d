--------------------------- MODULE TcpStreamProofs ---------------------------
(***************************************************************************)
(* The streams of lib/minip/tcp.c arrive intact, for any windows, segment  *)
(* sizes and initial sequence numbers, whatever the network loses, delays, *)
(* repeats or reorders and whenever the timers fire.  The inductive        *)
(* invariant speaks of both buffers of a direction and of every segment    *)
(* that was ever sent, because the network may deliver each of them again. *)
(***************************************************************************)
EXTENDS TcpProofs

(* The stream of bytes: from the buffer of a writer over the segments in   *)
(* the network to the reader at the other end.                             *)
Ends == {Client, Accepted}

(* States of a socket that has not closed its stream. *)
Sending == {"SYN_SENT", "SYN_RCVD"} \cup Writable

(* States of a socket that knows the peer's first sequence number. *)
Live == {"SYN_RCVD", "TIME_WAIT"} \cup Writable \cup Shut

(* The n bytes that follow the first k. *)
Counting(k, n) == [i \in 1 .. n |-> k + i]

(* The receive window is not larger than the room in the buffer. *)
Fits(s) == Diff(s.rx_win_high, s.rx_win_low) <= WinSize - 1 - Len(s.rx_buffer)

(* What socket x has beside itself: b has the sequence number of the first *)
(* byte of each side, then what x has read and written, how far the peer   *)
(* is, and where x was before the step.                                    *)
End(x, b) ==
  LET y == PeerOf(x)
  IN  [own |-> b[x], peer |-> b[y], got |-> got[x], written |-> written[x],
       state |-> sock[y].state, theirs |-> written[y],
       acked |-> written[y] - Len(sock[y].tx_buffer), received |-> Len(Received(y)),
       before |-> sock[x].state, had |-> Len(Received(x))]

(* The buffer has the last bytes that were written, and begins with the    *)
(* number at the bottom of the window; all before it have arrived.         *)
Sender(s, e) ==
  /\ s.state \in {"SYN_RCVD"} \cup Writable =>
       /\ s.tx_win_low = Add(e.own, e.written - Len(s.tx_buffer))
       /\ s.tx_buffer = Counting(e.written - Len(s.tx_buffer), Len(s.tx_buffer))
  /\ s.state = "SYN_SENT" => Add(s.tx_win_low, 1) = e.own
  /\ s.state \in {"NONE", "SYN_SENT", "SYN_RCVD"} => e.written = 0
  /\ s.state \in Sending /\ e.state # "FREED" => e.written - Len(s.tx_buffer) <= e.received

(* What arrived are the first bytes; the bottom of the window is the       *)
(* number of the next, unless there is a FIN.                              *)
Receiver(s, e) ==
  LET r == e.got \o s.rx_buffer
  IN  /\ r = Counting(0, Len(r)) /\ Len(r) <= e.theirs
      /\ s.state \in {"NONE", "SYN_SENT"} => r = <<>>
      /\ s.state \in {"SYN_RCVD", "ESTABLISHED"} \/ (s.state \in Live /\ e.state \in Sending) =>
           s.rx_win_low = Add(e.peer, Len(r))
      /\ s.state \in {"SYN_RCVD", "ESTABLISHED"} => Fits(s)
      /\ e.state \in Sending => e.acked <= Len(r)
      /\ s.state \in Live => e.state # "NONE"

Streams(s, e) == s.state # "FREED" => Sender(s, e) /\ Receiver(s, e)

(* A segment that s has sent: its data are bytes that were written, with   *)
(* their number, a FIN comes from a socket that closed, and what it        *)
(* acknowledges has arrived.                                               *)
Tells(m, s, e) ==
  /\ m.data # <<>> =>
       \E i \in 0 .. e.written : /\ i + Len(m.data) <= e.written
                                 /\ m.seq = Add(e.own, i) /\ m.data = Counting(i, Len(m.data))
  /\ "SYN" \in m.flags => Add(m.seq, 1) = e.own /\ m.data = <<>>
  /\ "FIN" \in m.flags => s.state \notin Sending
  /\ "ACK" \in m.flags => e.state # "NONE"
  /\ "ACK" \in m.flags /\ e.state \in Sending /\ s.state # "FREED" =>
       \E a \in 0 .. Len(e.got \o s.rx_buffer) : m.ack = Add(e.peer, a)
  /\ s.state = "NONE" => m.flags = {"RST"}

StreamInv(b) ==
  /\ b \in [Ends -> Num]
  /\ \A x \in Ends :
       /\ Streams(sock[x], End(x, b))
       /\ \A m \in net : m.to = Other(HostOf(x)) => Tells(m, sock[x], End(x, b))
  /\ sock[Listener].state \in {"NONE", "LISTEN", "CLOSED", "FREED"}
  /\ \A h \in Hosts : input[h] # Idle => input[h].segment \in net /\ input[h].segment.to = h

(* Some numbers were chosen for the first bytes. *)
StreamIndInv == TcpIndInv /\ \E b \in [Ends -> Num] : StreamInv(b)
-----------------------------------------------------------------------------
(* Two additions to a sequence number are one.                             *)
LEMMA AddAdd ==
  ASSUME NEW a \in Num, NEW i \in Nat, NEW j \in Nat, i + j < Modulus
  PROVE  Add(Add(a, i), j) = Add(a, i + j)
  <1>1. i \in Num /\ j \in Num /\ i + j \in Num
    BY Constants DEF Num
  <1>2. PICK p \in Num : p = Add(a, i) /\ p = IF a + i < Modulus THEN a + i ELSE a + i - Modulus
    BY <1>1, Sum
  <1>3. Add(p, j) = IF p + j < Modulus THEN p + j ELSE p + j - Modulus
    BY <1>1, Sum
  <1>4. Add(a, i + j) = IF a + (i + j) < Modulus THEN a + (i + j) ELSE a + (i + j) - Modulus
    BY <1>1, Sum
  <1>5. Add(p, j) = Add(a, i + j)
    BY <1>1, <1>2, <1>3, <1>4, Constants DEF Num
  <1> QED
    BY <1>2, <1>5

(* The distance of two numbers from the same first one.                    *)
LEMMA Distance ==
  ASSUME NEW a \in Num, NEW i \in Num, NEW j \in Num
  PROVE  Diff(Add(a, j), Add(a, i)) = IF i <= j THEN j - i ELSE j - i + Modulus
  <1>1. PICK p \in Num : p = Add(a, i) /\ p = IF a + i < Modulus THEN a + i ELSE a + i - Modulus
    BY Sum
  <1>2. PICK q \in Num : q = Add(a, j) /\ q = IF a + j < Modulus THEN a + j ELSE a + j - Modulus
    BY Sum
  <1>3. Diff(q, p) = IF q >= p THEN q - p ELSE q - p + Modulus
    BY Difference
  <1>4. Diff(q, p) = IF i <= j THEN j - i ELSE j - i + Modulus
    BY <1>1, <1>2, <1>3, Constants DEF Num
  <1> QED
    BY <1>1, <1>2, <1>4

(* Different bytes of a stream have different numbers.                     *)
LEMMA AddInjective ==
  ASSUME NEW a \in Num, NEW i \in Num, NEW j \in Num, Add(a, i) = Add(a, j)
  PROVE  i = j
  <1>1. PICK p \in Num : p = Add(a, i) /\ p = IF a + i < Modulus THEN a + i ELSE a + i - Modulus
    BY Sum
  <1>2. p = IF a + j < Modulus THEN a + j ELSE a + j - Modulus
    BY <1>1, Sum
  <1> QED
    BY <1>1, <1>2, Constants DEF Num

(* Going the distance from a number to another gets there.                 *)
LEMMA AddDiff ==
  ASSUME NEW a \in Num, NEW c \in Num
  PROVE  Add(a, Diff(c, a)) = c
  <1>1. PICK d \in Num : d = Diff(c, a) /\ d = IF c >= a THEN c - a ELSE c - a + Modulus
    BY Difference
  <1>2. Add(a, d) = IF a + d < Modulus THEN a + d ELSE a + d - Modulus
    BY Sum
  <1>3. Add(a, d) = c
    BY <1>1, <1>2, Constants DEF Num
  <1> QED
    BY <1>1, <1>3

(* The distance after an addition.                                         *)
LEMMA DiffAdd ==
  ASSUME NEW a \in Num, NEW d \in Num
  PROVE  Diff(Add(a, d), a) = d
  <1>1. PICK q \in Num : q = Add(a, d) /\ q = IF a + d < Modulus THEN a + d ELSE a + d - Modulus
    BY Sum
  <1>2. Diff(q, a) = IF q >= a THEN q - a ELSE q - a + Modulus
    BY Difference
  <1>3. Diff(q, a) = d
    BY <1>1, <1>2, Constants DEF Num
  <1> QED
    BY <1>1, <1>3

(* The distance left when a part of it is gone.                            *)
LEMMA DiffLess ==
  ASSUME NEW a \in Num, NEW h \in Num, NEW d \in Nat, d <= Diff(h, a)
  PROVE  Diff(h, Add(a, d)) = Diff(h, a) - d
  <1>1. PICK p \in Num : p = Diff(h, a) /\ p = IF h >= a THEN h - a ELSE h - a + Modulus
    BY Difference
  <1>2. d \in Num
    BY <1>1, Constants DEF Num
  <1>3. PICK q \in Num : q = Add(a, d) /\ q = IF a + d < Modulus THEN a + d ELSE a + d - Modulus
    BY <1>2, Sum
  <1>4. Diff(h, q) = IF h >= q THEN h - q ELSE h - q + Modulus
    BY Difference
  <1>5. Diff(h, q) = p - d
    BY <1>1, <1>2, <1>3, <1>4, Constants DEF Num
  <1> QED
    BY <1>1, <1>3, <1>5

(* Adding nothing.                                                         *)
LEMMA AddZero ==
  ASSUME NEW a \in Num
  PROVE  Add(a, 0) = a
  <1>1. 0 \in Num
    BY Constants DEF Num
  <1>2. Add(a, 0) = IF a + 0 < Modulus THEN a + 0 ELSE a + 0 - Modulus
    BY <1>1, Sum
  <1> QED
    BY <1>2, Constants DEF Num

(* A run of bytes is a sequence.                                           *)
LEMMA CountingSeq ==
  ASSUME NEW k \in Int, NEW n \in Nat
  PROVE  /\ Counting(k, n) \in Seq(Int) /\ Len(Counting(k, n)) = n
         /\ \A i \in 1 .. n : Counting(k, n)[i] = k + i
  BY DEF Counting

(* Equal sequences.                                                        *)
LEMMA SameSequence ==
  ASSUME NEW p \in Seq(Int), NEW q \in Seq(Int), Len(p) = Len(q),
         \A i \in 1 .. Len(p) : p[i] = q[i]
  PROVE  p = q
  BY SeqEqual

(* Runs of bytes are put together ...                                      *)
LEMMA CountingConcat ==
  ASSUME NEW k \in Int, NEW n \in Nat, NEW m \in Nat
  PROVE  Counting(k, n) \o Counting(k + n, m) = Counting(k, n + m)
  <1> DEFINE p == Counting(k, n)
             q == Counting(k + n, m)
             r == Counting(k, n + m)
  <1>1. p \in Seq(Int) /\ Len(p) = n /\ (\A i \in 1 .. n : p[i] = k + i)
    BY CountingSeq
  <1>2. q \in Seq(Int) /\ Len(q) = m /\ (\A i \in 1 .. m : q[i] = (k + n) + i)
    BY CountingSeq
  <1>3. r \in Seq(Int) /\ Len(r) = n + m /\ (\A i \in 1 .. (n + m) : r[i] = k + i)
    BY CountingSeq
  <1> HIDE DEF p, q, r
  <1>4. /\ p \o q \in Seq(Int) /\ Len(p \o q) = n + m
        /\ \A i \in 1 .. (n + m) : (p \o q)[i] = IF i <= n THEN p[i] ELSE q[i - n]
    BY <1>1, <1>2, ConcatProperties
  <1>5. ASSUME NEW i \in 1 .. (n + m) PROVE (p \o q)[i] = r[i]
    <2>1. CASE i <= n
      <3>1. (p \o q)[i] = p[i] BY <1>4, <2>1
      <3>2. p[i] = k + i BY <1>1, <2>1
      <3> QED BY <1>3, <3>1, <3>2
    <2>2. CASE ~(i <= n)
      <3>1. (p \o q)[i] = q[i - n] BY <1>4, <2>2
      <3>2. i - n \in 1 .. m BY <2>2
      <3>3. q[i - n] = (k + n) + (i - n) BY <1>2, <3>2
      <3>4. r[i] = k + i BY <1>3
      <3> QED BY <3>1, <3>3, <3>4
    <2> QED BY <2>1, <2>2
  <1> QED
    BY <1>3, <1>4, <1>5, SameSequence DEF p, q, r

(* ... and taken apart.                                                    *)
LEMMA CountingPart ==
  ASSUME NEW k \in Int, NEW n \in Nat, NEW i \in Nat, NEW j \in Nat, i <= j, j <= n
  PROVE  SubSeq(Counting(k, n), i + 1, j) = Counting(k + i, j - i)
  <1> DEFINE p == Counting(k, n)
             q == SubSeq(p, i + 1, j)
             r == Counting(k + i, j - i)
  <1>1. p \in Seq(Int) /\ Len(p) = n /\ (\A l \in 1 .. n : p[l] = k + l)
    BY CountingSeq
  <1>2. r \in Seq(Int) /\ Len(r) = j - i /\ (\A l \in 1 .. (j - i) : r[l] = (k + i) + l)
    <2>1. j - i \in Nat /\ k + i \in Int OBVIOUS
    <2> QED BY <2>1, CountingSeq
  <1> HIDE DEF p, r
  <1>3. \A l \in i + 1 .. j : p[l] \in Int
    BY <1>1
  <1>4. /\ q \in Seq(Int) /\ Len(q) = IF i + 1 <= j THEN j - (i + 1) + 1 ELSE 0
        /\ \A l \in 1 .. j - (i + 1) + 1 : q[l] = p[i + 1 + l - 1]
    BY <1>1, <1>3, SubSeqProperties
  <1>5. Len(q) = j - i
    BY <1>4
  <1> HIDE DEF q
  <1>6. ASSUME NEW l \in 1 .. (j - i) PROVE q[l] = r[l]
    <2>1. q[l] = p[i + 1 + l - 1] /\ i + 1 + l - 1 = i + l /\ i + l \in 1 .. n
      BY <1>4
    <2>2. p[i + l] = k + (i + l) BY <1>1, <2>1
    <2>3. r[l] = (k + i) + l BY <1>2
    <2> QED BY <2>1, <2>2, <2>3
  <1> QED
    BY <1>2, <1>4, <1>5, <1>6, SameSequence DEF p, q, r
(* What the numbers and counts beside a socket are. *)
Placed(e) ==
  /\ e.own \in Num /\ e.peer \in Num /\ e.got \in Seq(Int)
  /\ e.written \in Nat /\ e.theirs \in Nat /\ e.received \in Nat /\ e.had \in Nat /\ e.acked \in Int
  /\ e.written + e.theirs + WinSize + 2 < Modulus \div 2
  /\ e.state # "FREED" => e.received <= e.written

(* To the stream, s and r are the same. *)
Alike(s, r) ==
  /\ r.state = s.state /\ r.rx_win_low = s.rx_win_low /\ r.rx_buffer = s.rx_buffer
  /\ r.tx_win_low = s.tx_win_low /\ r.tx_buffer = s.tx_buffer
  /\ Fits(s) => Fits(r)

(* A step goes on from where the socket was. *)
Onward(s, e) ==
  /\ s.state # "NONE"
  /\ s.state \in Sending => e.before \in Sending
  /\ s.state # "FREED" => e.had <= Len(e.got \o s.rx_buffer)

(* A step under the lock keeps the stream in order. *)
Good(w, e) ==
  w \in Worlds /\ Streams(w.s, e) /\ Onward(w.s, e) /\ \A m \in w.out : Tells(m, w.s, e)

(* The stream depends on nothing else of the socket.                       *)
LEMMA AlikeStreams ==
  ASSUME NEW s, NEW r, NEW e, Alike(s, r)
  PROVE  /\ Streams(s, e) => Streams(r, e)
         /\ Onward(s, e) => Onward(r, e)
         /\ \A m : Tells(m, s, e) => Tells(m, r, e)
  <1>1. Sender(s, e) => Sender(r, e)
    BY DEF Alike, Sender
  <1>2. Receiver(s, e) => Receiver(r, e)
    BY DEF Alike, Receiver
  <1>3. Onward(s, e) => Onward(r, e)
    BY DEF Alike, Onward
  <1>4. ASSUME NEW m, Tells(m, s, e) PROVE Tells(m, r, e)
    BY <1>4 DEF Alike, Tells
  <1> QED
    BY <1>1, <1>2, <1>3, <1>4 DEF Streams, Alike

(* Likeness of streams is transitive.                                      *)
LEMMA Alike3 ==
  ASSUME NEW s, NEW r, NEW q, Alike(s, r), Alike(r, q)
  PROVE  Alike(s, q)
  BY DEF Alike

(* A segment that was sent stays true as its sender goes on.               *)
LEMMA TellsMoves ==
  ASSUME NEW m, NEW s, NEW r, NEW e, e.got \in Seq(Int), s.rx_buffer \in Seq(Int),
         r.rx_buffer \in Seq(Int), Tells(m, s, e),
         r.state \in Sending => s.state \in Sending, r.state # "NONE",
         r.state # "FREED" => s.state # "FREED",
         r.state # "FREED" /\ e.state \in Sending => Len(e.got \o s.rx_buffer) <= Len(e.got \o r.rx_buffer)
  PROVE  Tells(m, r, e)
  <1>1. Len(e.got \o s.rx_buffer) \in Nat /\ Len(e.got \o r.rx_buffer) \in Nat
    BY ConcatProperties, LenProperties
  <1>2. /\ "FIN" \in m.flags => r.state \notin Sending
        /\ r.state = "NONE" => m.flags = {"RST"}
    BY DEF Tells
  <1>3. ASSUME "ACK" \in m.flags, e.state \in Sending, r.state # "FREED"
        PROVE  \E a \in 0 .. Len(e.got \o r.rx_buffer) : m.ack = Add(e.peer, a)
    <2>1. PICK a \in 0 .. Len(e.got \o s.rx_buffer) : m.ack = Add(e.peer, a)
      BY <1>3 DEF Tells
    <2> DEFINE p == Len(e.got \o s.rx_buffer)
               q == Len(e.got \o r.rx_buffer)
    <2>0. p \in Nat /\ q \in Nat /\ p <= q
      BY <1>1, <1>3
    <2> HIDE DEF p, q
    <2>3. a \in 0 .. p
      BY <2>1 DEF p
    <2>4. a \in 0 .. q
      BY <2>0, <2>3
    <2>2. a \in 0 .. Len(e.got \o r.rx_buffer)
      BY <2>4 DEF q
    <2> QED
      BY <2>1, <2>2
  <1> QED
    BY <1>2, <1>3 DEF Tells

(* A reset tells nothing.                                                  *)
LEMMA ResetTells ==
  ASSUME NEW to, NEW s, NEW e
  PROVE  Tells(Reset(to), s, e)
  BY DEF Tells, Reset, tcp_send

(* Timers and references do not touch the stream.                          *)
LEMMA TimersAlike ==
  ASSUME NEW s \in Socket, NEW t
  PROVE  /\ Alike(s, s)
         /\ Alike(s, inc_socket_ref(s))
         /\ dec_socket_ref(s).state # "FREED" => Alike(s, dec_socket_ref(s))
         /\ Alike(s, tcp_timer_set(s, t))
         /\ tcp_timer_cancel(s, t).state # "FREED" => Alike(s, tcp_timer_cancel(s, t))
         /\ Alike(s, remove_socket_from_list(s))
         /\ Alike(s, tcp_wakeup_waiters(s))
  <1>0. Freed.state = "FREED"
    BY DEF Freed, Unallocated
  <1>1. ASSUME NEW n, NEW T
        PROVE  Alike(s, [s EXCEPT !.ref = n]) /\ Alike(s, [[s EXCEPT !.timers = T] EXCEPT !.ref = n])
    BY Zenon DEF Alike, Fits, Socket
  <1>2. Alike(s, s)
    BY DEF Alike
  <1>3. Alike(s, inc_socket_ref(s))
    BY <1>1 DEF inc_socket_ref
  <1>4. dec_socket_ref(s).state # "FREED" => Alike(s, dec_socket_ref(s))
    BY <1>0, <1>1 DEF dec_socket_ref
  <1>5. Alike(s, tcp_timer_set(s, t))
    BY <1>1, <1>2 DEF tcp_timer_set, inc_socket_ref
  <1>6. tcp_timer_cancel(s, t).state # "FREED" => Alike(s, tcp_timer_cancel(s, t))
    BY <1>0, <1>1, <1>2 DEF tcp_timer_cancel, dec_socket_ref
  <1>7. Alike(s, remove_socket_from_list(s))
    BY Zenon DEF Alike, Fits, Socket, remove_socket_from_list
  <1>8. Alike(s, tcp_wakeup_waiters(s))
    BY Zenon DEF Alike, Fits, Socket, tcp_wakeup_waiters
  <1> QED
    BY <1>2, <1>3, <1>4, <1>5, <1>6, <1>7, <1>8

(* A new right edge of the window fits.                                    *)
LEMMA EdgeFits ==
  ASSUME NEW s \in Socket, Len(s.rx_buffer) <= WinSize - 1
  PROVE  Alike(s, [s EXCEPT !.rx_win_high = RxWinHigh(s)])
  <1> DEFINE r == [s EXCEPT !.rx_win_high = RxWinHigh(s)]
             n == WinSize - Len(s.rx_buffer) - 1
  <1>1. /\ r.state = s.state /\ r.rx_win_low = s.rx_win_low /\ r.rx_buffer = s.rx_buffer
        /\ r.tx_win_low = s.tx_win_low /\ r.tx_buffer = s.tx_buffer
        /\ r.rx_win_high = RxWinHigh(s)
    BY Zenon DEF Socket
  <1>2. s.rx_win_low \in Num /\ n \in Num /\ n = WinSize - 1 - Len(s.rx_buffer)
    <2>1. Len(s.rx_buffer) \in Nat /\ s.rx_win_low \in Num
      BY LenProperties DEF Socket
    <2>2. WinSize < Modulus
      BY TcpAssumption, Half
    <2> QED
      BY <2>1, <2>2, Constants DEF Num
  <1>3. Diff(Add(s.rx_win_low, n), s.rx_win_low) = n
    <2> HIDE DEF n
    <2> QED BY <1>2, DiffAdd
  <1>4. RxWinHigh(s) = Add(s.rx_win_low, n) \/ RxWinHigh(s) = s.rx_win_high
    BY DEF RxWinHigh
  <1> HIDE DEF r
  <1>5. CASE RxWinHigh(s) = Add(s.rx_win_low, n)
    <2>1. Diff(r.rx_win_high, r.rx_win_low) = n
      BY <1>1, <1>3, <1>5
    <2>2. Fits(r)
      BY <1>1, <1>2, <2>1, Constants DEF Fits, Num
    <2> QED BY <1>1, <2>2 DEF Alike, r
  <1>6. CASE RxWinHigh(s) = s.rx_win_high
    BY <1>1, <1>6 DEF Alike, Fits, r
  <1> QED
    BY <1>4, <1>5, <1>6

(* tcp_socket_send with ACK adds one segment and leaves the stream alone,  *)
(* if the socket is not freed.                                             *)
LEMMA SendStream ==
  ASSUME NEW w \in Worlds, Len(w.s.rx_buffer) <= WinSize - 1,
         NEW flags \in SUBSET {"SYN", "ACK", "FIN", "RST"}, "ACK" \in flags,
         NEW seq \in Num, NEW data \in Seq(Int),
         tcp_socket_send(w, flags, seq, data).s.state # "FREED"
  PROVE  LET v == tcp_socket_send(w, flags, seq, data)
         IN  /\ Alike(w.s, v.s)
             /\ \A m \in v.out : m \in w.out \/ m = tcp_send(w.remote, flags, seq, w.s.rx_win_low, data)
  <1> DEFINE s == [w.s EXCEPT !.rx_win_high = RxWinHigh(w.s)]
             r == tcp_timer_cancel(s, "ack")
             m == tcp_send(w.remote, flags, seq, s.rx_win_low, data)
             v == tcp_socket_send(w, flags, seq, data)
  <1>1. w.s \in Socket
    BY DEF Worlds
  <1>3. v = [w EXCEPT !.s = r, !.out = w.out \cup {m}]
    BY DEF tcp_socket_send
  <1>4. v.s = r /\ v.out = w.out \cup {m}
    <2> HIDE DEF v, r, m
    <2> QED BY <1>1, <1>3 DEF Worlds
  <1>5. Alike(w.s, s) /\ s \in Socket
    <2>2. s \in Socket
      BY <1>1, EdgeIsNum DEF Socket
    <2> QED BY <1>1, <2>2, EdgeFits
  <1>7. Alike(s, r)
    <2>1. r.state # "FREED" BY <1>4
    <2> HIDE DEF s
    <2> QED BY <1>5, <2>1, TimersAlike
  <1>8. m = tcp_send(w.remote, flags, seq, w.s.rx_win_low, data)
    <2>1. s.rx_win_low = w.s.rx_win_low BY <1>5 DEF Alike
    <2> HIDE DEF s
    <2> QED BY <2>1
  <1> HIDE DEF s, r, v, m
  <1>9. Alike(w.s, v.s)
    BY <1>4, <1>5, <1>7, Alike3
  <1> QED
    BY <1>4, <1>8, <1>9 DEF v
(* A segment that arrived, seen from the receiver's side. *)
Heard(m, e) ==
  /\ m.data # <<>> =>
       \E i \in 0 .. e.theirs : /\ i + Len(m.data) <= e.theirs
                                /\ m.seq = Add(e.peer, i) /\ m.data = Counting(i, Len(m.data))
  /\ "SYN" \in m.flags => Add(m.seq, 1) = e.peer /\ m.data = <<>>
  /\ "FIN" \in m.flags => e.state \notin Sending
  /\ "ACK" \in m.flags /\ e.before \in Sending /\ e.state # "FREED" =>
       \E a \in 0 .. e.received : m.ack = Add(e.own, a)
  /\ e.state = "NONE" => m.flags = {"RST"}

(* What a live socket acknowledges has arrived.                            *)
LEMMA AckTells ==
  ASSUME NEW s \in Socket, NEW e, Placed(e), Streams(s, e), s.state \in Live,
         NEW to, NEW flags, "SYN" \notin flags, "FIN" \in flags => s.state \notin Sending,
         NEW seq, NEW data,
         data # <<>> =>
           \E i \in 0 .. e.written : /\ i + Len(data) <= e.written
                                     /\ seq = Add(e.own, i) /\ data = Counting(i, Len(data))
  PROVE  Tells(tcp_send(to, flags, seq, s.rx_win_low, data), s, e)
  <1> DEFINE m == tcp_send(to, flags, seq, s.rx_win_low, data)
             r == e.got \o s.rx_buffer
  <1>1. m.flags = flags /\ m.seq = seq /\ m.ack = s.rx_win_low /\ m.data = data
    BY DEF tcp_send
  <1>2. s.state \notin {"FREED", "NONE"}
    BY DEF Live, Writable, Shut
  <1>3. Receiver(s, e)
    BY <1>2 DEF Streams
  <1>4. e.state # "NONE"
    BY <1>3 DEF Receiver
  <1>5. e.state \in Sending => s.rx_win_low = Add(e.peer, Len(r))
    BY <1>3 DEF Receiver
  <1>6. Len(r) \in 0 .. Len(r)
    <2>1. r \in Seq(Int)
      BY ConcatProperties DEF Socket, Placed
    <2> HIDE DEF r
    <2>2. Len(r) \in Nat
      BY <2>1, LenProperties
    <2> QED BY <2>2
  <1> HIDE DEF m, r
  <1>7. e.state \in Sending => \E a \in 0 .. Len(r) : m.ack = Add(e.peer, a)
    BY <1>1, <1>5, <1>6
  <1> QED
    BY <1>1, <1>2, <1>4, <1>7 DEF Tells, m, r

(* A world with a segment more is as good as the segment.                  *)
LEMMA GoodSend ==
  ASSUME NEW w, NEW v \in Worlds, NEW e, Good(w, e), Alike(w.s, v.s),
         \A m \in v.out : m \in w.out \/ Tells(m, w.s, e)
  PROVE  Good(v, e)
  <1>1. Streams(v.s, e) /\ Onward(v.s, e)
    BY AlikeStreams DEF Good
  <1>2. \A m \in v.out : Tells(m, v.s, e)
    BY AlikeStreams DEF Good
  <1> QED
    BY <1>1, <1>2 DEF Good

(* send_ack, if it does not free the socket ...                            *)
LEMMA SendAckStream ==
  ASSUME NEW w, NEW e, Placed(e), Good(w, e), Len(w.s.rx_buffer) <= WinSize - 1,
         send_ack(w) \in Worlds, send_ack(w).s.state # "FREED"
  PROVE  Good(send_ack(w), e) /\ Alike(w.s, send_ack(w).s)
  <1>0. w \in Worlds /\ w.s \in Socket /\ w.s.tx_win_low \in Num /\ <<>> \in Seq(Int)
    BY DEF Good, Worlds, Socket
  <1>1. CASE w.s.state \in {"ESTABLISHED", "CLOSE_WAIT", "FIN_WAIT_2"}
    <2> DEFINE v == tcp_socket_send(w, {"ACK"}, w.s.tx_win_low, <<>>)
               m == tcp_send(w.remote, {"ACK"}, w.s.tx_win_low, w.s.rx_win_low, <<>>)
    <2>1. send_ack(w) = v
      BY <1>1 DEF send_ack
    <2>2. Alike(w.s, v.s) /\ \A n \in v.out : n \in w.out \/ n = m
      BY <1>0, <2>1, SendStream
    <2>3. Tells(m, w.s, e)
      <3>1. w.s.state \in Live
        BY <1>1 DEF Live, Writable, Shut
      <3>2. Streams(w.s, e)
        BY DEF Good
      <3> QED
        BY <1>0, <3>1, <3>2, AckTells
    <2> HIDE DEF v, m
    <2>4. Good(v, e)
      BY <2>1, <2>2, <2>3, GoodSend
    <2> QED
      BY <2>1, <2>2, <2>4
  <1>2. CASE w.s.state \notin {"ESTABLISHED", "CLOSE_WAIT", "FIN_WAIT_2"}
    <2>1. send_ack(w) = w
      BY <1>2 DEF send_ack
    <2> QED
      BY <2>1 DEF Alike
  <1> QED
    BY <1>1, <1>2

(* ... which it does not.                                                  *)
LEMMA SendAckGood ==
  ASSUME NEW w, NEW c, NEW k \in Nat, k > 0, NearlyIn(w, c, k), NEW e, Placed(e), Good(w, e)
  PROVE  Good(send_ack(w), e) /\ Alike(w.s, send_ack(w).s)
  <1>1. In(send_ack(w), c, k, {})
    BY SendAckKeeps
  <1>2. send_ack(w) \in Worlds /\ send_ack(w).s.state # "FREED"
    BY <1>1 DEF In, NearlyIn, Sound, Closes
  <1>3. Len(w.s.rx_buffer) <= WinSize - 1
    BY DEF NearlyIn, Sound, Transmits
  <1> QED
    BY <1>2, <1>3, SendAckStream

(* send_reset.                                                             *)
LEMMA SendResetGood ==
  ASSUME NEW w, NEW e, Good(w, e)
  PROVE  Good(send_reset(w), e)
  <1> DEFINE v == send_reset(w)
  <1>1. w \in Worlds
    BY DEF Good
  <1>2. Reset(w.remote) \in Segment
    BY <1>1, Constants DEF Worlds, Reset, tcp_send, Segment, Num
  <1>3. v \in Worlds /\ v.s = w.s /\ v.out = w.out \cup {Reset(w.remote)}
    BY <1>1, <1>2 DEF Worlds, send_reset
  <1> HIDE DEF v
  <1>4. Tells(Reset(w.remote), w.s, e)
    BY ResetTells
  <1>5. Alike(w.s, v.s)
    BY <1>3 DEF Alike
  <1> QED
    BY <1>3, <1>4, <1>5, GoodSend DEF v

(* What is in the transmit buffer.                                         *)
LEMMA InBuffer ==
  ASSUME NEW s \in Socket, NEW e, Placed(e), Sender(s, e), s.state \in {"SYN_RCVD"} \cup Writable,
         NEW n \in Nat, n = Len(s.tx_buffer), n <= e.written
  PROVE  /\ e.written - n \in Nat /\ e.written - n \in Num
         /\ s.tx_win_low = Add(e.own, e.written - n)
         /\ s.tx_buffer = Counting(e.written - n, n)
  <1>1. e.written \in Nat /\ e.written < Modulus
    <2>1. e.written < Modulus \div 2
      BY Half, Constants DEF Placed
    <2> QED
      BY <2>1, Half, Constants DEF Placed
  <1>2. e.written - n \in Nat /\ e.written - n < Modulus
    BY <1>1, Constants
  <1> QED
    BY <1>2, Constants DEF Sender, Num

(* handle_ack drops only bytes that have arrived.                          *)
LEMMA HandleAckGood ==
  ASSUME NEW w, NEW c, NEW k \in Nat, k > 0, NEW sent, In(w, c, k, sent), NEW e, Placed(e),
         e.written = c.written, Good(w, e), w.s.state \in Writable, NEW sequence \in Num,
         e.state # "FREED" => \E a \in 0 .. e.received : sequence = Add(e.own, a)
  PROVE  LET v == handle_ack(w, sequence)
         IN  Good(v, e) /\ v.s.rx_win_low = w.s.rx_win_low /\ v.s.rx_buffer = w.s.rx_buffer
  <1> DEFINE s == w.s
             acked_len == Diff(sequence, s.tx_win_low)
             n == Len(s.tx_buffer)
             rest == SubSeq(s.tx_buffer, acked_len + 1, n)
             s1 == [s EXCEPT !.tx_buffer = rest, !.tx_win_low = sequence, !.tx_event = TRUE]
             r == IF sequence = s.tx_highest_seq THEN tcp_timer_cancel(s1, "retransmit")
                  ELSE tcp_timer_set(s1, "retransmit")
             v == handle_ack(w, sequence)
  <1>1. w \in Worlds /\ s \in Socket /\ Sound(s, c, k) /\ s.state # "FREED"
    BY DEF In, NearlyIn, Worlds, Writable
  <1>2. In(v, c, k, sent) /\ v.s.state = s.state /\ v.out = w.out
    BY HandleAck
  <1>3. \/ v = w
        \/ v = [w EXCEPT !.fault = "acked_len"]
        \/ v = [w EXCEPT !.s = r] /\ ~(acked_len > n)
    <2>1. CASE SEQUENCE_LTE(sequence, s.tx_win_low) \/ SEQUENCE_GT(sequence, s.tx_highest_seq)
      BY <2>1 DEF handle_ack
    <2>2. CASE /\ ~(SEQUENCE_LTE(sequence, s.tx_win_low) \/ SEQUENCE_GT(sequence, s.tx_highest_seq))
               /\ acked_len > n
      BY <2>2 DEF handle_ack
    <2>3. CASE /\ ~(SEQUENCE_LTE(sequence, s.tx_win_low) \/ SEQUENCE_GT(sequence, s.tx_highest_seq))
               /\ ~(acked_len > n)
      BY <2>3 DEF handle_ack
    <2> QED
      BY <2>1, <2>2, <2>3
  <1>4. CASE v = w
    BY <1>4
  <1>5. CASE v = [w EXCEPT !.fault = "acked_len"]
    <2>1. v \in Worlds /\ v.s = w.s /\ v.out = w.out
      <3>1. "acked_len" \in Faults BY DEF Faults
      <3> HIDE DEF v
      <3> QED BY <1>1, <1>5, <3>1, Faulted
    <2> HIDE DEF v
    <2>2. Alike(w.s, v.s)
      BY <2>1 DEF Alike
    <2>3. Good(v, e)
      BY <2>1, <2>2, GoodSend
    <2> QED
      BY <2>1, <2>3 DEF v
  <1>6. CASE v = [w EXCEPT !.s = r] /\ ~(acked_len > n)
    <2>1. n \in Nat /\ s.tx_win_low \in Num /\ n <= e.written
      BY <1>1, LenProperties DEF Socket, Sound, Transmits
    <2>2. acked_len \in Num /\ acked_len \in Nat /\ acked_len <= n
      <3>1. acked_len \in Num
        BY <2>1, Difference
      <3>2. acked_len \in Nat
        BY <3>1, Constants DEF Num
      <3> HIDE DEF acked_len, n
      <3> QED BY <1>6, <2>1, <3>1, <3>2
    <2>3. Sender(s, e) /\ Receiver(s, e) /\ Onward(s, e)
      BY <1>1 DEF Good, Streams
    <2> DEFINE p == e.written - n
    <2>4. /\ p \in Nat /\ p \in Num /\ s.tx_win_low = Add(e.own, p)
          /\ s.tx_buffer = Counting(p, n)
      BY <1>1, <2>1, <2>3, InBuffer
    <2>5. e.own \in Num /\ e.written \in Nat /\ e.received \in Nat /\ e.written < Modulus
      <3>1. e.written < Modulus \div 2
        BY Half, Constants DEF Placed
      <3> QED BY <3>1, Half, Constants DEF Placed
    <2>6. p + acked_len <= e.written /\ p + acked_len \in Nat /\ p + acked_len \in Num
      <3> HIDE DEF n, acked_len
      <3>1. p + acked_len <= e.written /\ p + acked_len \in Nat
        BY <2>1, <2>2, <2>5
      <3> HIDE DEF p
      <3> QED BY <2>5, <3>1, Constants DEF Num
    <2> HIDE DEF p
    <2>7. sequence = Add(e.own, p + acked_len)
      <3>1. sequence = Add(s.tx_win_low, acked_len)
        BY <2>1, AddDiff
      <3> HIDE DEF acked_len
      <3>2. p + acked_len < Modulus
        BY <2>5, <2>6, Constants
      <3>3. Add(Add(e.own, p), acked_len) = Add(e.own, p + acked_len)
        BY <2>2, <2>4, <2>5, <3>2, AddAdd
      <3> QED
        BY <2>4, <3>1, <3>3
    <2> HIDE DEF acked_len
    <2>8. e.state # "FREED" => p + acked_len <= e.received
      <3> SUFFICES ASSUME e.state # "FREED" PROVE p + acked_len <= e.received
        OBVIOUS
      <3>1. PICK a \in 0 .. e.received : sequence = Add(e.own, a)
        OBVIOUS
      <3>2. a \in Nat /\ a <= e.received /\ a \in Num
        BY <2>5, Constants DEF Placed, Num
      <3>3. a = p + acked_len
        BY <2>5, <2>6, <2>7, <3>1, <3>2, AddInjective
      <3> QED BY <3>2, <3>3
    <2>9. rest = Counting(p + acked_len, n - acked_len)
      <3> HIDE DEF n
      <3>1. SubSeq(Counting(p, n), acked_len + 1, n) = Counting(p + acked_len, n - acked_len)
        <4>1. p \in Int /\ n <= n
          BY <2>1, <2>4
        <4> QED BY <2>1, <2>2, <4>1, CountingPart
      <3> QED BY <2>4, <3>1
    <2>10. rest \in Seq(Int) /\ Len(rest) = n - acked_len
      <3>1. n - acked_len \in Nat /\ p + acked_len \in Int
        BY <2>1, <2>2, <2>6
      <3> HIDE DEF rest, n
      <3> QED BY <2>9, <3>1, CountingSeq
    <2>11. e.written - Len(rest) = p + acked_len
      <3>1. p = e.written - n BY DEF p
      <3> HIDE DEF n, rest
      <3> QED BY <2>1, <2>2, <2>5, <2>10, <3>1
    <2> HIDE DEF rest, n
    <2>12. /\ s1 \in Socket /\ s1.state = s.state /\ s1.rx_buffer = s.rx_buffer
           /\ s1.rx_win_low = s.rx_win_low /\ s1.rx_win_high = s.rx_win_high
           /\ s1.tx_buffer = rest /\ s1.tx_win_low = sequence
      BY <1>1, <2>10 DEF Socket
    <2> HIDE DEF s1, s
    <2>13. Sender(s1, e)
      <3>1. s1.tx_win_low = Add(e.own, e.written - Len(s1.tx_buffer))
        BY <2>7, <2>11, <2>12
      <3>2. s1.tx_buffer = Counting(e.written - Len(s1.tx_buffer), Len(s1.tx_buffer))
        BY <2>9, <2>10, <2>11, <2>12
      <3>3. s1.state \in Writable
        BY <2>12 DEF s
      <3>4. e.state # "FREED" => e.written - Len(s1.tx_buffer) <= e.received
        BY <2>8, <2>11, <2>12
      <3> QED
        BY <3>1, <3>2, <3>3, <3>4 DEF Sender, Writable
    <2>14. Receiver(s1, e) /\ Onward(s1, e)
      BY <2>3, <2>12 DEF Receiver, Onward, Fits
    <2>15. \A m \in w.out : Tells(m, s1, e)
      BY <2>12 DEF Good, Tells, s
    <2>16. v.s = r
      <3>0. v \in Worlds BY <1>2 DEF In, NearlyIn
      <3> HIDE DEF v, r
      <3> QED BY <1>1, <1>6 DEF Worlds
    <2>17. Alike(s1, r)
      <3>1. r.state # "FREED"
        BY <1>1, <1>2, <2>16
      <3> QED
        BY <2>12, <3>1, TimersAlike
    <2> HIDE DEF r, v
    <2>18. Good(v, e)
      <3>1. Streams(v.s, e) /\ Onward(v.s, e) /\ \A m \in v.out : Tells(m, v.s, e)
        BY <1>2, <2>13, <2>14, <2>15, <2>16, <2>17, AlikeStreams DEF Streams
      <3>2. v \in Worlds
        BY <1>2 DEF In, NearlyIn
      <3> QED BY <3>1, <3>2 DEF Good
    <2>19. v.s.rx_win_low = s.rx_win_low /\ v.s.rx_buffer = s.rx_buffer
      BY <2>12, <2>16, <2>17 DEF Alike
    <2> QED
      BY <2>18, <2>19 DEF v, s
  <1> QED
    BY <1>3, <1>4, <1>5, <1>6
(* The beginning of a run.                                                 *)
LEMMA CountingPrefix ==
  ASSUME NEW k \in Int, NEW n \in Nat, NEW j \in Nat, j <= n
  PROVE  SubSeq(Counting(k, n), 1, j) = Counting(k, j)
  <1>1. SubSeq(Counting(k, n), 0 + 1, j) = Counting(k + 0, j - 0)
    <2>1. 0 <= j /\ 0 \in Nat OBVIOUS
    <2> QED BY <2>1, CountingPart
  <1>2. 0 + 1 = 1 /\ k + 0 = k /\ j - 0 = j
    OBVIOUS
  <1> QED
    BY <1>1, <1>2

(* Sequences are put together from either side.                            *)
LEMMA ConcatConcat ==
  ASSUME NEW p \in Seq(Int), NEW q \in Seq(Int), NEW r \in Seq(Int)
  PROVE  (p \o q) \o r = p \o (q \o r)
  OBVIOUS

(* What arrived before and what arrives now.                               *)
LEMMA CountingMore ==
  ASSUME NEW g \in Seq(Int), NEW p \in Seq(Int), NEW n \in Nat, NEW m \in Nat
  PROVE  LET t == Counting(n, m)
         IN  /\ p \o t \in Seq(Int) /\ Len(p \o t) = Len(p) + m
             /\ g \o p = Counting(0, n) => g \o (p \o t) = Counting(0, n + m)
  <1> DEFINE t == Counting(n, m)
  <1>0. n \in Int /\ 0 \in Int OBVIOUS
  <1>1. t \in Seq(Int) /\ Len(t) = m
    BY <1>0, CountingSeq, Zenon
  <1>2. Counting(0, n) \o Counting(0 + n, m) = Counting(0, n + m)
    BY <1>0, CountingConcat, Zenon
  <1>3. 0 + n = n OBVIOUS
  <1> HIDE DEF t
  <1>4. p \o t \in Seq(Int) /\ Len(p \o t) = Len(p) + m
    BY <1>1, ConcatProperties
  <1>5. (g \o p) \o t = g \o (p \o t)
    BY <1>1, ConcatConcat, Zenon
  <1>6. g \o p = Counting(0, n) => (g \o p) \o t = Counting(0, n + m)
    BY <1>2, <1>3 DEF t
  <1> QED
    BY <1>4, <1>5, <1>6, Zenon DEF t

(* What fits is stored, all of it.                                         *)
LEMMA StoredAll ==
  ASSUME NEW s \in Socket, NEW n \in Nat, NEW copy \in Nat,
         copy <= WinSize - 1 - Len(s.rx_buffer)
  PROVE  Stored(s, Counting(n, copy)) = Counting(n, copy)
  <1> DEFINE room == WinSize - 1 - Len(s.rx_buffer)
  <1>1. room \in Int /\ copy <= room
    BY Constants, LenProperties DEF Socket
  <1>2. Len(Counting(n, copy)) = copy
    BY CountingSeq
  <1> HIDE DEF room
  <1>3. Least(copy, room) = copy
    BY <1>1 DEF Least
  <1>4. Stored(s, Counting(n, copy)) = SubSeq(Counting(n, copy), 1, copy)
    BY <1>2, <1>3 DEF Stored, room
  <1>5. SubSeq(Counting(n, copy), 1, copy) = Counting(n, copy)
    BY CountingPrefix
  <1> QED
    BY <1>4, <1>5

(* A segment that begins at or below the bottom of the window and passes   *)
(* the assertion begins at the bottom.                                     *)
LEMMA AtBottom ==
  ASSUME NEW a \in Num, NEW i \in Nat, NEW n \in Nat, NEW l \in Nat, NEW top \in Nat,
         i + l <= top, n <= top, top < Modulus \div 2, SEQUENCE_LTE(Add(a, i), Add(a, n)),
         ~(Diff(Add(a, i), Add(a, n)) >= l)
  PROVE  i = n /\ Diff(Add(a, i), Add(a, n)) = 0
  <1> DEFINE d == Diff(Add(a, i), Add(a, n))
             H == Modulus \div 2
  <1>1. H \in Nat /\ 2 * H <= Modulus
    BY Half
  <1> HIDE DEF H
  <1>2. i \in Num /\ n \in Num /\ i < H /\ n < H /\ l < H
    BY <1>1, Constants DEF Num, H
  <1>3. d = IF n <= i THEN i - n ELSE i - n + Modulus
    BY <1>2, Distance
  <1> HIDE DEF d
  <1>4. ~(d >= l) BY DEF d
  <1>5. IF d < H THEN d <= 0 ELSE d - Modulus <= 0
    <2>1. Signed(d) <= 0
      BY DEF SEQUENCE_LTE, d
    <2> QED BY <2>1 DEF Signed, H
  <1>6. i = n /\ d = 0
    BY <1>1, <1>2, <1>3, <1>4, <1>5, Constants
  <1> QED
    BY <1>6 DEF d

(* Data in the window goes on where the stream ended.                      *)
LEMMA InWindowGood ==
  ASSUME NEW w, NEW c, NEW k \in Nat, k > 0, NEW sent, In(w, c, k, sent), NEW e, Placed(e),
         Good(w, e), w.s.state = "ESTABLISHED", NEW sequence \in Num, NEW data \in Seq(Int),
         SEQUENCE_LTE(sequence, w.s.rx_win_low),
         \E i \in 0 .. e.theirs : /\ i + Len(data) <= e.theirs
                                  /\ sequence = Add(e.peer, i) /\ data = Counting(i, Len(data))
  PROVE  Good(InWindow(w, data, sequence), e)
  <1> DEFINE s == w.s
             offset == Diff(sequence, s.rx_win_low)
             copy_len == Least(Diff(s.rx_win_high, s.rx_win_low), Len(data) - offset)
             full == IF copy_len >= MSS THEN s.rx_full_mss_count + 1 ELSE 0
             low == Add(s.rx_win_low, copy_len)
             at_once == full >= 2 \/ Signed(Diff(low + WinSize, s.rx_win_high)) > WinSize \div 2
             part == SubSeq(data, offset + 1, offset + copy_len)
             count == IF at_once THEN 0 ELSE full
             buffer == s.rx_buffer \o Stored(s, part)
             s1 == [s EXCEPT !.rx_win_low = low, !.rx_event = TRUE, !.rx_buffer = buffer,
                             !.rx_full_mss_count = count]
             v == InWindow(w, data, sequence)
             n == Len(e.got \o s.rx_buffer)
  <1>1. /\ w \in Worlds /\ s \in Socket /\ Sound(s, c, k) /\ s.state = "ESTABLISHED"
        /\ Acknowledges(s, c, sent \cup w.out) /\ w.remote = Other(HostOf(c.x))
    BY DEF In, NearlyIn, Worlds
  <1>2. Sender(s, e) /\ Receiver(s, e) /\ Onward(s, e)
    BY <1>1 DEF Good, Streams
  <1>5. v \in Worlds /\ v.s.state # "FREED"
    <2>1. In(v, c, k, sent)
      BY InWindowKeeps
    <2> HIDE DEF v
    <2> QED BY <2>1 DEF In, NearlyIn, Sound, Closes
  <1>3. CASE offset >= Len(data)
    <2>1. v = [w EXCEPT !.fault = "offset < len"]
      BY <1>3 DEF InWindow
    <2>2. "offset < len" \in Faults BY DEF Faults
    <2> HIDE DEF v, s
    <2>3. v \in Worlds /\ v.s = w.s /\ v.out = w.out
      BY <1>1, <2>1, <2>2, Faulted
    <2>4. Alike(w.s, v.s)
      BY <2>3 DEF Alike
    <2> QED
      BY <2>3, <2>4, GoodSend DEF v
  <1>4. CASE ~(offset >= Len(data))
    <2>1. v = IF at_once THEN send_ack([w EXCEPT !.s = s1])
              ELSE [w EXCEPT !.s = tcp_timer_set(s1, "ack")]
      BY <1>4 DEF InWindow
    <2>2. s.rx_win_low \in Num /\ s.rx_win_high \in Num /\ s.rx_full_mss_count \in Int
          /\ s.rx_buffer \in Seq(Int) /\ Len(s.rx_buffer) \in Nat /\ Len(data) \in Nat
      BY <1>1, LenProperties DEF Socket
    <2>3. e.got \in Seq(Int) /\ e.peer \in Num /\ e.theirs \in Nat /\ e.theirs < Modulus \div 2
      BY Constants, Half DEF Placed
    <2>4. e.got \o s.rx_buffer \in Seq(Int) /\ n \in Nat
      <3>1. e.got \o s.rx_buffer \in Seq(Int)
        BY <2>2, <2>3, ConcatProperties
      <3> QED BY <3>1, LenProperties
    <2>5. /\ e.got \o s.rx_buffer = Counting(0, n) /\ n <= e.theirs
          /\ s.rx_win_low = Add(e.peer, n) /\ Fits(s)
          /\ e.state \in Sending => e.acked <= n
          /\ e.state # "NONE"
      BY <1>1, <1>2 DEF Receiver, Live, Writable
    <2> HIDE DEF n
    <2>0. n \in Nat /\ n \in Int
      BY <2>4
    <2>6. PICK i \in 0 .. e.theirs : /\ i + Len(data) <= e.theirs
                                     /\ sequence = Add(e.peer, i) /\ data = Counting(i, Len(data))
      OBVIOUS
    <2>7. i = n /\ offset = 0
      <3>1. SEQUENCE_LTE(Add(e.peer, i), Add(e.peer, n))
        BY <2>5, <2>6
      <3>2. ~(Diff(Add(e.peer, i), Add(e.peer, n)) >= Len(data))
        BY <1>4, <2>5, <2>6
      <3>3. i \in Nat
        BY <2>3
      <3>4. i = n /\ Diff(Add(e.peer, i), Add(e.peer, n)) = 0
        BY <2>2, <2>3, <2>4, <2>5, <2>6, <3>1, <3>2, <3>3, AtBottom
      <3> QED
        BY <2>5, <2>6, <3>4
    <2> HIDE DEF offset
    <2>8. /\ copy_len \in Nat /\ copy_len <= Len(data)
          /\ copy_len <= Diff(s.rx_win_high, s.rx_win_low)
          /\ copy_len <= WinSize - 1 - Len(s.rx_buffer)
      <3> DEFINE d == Diff(s.rx_win_high, s.rx_win_low)
                 room == WinSize - 1 - Len(s.rx_buffer)
      <3>1. d \in Nat /\ d <= room /\ room \in Int
        <4>1. d \in Num
          BY <2>2, Difference
        <4>2. d \in Nat
          BY <4>1, Constants DEF Num
        <4>3. room \in Int
          BY <2>2, Constants
        <4> QED BY <2>5, <4>2, <4>3 DEF Fits
      <3>2. copy_len = Least(d, Len(data) - 0)
        BY <2>7
      <3> HIDE DEF d, room, copy_len
      <3>3. copy_len \in Nat /\ copy_len <= Len(data) /\ copy_len <= d
        BY <2>2, <3>1, <3>2 DEF Least
      <3>4. copy_len <= room
        BY <3>1, <3>3
      <3> QED BY <3>3, <3>4 DEF d, room
    <2> HIDE DEF copy_len
    <2>9. part = Counting(n, copy_len)
      <3>1. SubSeq(Counting(n, Len(data)), 1, copy_len) = Counting(n, copy_len)
        BY <2>0, <2>2, <2>8, CountingPrefix
      <3>2. 0 + 1 = 1 /\ 0 + copy_len = copy_len
        BY <2>8
      <3> QED
        BY <2>6, <2>7, <3>1, <3>2
    <2>10. Stored(s, part) = Counting(n, copy_len)
      <3> HIDE DEF part, s
      <3> QED BY <1>1, <2>4, <2>8, <2>9, StoredAll
    <2> HIDE DEF part
    <2>11. /\ buffer \in Seq(Int) /\ Len(buffer) = Len(s.rx_buffer) + copy_len
           /\ e.got \o buffer = Counting(0, n + copy_len)
      <3>1. s.rx_buffer \in Seq(Int) /\ e.got \in Seq(Int) /\ copy_len \in Nat
            /\ e.got \o s.rx_buffer = Counting(0, n)
        BY <2>2, <2>3, <2>5, <2>8
      <3>2. buffer = s.rx_buffer \o Counting(n, copy_len)
        BY <2>10
      <3> HIDE DEF buffer, s
      <3> QED
        <4>1. s.rx_buffer \in Seq(Int) BY <3>1
        <4>2. e.got \in Seq(Int) BY <3>1
        <4>3. copy_len \in Nat BY <3>1
        <4> DEFINE t == Counting(n, copy_len)
        <4>4. /\ s.rx_buffer \o t \in Seq(Int) /\ Len(s.rx_buffer \o t) = Len(s.rx_buffer) + copy_len
              /\ e.got \o s.rx_buffer = Counting(0, n) =>
                   e.got \o (s.rx_buffer \o t) = Counting(0, n + copy_len)
          BY <2>0, <4>1, <4>2, <4>3, CountingMore, Zenon
        <4> QED BY <3>1, <3>2, <4>4, Zenon
    <2>12. low \in Num /\ low = Add(e.peer, n + copy_len)
      <3>1. n + copy_len <= e.theirs /\ n + copy_len \in Nat
        BY <2>2, <2>3, <2>4, <2>6, <2>7, <2>8
      <3>2. n + copy_len < Modulus
        BY <2>3, <3>1, Half, Constants
      <3>3. Add(Add(e.peer, n), copy_len) = Add(e.peer, n + copy_len)
        BY <2>3, <2>4, <2>8, <3>2, AddAdd
      <3>4. low \in Num
        <4>1. s.rx_win_low \in Int /\ copy_len \in Int
          BY <2>2, <2>8 DEF Num
        <4> QED BY <4>1, Numbers
      <3> QED
        BY <2>5, <3>3, <3>4
    <2>13. Diff(s.rx_win_high, low) <= WinSize - 1 - Len(buffer)
      <3> DEFINE d == Diff(s.rx_win_high, s.rx_win_low)
      <3>1. Diff(s.rx_win_high, low) = d - copy_len
        BY <2>2, <2>8, DiffLess
      <3>2. d <= WinSize - 1 - Len(s.rx_buffer) /\ d \in Int
        <4>1. d \in Num BY <2>2, Difference
        <4>2. d <= WinSize - 1 - Len(s.rx_buffer)
          BY <2>5 DEF Fits
        <4>3. d \in Int
          BY <4>1, Constants DEF Num
        <4> QED BY <4>2, <4>3
      <3> HIDE DEF d, low, buffer
      <3> QED
        BY <2>2, <2>8, <2>11, <3>1, <3>2, Constants
    <2>14. count \in Int
      BY <2>2
    <2> HIDE DEF low, buffer, count, at_once
    <2>15. /\ s1 \in Socket /\ s1.state = s.state
           /\ s1.rx_buffer = buffer /\ s1.rx_win_low = low /\ s1.rx_win_high = s.rx_win_high
           /\ s1.tx_buffer = s.tx_buffer /\ s1.tx_win_low = s.tx_win_low
      BY <1>1, <2>11, <2>12, <2>14 DEF Socket
    <2> HIDE DEF s1
    <2>16. Sender(s1, e)
      BY <1>2, <2>15 DEF Sender
    <2>17. Len(e.got \o buffer) = n + copy_len
      <3>1. n + copy_len \in Nat BY <2>4, <2>8
      <3>2. Len(Counting(0, n + copy_len)) = n + copy_len
        BY <3>1, CountingSeq
      <3> QED BY <2>11, <3>2
    <2>18. Receiver(s1, e)
      <3>1. Fits(s1)
        BY <2>13, <2>15 DEF Fits
      <3>2. n + copy_len <= e.theirs
        BY <2>2, <2>3, <2>4, <2>6, <2>7, <2>8
      <3>3. e.state \in Sending => e.acked <= n + copy_len
        <4>1. e.acked \in Int BY DEF Placed
        <4> QED BY <2>4, <2>5, <2>8, <4>1
      <3>4. s1.state = "ESTABLISHED" BY <1>1, <2>15
      <3> QED
        BY <2>5, <2>11, <2>12, <2>15, <2>17, <3>1, <3>2, <3>3, <3>4 DEF Receiver
    <2>19. Onward(s1, e) /\ \A m \in w.out : Tells(m, s1, e)
      <3>1. n <= Len(e.got \o s1.rx_buffer)
        BY <2>4, <2>8, <2>15, <2>17
      <3>2. e.had \in Nat /\ e.had <= n
        BY <1>1, <1>2 DEF Placed, Onward, n
      <3>3. e.had <= Len(e.got \o s1.rx_buffer)
        BY <2>4, <2>8, <2>15, <2>17, <3>2
      <3>4. Onward(s1, e)
        BY <1>1, <1>2, <2>15, <3>3 DEF Onward
      <3>5. ASSUME NEW m \in w.out PROVE Tells(m, s1, e)
        <4>1. Tells(m, s, e) BY DEF Good
        <4>2. s1.rx_buffer \in Seq(Int) BY <2>11, <2>15
        <4>3. Len(e.got \o s.rx_buffer) <= Len(e.got \o s1.rx_buffer)
          BY <3>1 DEF n
        <4>4. s1.state = "ESTABLISHED" /\ s.state = "ESTABLISHED" BY <1>1, <2>15
        <4> HIDE DEF s
        <4> QED BY <2>2, <2>3, <4>1, <4>2, <4>3, <4>4, TellsMoves
      <3> QED BY <3>4, <3>5
    <2>20. CASE at_once
      <3> DEFINE w1 == [w EXCEPT !.s = s1]
      <3>1. w1 \in Worlds /\ w1.s = s1 /\ w1.out = w.out /\ w1.remote = w.remote
        <4> HIDE DEF s
        <4> QED BY <1>1, <2>15, Replaced
      <3>2. v = send_ack(w1)
        BY <2>1, <2>20
      <3> HIDE DEF w1, v
      <3>3. Good(w1, e)
        BY <2>16, <2>18, <2>19, <3>1 DEF Good, Streams
      <3>4. Len(w1.s.rx_buffer) <= WinSize - 1
        <4>1. Len(buffer) = Len(s.rx_buffer) + copy_len /\ copy_len <= WinSize - 1 - Len(s.rx_buffer)
          BY <2>8, <2>11
        <4> QED
          BY <2>2, <2>8, <2>15, <3>1, <4>1, Constants
      <3> QED
        BY <1>5, <3>2, <3>3, <3>4, SendAckStream DEF v
    <2>21. CASE ~at_once
      <3> DEFINE r == tcp_timer_set(s1, "ack")
      <3>1. v = [w EXCEPT !.s = r]
        BY <2>1, <2>21
      <3>2. Alike(s1, r)
        BY <2>15, TimersAlike
      <3> HIDE DEF r, v
      <3>3. v.s = r /\ v.out = w.out
        BY <1>1, <3>1 DEF Worlds
      <3> QED
        BY <1>5, <2>16, <2>18, <2>19, <3>2, <3>3, AlikeStreams DEF Good, Streams, v
    <2> QED
      BY <2>20, <2>21
  <1> QED
    BY <1>3, <1>4

(* handle_data.                                                            *)
LEMMA HandleDataGood ==
  ASSUME NEW w, NEW c, NEW k \in Nat, k > 0, NEW sent, In(w, c, k, sent), NEW e, Placed(e),
         Good(w, e), w.s.state = "ESTABLISHED", NEW m \in Segment, Heard(m, e), m.data # <<>>
  PROVE  Good(handle_data(w, m.data, m.seq), e)
  <1>1. m.seq \in Num /\ m.data \in Seq(Int)
    BY DEF Segment
  <1>2. \E i \in 0 .. e.theirs : /\ i + Len(m.data) <= e.theirs
                                 /\ m.seq = Add(e.peer, i) /\ m.data = Counting(i, Len(m.data))
    BY DEF Heard
  <1>3. CASE SEQUENCE_LTE(m.seq, w.s.rx_win_low)
             /\ SEQUENCE_GTE(Add(m.seq, Len(m.data) - 1), w.s.rx_win_low)
    <2>1. handle_data(w, m.data, m.seq) = InWindow(w, m.data, m.seq)
      BY <1>3 DEF handle_data
    <2>2. Good(InWindow(w, m.data, m.seq), e)
      BY <1>1, <1>2, <1>3, InWindowGood
    <2> QED BY <2>1, <2>2
  <1>4. CASE ~(SEQUENCE_LTE(m.seq, w.s.rx_win_low)
               /\ SEQUENCE_GTE(Add(m.seq, Len(m.data) - 1), w.s.rx_win_low))
    <2>1. handle_data(w, m.data, m.seq) = send_ack(w)
      BY <1>4 DEF handle_data
    <2>2. NearlyIn(w, c, k)
      BY DEF In
    <2> QED BY <2>1, <2>2, SendAckGood
  <1> QED
    BY <1>3, <1>4
(* A socket that has closed its stream, or is closed, keeps what arrived.  *)
LEMMA MovesOn ==
  ASSUME NEW w, NEW v \in Worlds, NEW e, Placed(e), Good(w, e), w.s.state # "FREED",
         v.out = w.out, v.s.state \notin Sending \cup {"NONE"},
         v.s.state # "FREED" => v.s.rx_buffer = w.s.rx_buffer,
         v.s.state \in Live => w.s.state \in Live,
         v.s.state \in Live /\ e.state \in Sending => v.s.rx_win_low = w.s.rx_win_low
  PROVE  Good(v, e)
  <1>1. w \in Worlds /\ w.s.rx_buffer \in Seq(Int) /\ v.s.rx_buffer \in Seq(Int) /\ e.got \in Seq(Int)
    BY DEF Good, Worlds, Socket, Placed
  <1>2. Sender(v.s, e)
    BY DEF Sender, Sending, Writable
  <1>3. v.s.state # "FREED" => Receiver(v.s, e) /\ Onward(v.s, e)
    <2> SUFFICES ASSUME v.s.state # "FREED" PROVE Receiver(v.s, e) /\ Onward(v.s, e)
      OBVIOUS
    <2>1. Receiver(w.s, e) /\ Onward(w.s, e) /\ v.s.rx_buffer = w.s.rx_buffer
      BY DEF Good, Streams
    <2>2. v.s.state \notin {"NONE", "SYN_SENT", "SYN_RCVD", "ESTABLISHED"}
      BY DEF Sending, Writable
    <2>3. Receiver(v.s, e)
      BY <2>1, <2>2 DEF Receiver
    <2>4. Onward(v.s, e)
      BY <2>1, <2>2 DEF Onward
    <2> QED BY <2>3, <2>4
  <1>4. v.s.state = "FREED" => Onward(v.s, e)
    BY DEF Onward
  <1>5. ASSUME NEW m \in v.out PROVE Tells(m, v.s, e)
    <2>1. Tells(m, w.s, e)
      BY DEF Good
    <2>2. v.s.state # "FREED" => Len(e.got \o w.s.rx_buffer) <= Len(e.got \o v.s.rx_buffer)
      <3>1. e.got \o w.s.rx_buffer \in Seq(Int)
        BY <1>1, ConcatProperties
      <3>2. Len(e.got \o w.s.rx_buffer) \in Nat
        BY <3>1, LenProperties
      <3> QED BY <3>2
    <2> QED
      BY <1>1, <2>1, <2>2, TellsMoves
  <1> QED
    BY <1>2, <1>3, <1>4, <1>5 DEF Good, Streams

(* tcp_socket_send and send_ack make a world of a world.                   *)
LEMMA SendTyped ==
  ASSUME NEW w \in Worlds
  PROVE  /\ send_ack(w) \in Worlds
         /\ \A flags \in SUBSET {"SYN", "ACK", "FIN", "RST"}, seq \in Num, data \in Seq(Int) :
              tcp_socket_send(w, flags, seq, data) \in Worlds
  <1>1. w.s \in Socket /\ w.remote \in Hosts /\ w.s.rx_win_low \in Num /\ w.s.tx_win_low \in Num
        /\ <<>> \in Seq(Int) /\ 0 \in Num
    BY Constants DEF Worlds, Socket, Num
  <1>2. ASSUME NEW flags \in SUBSET {"SYN", "ACK", "FIN", "RST"}, NEW seq \in Num, NEW data \in Seq(Int)
        PROVE  tcp_socket_send(w, flags, seq, data) \in Worlds
    <2> DEFINE s == [w.s EXCEPT !.rx_win_high = RxWinHigh(w.s)]
               r == tcp_timer_cancel(s, "ack")
               ack == IF "ACK" \in flags THEN s.rx_win_low ELSE 0
               m == tcp_send(w.remote, flags, seq, ack, data)
    <2>1. s \in Socket /\ s.rx_win_low = w.s.rx_win_low
      BY <1>1, EdgeIsNum DEF Socket
    <2> HIDE DEF s
    <2>2. r \in Socket
      <3>1. Freed \in Socket
        BY Records
      <3>2. \A n \in Int : [[s EXCEPT !.timers = s.timers \ {"ack"}] EXCEPT !.ref = n] \in Socket
        BY <2>1 DEF Socket
      <3>3. s.ref - 1 \in Int /\ [s EXCEPT !.timers = s.timers \ {"ack"}].ref = s.ref
        BY <2>1 DEF Socket
      <3> QED
        BY <2>1, <3>1, <3>2, <3>3 DEF tcp_timer_cancel, dec_socket_ref
    <2>3. m \in Segment
      BY <1>1, <2>1 DEF tcp_send, Segment
    <2> DEFINE q == IF "ACK" \in flags THEN r ELSE s
    <2>4. tcp_socket_send(w, flags, seq, data) = [w EXCEPT !.s = q, !.out = w.out \cup {m}]
      BY DEF tcp_socket_send, s
    <2>5. q \in Socket
      BY <2>1, <2>2
    <2> HIDE DEF r, m, q
    <2> QED
      BY <2>3, <2>4, <2>5 DEF Worlds
  <1>3. {"ACK"} \in SUBSET {"SYN", "ACK", "FIN", "RST"}
    OBVIOUS
  <1>4. send_ack(w) \in Worlds
    BY <1>1, <1>2, <1>3 DEF send_ack
  <1> QED
    BY <1>2, <1>4

(* A reset closes the socket.                                              *)
LEMMA RemoteCloseGood ==
  ASSUME NEW w, NEW c, NEW k \in Nat, k > 0, NEW sent, In(w, c, k, sent), NEW e, Placed(e), Good(w, e)
  PROVE  LET v == [w EXCEPT !.s = tcp_remote_close(w.s)]
         IN  Good(v, e) /\ v.s.state = "CLOSED" /\ v.s = tcp_remote_close(w.s)
  <1> DEFINE r == tcp_remote_close(w.s)
             v == [w EXCEPT !.s = r]
  <1>1. w \in Worlds /\ Sound(w.s, c, k) /\ w.s.state # "FREED"
    BY DEF In, NearlyIn, Sound, Closes
  <1>2. Sound(r, c, k) /\ r.state = "CLOSED" /\ r.rx_buffer = w.s.rx_buffer
    BY <1>1, RemoteClose
  <1>3. r \in Socket
    BY <1>2 DEF Sound, Balanced
  <1> HIDE DEF r
  <1>4. v \in Worlds /\ v.s = r /\ v.out = w.out
    BY <1>1, <1>3, Replaced
  <1>5. "CLOSED" \notin Sending \cup {"NONE"} /\ "CLOSED" \notin Live
    BY DEF Sending, Writable, Live, Shut
  <1> HIDE DEF v
  <1>6. Good(v, e)
    BY <1>1, <1>2, <1>4, <1>5, MovesOn
  <1> QED
    BY <1>2, <1>4, <1>6 DEF v, r

(* One lemma per state.  SYN_RCVD:                                         *)
LEMMA SynRcvdGood ==
  ASSUME NEW w, NEW c, NEW k \in Nat, k > 0, NEW sent, In(w, c, k, sent), NEW m \in Segment,
         NEW e, Placed(e), Good(w, e), w.s.state = "SYN_RCVD"
  PROVE  Good(in_SYN_RCVD(w, m), e)
  <1> DEFINE s == w.s
             r == [s EXCEPT !.tx_highest_seq = s.tx_win_low, !.state = "ESTABLISHED"]
             v == [w EXCEPT !.s = r]
  <1>1. w \in Worlds /\ s \in Socket /\ s.state = "SYN_RCVD"
    BY DEF In, NearlyIn, Worlds
  <1>2. in_SYN_RCVD(w, m) = send_reset(w) \/ in_SYN_RCVD(w, m) = v
    BY DEF in_SYN_RCVD
  <1>3. /\ r \in Socket /\ r.state = "ESTABLISHED" /\ r.rx_buffer = s.rx_buffer
        /\ r.rx_win_low = s.rx_win_low /\ r.rx_win_high = s.rx_win_high
        /\ r.tx_buffer = s.tx_buffer /\ r.tx_win_low = s.tx_win_low
    BY <1>1 DEF Socket, Open
  <1> HIDE DEF r
  <1>4. v \in Worlds /\ v.s = r /\ v.out = w.out
    BY <1>1, <1>3, Replaced
  <1>5. Sender(s, e) /\ Receiver(s, e) /\ Onward(s, e) /\ \A n \in w.out : Tells(n, s, e)
    BY <1>1 DEF Good, Streams
  <1> HIDE DEF s, v
  <1>6. Sender(r, e)
    BY <1>1, <1>3, <1>5 DEF Sender, Writable, Sending
  <1>7. Receiver(r, e)
    BY <1>1, <1>3, <1>5 DEF Receiver, Live, Writable, Fits
  <1>8. Onward(r, e)
    BY <1>1, <1>3, <1>5 DEF Onward, Sending, Writable
  <1>9. \A n \in w.out : Tells(n, r, e)
    BY <1>1, <1>3, <1>5 DEF Tells, Sending, Writable
  <1>10. Good(v, e)
    BY <1>4, <1>6, <1>7, <1>8, <1>9 DEF Good, Streams
  <1> QED
    BY <1>2, <1>10, SendResetGood

(* Nothing arrived.                                                        *)
LEMMA NothingYet ==
  ASSUME NEW p \in Seq(Int), NEW q \in Seq(Int), p \o q = <<>>
  PROVE  q = <<>> /\ p = <<>>
  <1>1. Len(p \o q) = Len(p) + Len(q)
    BY ConcatProperties
  <1>2. Len(p) \in Nat /\ Len(q) \in Nat
    BY LenProperties
  <1>3. Len(q) = 0 /\ Len(p) = 0
    <2>1. Len(p \o q) = 0
      OBVIOUS
    <2> QED BY <1>1, <1>2, <2>1
  <1> QED
    BY <1>3, EmptySeq

(* SYN_SENT.                                                               *)
LEMMA SynSentGood ==
  ASSUME NEW w, NEW c, NEW k \in Nat, k > 0, NEW sent, In(w, c, k, sent), NEW m \in Segment,
         NEW e, Placed(e), e.written = c.written, Good(w, e), Heard(m, e), w.s.state = "SYN_SENT"
  PROVE  Good(in_SYN_SENT(w, m), e)
  <1> DEFINE s == w.s
             low == Add(m.seq, 1)
             high == Add(low, WinSize - 1)
             r == [s EXCEPT !.rx_win_low = low, !.rx_win_high = high, !.tx_win_low = m.ack,
                            !.tx_highest_seq = m.ack, !.state = "ESTABLISHED"]
             v == [w EXCEPT !.s = r]
             w1 == send_ack(v)
             w2 == [w1 EXCEPT !.s.connect_event = TRUE]
  <1>1. w \in Worlds /\ s \in Socket /\ s.state = "SYN_SENT" /\ Sound(s, c, k)
    BY DEF In, NearlyIn, Worlds
  <1>2. CASE ~({"SYN", "ACK"} \subseteq m.flags) \/ m.ack # Add(s.tx_win_low, 1)
    <2>1. in_SYN_SENT(w, m) = send_reset(w)
      BY <1>2 DEF in_SYN_SENT
    <2> QED BY <2>1, SendResetGood
  <1>3. CASE ~(~({"SYN", "ACK"} \subseteq m.flags) \/ m.ack # Add(s.tx_win_low, 1))
    <2>1. in_SYN_SENT(w, m) = w2
      BY <1>3 DEF in_SYN_SENT
    <2>2. Sender(s, e) /\ Receiver(s, e) /\ Onward(s, e) /\ \A n \in w.out : Tells(n, s, e)
      BY <1>1 DEF Good, Streams
    <2>3. /\ low = e.peer /\ m.ack = e.own /\ e.written = 0 /\ e.state # "NONE"
          /\ e.got \o s.rx_buffer = <<>> /\ e.before \in Sending
      <3>1. low = e.peer /\ e.state # "NONE"
        BY <1>3 DEF Heard
      <3>2. m.ack = e.own /\ e.written = 0
        BY <1>1, <1>3, <2>2 DEF Sender
      <3>3. e.got \o s.rx_buffer = <<>> /\ e.before \in Sending
        BY <1>1, <2>2 DEF Receiver, Onward, Sending
      <3> QED BY <3>1, <3>2, <3>3
    <2>4. e.peer \in Num /\ e.own \in Num /\ e.got \in Seq(Int) /\ e.received \in Nat
          /\ s.rx_buffer \in Seq(Int) /\ s.tx_buffer \in Seq(Int)
      BY <1>1 DEF Placed, Socket
    <2>5. s.rx_buffer = <<>> /\ s.tx_buffer = <<>> /\ Len(s.tx_buffer) = 0
      <3>1. s.rx_buffer = <<>>
        BY <2>3, <2>4, NothingYet
      <3>2. Len(s.tx_buffer) <= 0
        BY <1>1, <2>3 DEF Sound, Transmits
      <3>3. Len(s.tx_buffer) \in Nat
        BY <2>4, LenProperties
      <3>4. Len(s.tx_buffer) = 0
        BY <3>2, <3>3
      <3> QED BY <2>4, <3>1, <3>4, EmptySeq
    <2>6. high \in Num /\ Diff(high, low) = WinSize - 1
      <3>1. WinSize - 1 \in Num
        <4>1. WinSize < Modulus
          BY TcpAssumption, Half
        <4> QED BY <4>1, Constants DEF Num
      <3>2. Add(e.peer, WinSize - 1) \in Num
        BY <2>4, <3>1, Sum
      <3> HIDE DEF low
      <3> QED BY <2>3, <2>4, <3>1, <3>2, DiffAdd
    <2> HIDE DEF low, high
    <2>7. /\ r \in Socket /\ r.state = "ESTABLISHED" /\ r.rx_buffer = s.rx_buffer
          /\ r.rx_win_low = low /\ r.rx_win_high = high
          /\ r.tx_buffer = s.tx_buffer /\ r.tx_win_low = m.ack
      BY <1>1, <2>3, <2>4, <2>6 DEF Socket, Open
    <2> HIDE DEF r
    <2>8. v \in Worlds /\ v.s = r /\ v.out = w.out
      BY <1>1, <2>7, Replaced
    <2>9. Sender(r, e)
      <3>1. Add(e.own, 0) = e.own
        BY <2>4, AddZero
      <3>2. Counting(0, 0) = <<>>
        BY CountingSeq, EmptySeq DEF Counting
      <3>3. e.written - Len(r.tx_buffer) = 0 /\ Len(r.tx_buffer) = 0 /\ r.tx_buffer = <<>>
        <4>1. e.written = 0 BY <2>3
        <4>2. r.tx_buffer = <<>> /\ Len(r.tx_buffer) = 0 BY <2>5, <2>7
        <4>3. 0 - 0 = 0 OBVIOUS
        <4> QED BY <4>1, <4>2, <4>3
      <3> QED
        BY <2>3, <2>4, <2>7, <3>1, <3>2, <3>3 DEF Sender
    <2>10. Receiver(r, e)
      <3>1. Add(e.peer, 0) = e.peer
        BY <2>4, AddZero
      <3>2. Len(r.rx_buffer) = 0 /\ e.got \o r.rx_buffer = <<>> /\ Len(e.got \o r.rx_buffer) = 0
        <4>1. e.got \o r.rx_buffer = <<>> /\ r.rx_buffer = <<>>
          BY <2>3, <2>5, <2>7
        <4>2. Len(<<>>) = 0
          OBVIOUS
        <4> QED BY <4>1, <4>2
      <3>3. Fits(r)
        BY <2>6, <2>7, <3>2, Constants DEF Fits
      <3>4. \/ e.state \notin Sending
            \/ e.acked <= 0
        <4>1. e.got \o s.rx_buffer = <<>> /\ Len(<<>>) = 0 BY <2>3
        <4> QED BY <2>2, <4>1 DEF Receiver
      <3>5. Counting(0, 0) = <<>>
        BY CountingSeq, EmptySeq DEF Counting
      <3>6. 0 <= e.theirs
        BY DEF Placed
      <3> HIDE DEF s
      <3> QED
        BY <2>3, <2>7, <3>1, <3>2, <3>3, <3>4, <3>5, <3>6 DEF Receiver
    <2>11. Onward(r, e)
      BY <1>1, <2>2, <2>3, <2>7 DEF Onward
    <2>12. \A n \in w.out : Tells(n, r, e)
      BY <1>1, <2>2, <2>7 DEF Tells, Sending, Writable
    <2> HIDE DEF v
    <2>13. Good(v, e)
      BY <2>8, <2>9, <2>10, <2>11, <2>12 DEF Good, Streams
    <2>14. w1 \in Worlds
      BY <2>8, SendTyped
    <2> HIDE DEF w1
    <2> DEFINE q == [w1.s EXCEPT !.connect_event = TRUE]
    <2>15. w2 = [w1 EXCEPT !.s = q]
      OBVIOUS
    <2>16. w1.s \in Socket
      BY <2>14 DEF Worlds
    <2>17. q \in Socket /\ Alike(w1.s, q)
      <3>1. q \in Socket BY <2>16 DEF Socket
      <3>2. Alike(w1.s, q) BY <2>16, Zenon DEF Socket, Alike, Fits
      <3> QED BY <3>1, <3>2
    <2> HIDE DEF q
    <2>18. w2 \in Worlds /\ w2.s = q /\ w2.out = w1.out
      BY <2>14, <2>15, <2>17, Replaced
    <2> HIDE DEF w2
    <2>19. w1.s.state # "FREED"
      <3>1. In(w2, c, k, sent)
        BY <2>1, SynSentKeeps
      <3>2. w2.s.state # "FREED"
        BY <3>1 DEF In, NearlyIn, Sound, Closes
      <3> QED BY <2>17, <2>18, <3>2 DEF Alike
    <2>20. Good(w1, e)
      <3>1. Len(v.s.rx_buffer) <= WinSize - 1
        <4>1. Len(v.s.rx_buffer) = 0 BY <2>5, <2>7, <2>8
        <4> QED BY <4>1, Constants
      <3> QED BY <2>13, <2>14, <2>19, <3>1, SendAckStream DEF w1
    <2>21. Good(w2, e)
      BY <2>17, <2>18, <2>20, GoodSend
    <2> QED
      BY <2>1, <2>21
  <1> QED
    BY <1>2, <1>3

(* An ACK in ESTABLISHED or CLOSE_WAIT.                                    *)
LEMMA AckedGood ==
  ASSUME NEW w, NEW c, NEW k \in Nat, k > 0, NEW sent, In(w, c, k, sent), NEW m \in Segment,
         NEW e, Placed(e), e.written = c.written, Good(w, e), Heard(m, e), w.s.state \in Writable
  PROVE  Good(Acked(w, m), e)
  <1>1. CASE "ACK" \in m.flags
    <2>1. Acked(w, m) = handle_ack(w, m.ack) /\ m.ack \in Num
      BY <1>1 DEF Acked, Segment
    <2>2. e.before \in Sending
      BY DEF Good, Onward, Sending
    <2>3. e.state # "FREED" => \E a \in 0 .. e.received : m.ack = Add(e.own, a)
      BY <1>1, <2>2 DEF Heard
    <2> QED BY <2>1, <2>3, HandleAckGood
  <1>2. CASE "ACK" \notin m.flags
    BY <1>2 DEF Acked
  <1> QED
    BY <1>1, <1>2

(* ESTABLISHED.                                                            *)
LEMMA EstablishedGood ==
  ASSUME NEW w, NEW c, NEW k \in Nat, k > 0, NEW sent, In(w, c, k, sent), NEW m \in Segment,
         NEW e, Placed(e), e.written = c.written, Good(w, e), Heard(m, e),
         w.s.state = "ESTABLISHED"
  PROVE  Good(in_ESTABLISHED(w, m), e)
  <1> DEFINE w1 == Acked(w, m)
             w2 == IF m.data # <<>> THEN handle_data(w1, m.data, m.seq) ELSE w1
             v == [w2 EXCEPT !.s.rx_win_low = Add(@, 1)]
             w3 == send_ack(v)
             w4 == [w3 EXCEPT !.s.state = "CLOSE_WAIT", !.s.rx_event = TRUE]
  <1>1. in_ESTABLISHED(w, m) = w2 \/ (in_ESTABLISHED(w, m) = w4 /\ "FIN" \in m.flags)
    BY DEF in_ESTABLISHED
  <1>2. In(w1, c, k, sent) /\ w1.s.state = "ESTABLISHED"
    BY AckedKeeps DEF Writable
  <1>3. Good(w1, e)
    BY AckedGood DEF Writable
  <1> HIDE DEF w1
  <1>4. In(w2, c, k, sent) /\ w2.s.state = "ESTABLISHED" /\ Good(w2, e)
    <2>1. CASE m.data # <<>>
      <3>1. m.seq \in Num /\ m.data \in Seq(Int)
        BY DEF Segment
      <3>2. In(w2, c, k, sent) /\ w2.s.state = "ESTABLISHED"
        BY <1>2, <2>1, <3>1, HandleData
      <3>3. Good(w2, e)
        BY <1>2, <1>3, <2>1, HandleDataGood
      <3> QED BY <3>2, <3>3
    <2>2. CASE m.data = <<>>
      BY <1>2, <1>3, <2>2
    <2> QED BY <2>1, <2>2
  <1> HIDE DEF w2
  <1>5. ASSUME "FIN" \in m.flags PROVE Good(w4, e)
    <2> DEFINE s == w2.s
               s1 == [s EXCEPT !.rx_win_low = Add(s.rx_win_low, 1)]
               r == w3.s
               q == [r EXCEPT !.state = "CLOSE_WAIT", !.rx_event = TRUE]
               n == tcp_send(v.remote, {"ACK"}, v.s.tx_win_low, v.s.rx_win_low, <<>>)
    <2>1. w2 \in Worlds /\ s \in Socket /\ s.state = "ESTABLISHED" /\ NearlyIn(w2, c, k)
      BY <1>4 DEF Worlds, In, NearlyIn
    <2>2. e.state \notin Sending /\ e.state # "NONE"
      <3>1. Receiver(s, e)
        BY <1>4, <2>1 DEF Good, Streams
      <3> QED BY <1>5, <2>1, <3>1 DEF Heard, Receiver, Live, Writable
    <2>3. v = [w2 EXCEPT !.s = s1]
      OBVIOUS
    <2>4. /\ s1 \in Socket /\ s1.state = "ESTABLISHED" /\ s1.rx_buffer = s.rx_buffer
          /\ s1.tx_buffer = s.tx_buffer /\ s1.tx_win_low = s.tx_win_low
      <3>1. Add(s.rx_win_low, 1) \in Num
        <4>1. s.rx_win_low \in Int
          BY <2>1, Constants DEF Socket, Num
        <4> QED BY <4>1, Numbers
      <3> QED BY <2>1, <3>1 DEF Socket
    <2> HIDE DEF s1
    <2>5. v \in Worlds /\ v.s = s1 /\ v.out = w2.out
      <3> HIDE DEF s
      <3> QED BY <2>1, <2>3, <2>4, Replaced
    <2>6. NearlyIn(v, c, k)
      <3> HIDE DEF s
      <3> QED BY <2>1, LowMoves
    <2> HIDE DEF v
    <2>7. w3 \in Worlds /\ r \in Socket /\ r.state # "FREED"
      <3>1. In(w3, c, k, sent)
        BY <2>6, SendAckKeeps
      <3> HIDE DEF w3
      <3> QED BY <3>1 DEF In, NearlyIn, Worlds, Sound, Closes
    <2>8. Alike(v.s, r) /\ \A p \in w3.out : p \in v.out \/ p = n
      <3>1. w3 = tcp_socket_send(v, {"ACK"}, v.s.tx_win_low, <<>>)
        BY <2>4, <2>5 DEF send_ack
      <3>2. Len(v.s.rx_buffer) <= WinSize - 1
        BY <2>6 DEF NearlyIn, Sound, Transmits
      <3>3. v.s.tx_win_low \in Num /\ <<>> \in Seq(Int)
        BY <2>4, <2>5 DEF Socket
      <3> HIDE DEF w3
      <3> QED BY <2>5, <2>7, <3>1, <3>2, <3>3, SendStream
    <2> HIDE DEF w3
    <2>9. w4 = [w3 EXCEPT !.s = q]
      OBVIOUS
    <2>10. /\ q \in Socket /\ q.state = "CLOSE_WAIT" /\ q.rx_buffer = r.rx_buffer
           /\ q.tx_buffer = r.tx_buffer /\ q.tx_win_low = r.tx_win_low
      BY <2>7 DEF Socket, Open
    <2> HIDE DEF q, n
    <2>11. w4 \in Worlds /\ w4.s = q /\ w4.out = w3.out
      <3> HIDE DEF r, w4
      <3> QED BY <2>7, <2>9, <2>10, Replaced
    <2>12. /\ q.rx_buffer = s.rx_buffer /\ q.tx_buffer = s.tx_buffer /\ q.tx_win_low = s.tx_win_low
      BY <2>4, <2>5, <2>8, <2>10 DEF Alike
    <2>13. Sender(s, e) /\ Receiver(s, e) /\ Onward(s, e) /\ \A p \in w2.out : Tells(p, s, e)
      BY <1>4, <2>1 DEF Good, Streams
    <2> HIDE DEF s, r, w4
    <2>14. Sender(q, e)
      BY <2>1, <2>10, <2>12, <2>13 DEF Sender, Writable, Sending
    <2>15. Receiver(q, e)
      BY <2>1, <2>2, <2>10, <2>12, <2>13 DEF Receiver
    <2>16. Onward(q, e)
      BY <2>1, <2>10, <2>12, <2>13 DEF Onward, Sending, Writable
    <2>17. ASSUME NEW p \in w4.out PROVE Tells(p, q, e)
      <3>1. CASE p = n
        <4>1. p.flags = {"ACK"} /\ p.data = <<>>
          BY <3>1 DEF n, tcp_send
        <4> QED BY <2>2, <2>10, <4>1 DEF Tells
      <3>2. CASE p \in w2.out
        BY <2>1, <2>2, <2>10, <2>12, <2>13, <3>2 DEF Tells, Sending, Writable
      <3> QED BY <2>5, <2>8, <2>11, <3>1, <3>2
    <2> QED
      BY <2>11, <2>14, <2>15, <2>16, <2>17 DEF Good, Streams
  <1> QED
    BY <1>1, <1>4, <1>5
(* CLOSE_WAIT.                                                             *)
LEMMA CloseWaitGood ==
  ASSUME NEW w, NEW c, NEW k \in Nat, k > 0, NEW sent, In(w, c, k, sent), NEW m \in Segment,
         NEW e, Placed(e), e.written = c.written, Good(w, e), Heard(m, e), w.s.state = "CLOSE_WAIT"
  PROVE  Good(in_CLOSE_WAIT(w, m), e)
  <1>1. In(Acked(w, m), c, k, sent) /\ Good(Acked(w, m), e)
    BY AckedKeeps, AckedGood DEF Writable
  <1>2. NearlyIn(Acked(w, m), c, k)
    BY <1>1 DEF In
  <1>3. Good(send_ack(Acked(w, m)), e)
    BY <1>1, <1>2, SendAckGood
  <1> QED
    BY <1>1, <1>3 DEF in_CLOSE_WAIT

(* LAST_ACK.                                                               *)
LEMMA LastAckGood ==
  ASSUME NEW w, NEW c, NEW k \in Nat, k > 0, NEW sent, In(w, c, k, sent), NEW m \in Segment,
         NEW e, Placed(e), Good(w, e), w.s.state = "LAST_ACK"
  PROVE  Good(in_LAST_ACK(w, m), e)
  <1> DEFINE q == tcp_remote_close(w.s)
             a == remove_socket_from_list(q)
             r == dec_socket_ref(a)
             v == [w EXCEPT !.s = r]
  <1>1. in_LAST_ACK(w, m) = w \/ in_LAST_ACK(w, m) = v
    BY DEF in_LAST_ACK
  <1>2. CASE in_LAST_ACK(w, m) = w
    BY <1>2
  <1>3. CASE in_LAST_ACK(w, m) = v
    <2>1. w \in Worlds /\ Sound(w.s, c, k) /\ w.s.state # "FREED"
      BY DEF In, NearlyIn
    <2>2. q \in Socket /\ q.state = "CLOSED" /\ q.rx_buffer = w.s.rx_buffer
      <3>1. Sound(q, c, k) /\ q.state = "CLOSED" /\ q.rx_buffer = w.s.rx_buffer
        BY <2>1, RemoteClose
      <3> QED BY <3>1 DEF Sound, Balanced
    <2> HIDE DEF q
    <2>3. a \in Socket /\ Alike(q, a)
      <3>1. a \in Socket
        BY <2>2 DEF Socket, remove_socket_from_list
      <3> QED BY <2>2, <3>1, TimersAlike
    <2> HIDE DEF a
    <2>4. r.state # "FREED" => Alike(a, r)
      BY <2>3, TimersAlike
    <2>5. v \in Worlds
      <3>1. In(in_LAST_ACK(w, m), c, k, sent)
        BY LastAckKeeps
      <3> QED BY <1>3, <3>1 DEF In, NearlyIn
    <2> HIDE DEF r
    <2>6. v.s = r /\ v.out = w.out
      BY <2>1 DEF Worlds
    <2> HIDE DEF v
    <2>7. v.s.state \in {"FREED", "CLOSED"} /\ (v.s.state # "FREED" => v.s.rx_buffer = w.s.rx_buffer)
      BY <2>2, <2>3, <2>4, <2>6 DEF Alike
    <2>8. v.s.state \notin Sending \cup {"NONE"} /\ v.s.state \notin Live
      BY <2>7 DEF Sending, Writable, Live, Shut
    <2>9. Good(v, e)
      BY <2>1, <2>5, <2>6, <2>7, <2>8, MovesOn
    <2> QED
      BY <1>3, <2>9
  <1> QED
    BY <1>1, <1>2, <1>3

(* TimeWait, from any state after the close.                               *)
LEMMA TimeWaitGood ==
  ASSUME NEW w, NEW e, Placed(e), Good(w, e), w.s.state \in Shut
  PROVE  Good(TimeWait(w), e)
  <1> DEFINE s == w.s
             a == [s EXCEPT !.state = "TIME_WAIT"]
             r == tcp_timer_set(a, "time_wait")
             v == [w EXCEPT !.s = r]
  <1>1. TimeWait(w) = v
    BY DEF TimeWait
  <1>2. w \in Worlds /\ s \in Socket /\ s.state \in Shut
    BY DEF Good, Worlds
  <1>3. /\ a \in Socket /\ a.state = "TIME_WAIT" /\ a.rx_buffer = s.rx_buffer
        /\ a.rx_win_low = s.rx_win_low
    BY <1>2 DEF Socket
  <1> HIDE DEF a
  <1>4. Alike(a, r)
    BY <1>3, TimersAlike
  <1>5. r \in Socket
    <2>1. a.ref \in Int /\ a.timers \cup {"time_wait"} \in SUBSET Timers
          /\ [a EXCEPT !.timers = a.timers \cup {"time_wait"}].ref = a.ref
      BY <1>3 DEF Socket, Timers
    <2>2. [[a EXCEPT !.timers = a.timers \cup {"time_wait"}] EXCEPT !.ref = a.ref + 1] \in Socket
      <3>1. WithTimers(a, a.timers \cup {"time_wait"}, a.ref + 1) \in Socket
        BY <1>3, <2>1, OtherTimers
      <3> QED BY <3>1, Zenon DEF WithTimers
    <2> QED BY <1>3, <2>1, <2>2 DEF tcp_timer_set, inc_socket_ref
  <1> HIDE DEF r
  <1>6. v \in Worlds /\ v.s = r /\ v.out = w.out
    <2> HIDE DEF s
    <2> QED BY <1>2, <1>5, Replaced
  <1>7. "TIME_WAIT" \notin Sending \cup {"NONE"} /\ s.state \in Live /\ s.state # "FREED"
    BY <1>2 DEF Sending, Writable, Live, Shut
  <1> HIDE DEF v
  <1>8. v.s.state = "TIME_WAIT" /\ v.s.rx_buffer = s.rx_buffer /\ v.s.rx_win_low = s.rx_win_low
    BY <1>3, <1>4, <1>6 DEF Alike
  <1> QED
    BY <1>1, <1>6, <1>7, <1>8, MovesOn

(* A FIN moves the window up, when the peer has closed.                    *)
LEMMA LowGood ==
  ASSUME NEW w, NEW e, Placed(e), Good(w, e), w.s.state \in Shut, e.state \notin Sending
  PROVE  LET v == [w EXCEPT !.s.rx_win_low = Add(@, 1)] IN Good(v, e) /\ v.s.state = w.s.state
  <1> DEFINE s == w.s
             r == [s EXCEPT !.rx_win_low = Add(s.rx_win_low, 1)]
             v == [w EXCEPT !.s = r]
  <1>1. w \in Worlds /\ s \in Socket /\ s.state \in Shut
    BY DEF Good, Worlds
  <1>2. [w EXCEPT !.s.rx_win_low = Add(@, 1)] = v
    OBVIOUS
  <1>3. Add(s.rx_win_low, 1) \in Num
    <2>1. s.rx_win_low \in Int
      BY <1>1, Constants DEF Socket, Num
    <2> QED BY <2>1, Numbers
  <1>4. r \in Socket /\ r.state = s.state /\ r.rx_buffer = s.rx_buffer
    BY <1>1, <1>3 DEF Socket
  <1> HIDE DEF r
  <1>5. v \in Worlds /\ v.s = r /\ v.out = w.out
    <2> HIDE DEF s
    <2> QED BY <1>1, <1>4, Replaced
  <1>6. s.state \notin Sending \cup {"NONE"} /\ s.state \in Live /\ s.state # "FREED"
    BY <1>1 DEF Sending, Writable, Live, Shut
  <1> HIDE DEF v
  <1>7. Good(v, e) /\ v.s.state = s.state
    BY <1>4, <1>5, <1>6, MovesOn
  <1> QED
    BY <1>2, <1>7

(* From one state after the close to another.                              *)
LEMMA ShutGood ==
  ASSUME NEW w, NEW e, Placed(e), Good(w, e), w.s.state \in Shut, NEW state \in Shut
  PROVE  Good([w EXCEPT !.s.state = state], e)
  <1> DEFINE s == w.s
             r == [s EXCEPT !.state = state]
             v == [w EXCEPT !.s = r]
  <1>1. w \in Worlds /\ s \in Socket /\ s.state \in Shut
    BY DEF Good, Worlds
  <1>2. [w EXCEPT !.s.state = state] = v
    OBVIOUS
  <1>3. r \in Socket /\ r.state = state /\ r.rx_buffer = s.rx_buffer /\ r.rx_win_low = s.rx_win_low
    BY <1>1 DEF Socket, Shut
  <1> HIDE DEF r
  <1>4. v \in Worlds /\ v.s = r /\ v.out = w.out
    <2> HIDE DEF s
    <2> QED BY <1>1, <1>3, Replaced
  <1>5. state \notin Sending \cup {"NONE"} /\ s.state \in Live /\ s.state # "FREED"
    BY <1>1 DEF Sending, Writable, Live, Shut
  <1> HIDE DEF v
  <1>6. Good(v, e)
    BY <1>3, <1>4, <1>5, MovesOn
  <1> QED
    BY <1>2, <1>6

(* FIN_WAIT_2.                                                             *)
LEMMA FinWait2Good ==
  ASSUME NEW w, NEW c, NEW k \in Nat, k > 0, NEW sent, In(w, c, k, sent), NEW m \in Segment,
         NEW e, Placed(e), Good(w, e), Heard(m, e), w.s.state = "FIN_WAIT_2"
  PROVE  Good(in_FIN_WAIT_2(w, m), e)
  <1> DEFINE v == [w EXCEPT !.s.rx_win_low = Add(@, 1)]
             w1 == send_ack(v)
  <1>1. CASE "FIN" \in m.flags
    <2>1. in_FIN_WAIT_2(w, m) = TimeWait(w1)
      BY <1>1 DEF in_FIN_WAIT_2
    <2>2. NearlyIn(w, c, k) /\ w.s.state \in Shut /\ e.state \notin Sending
      BY <1>1 DEF In, Shut, Heard
    <2>3. NearlyIn(v, c, k) /\ v.s.state = "FIN_WAIT_2"
      BY <2>2, LowMoves
    <2>4. Good(v, e)
      BY <2>2, LowGood
    <2> HIDE DEF v
    <2>5. Good(w1, e) /\ Alike(v.s, w1.s)
      BY <2>3, <2>4, SendAckGood
    <2> HIDE DEF w1
    <2>6. w1.s.state \in Shut
      BY <2>3, <2>5 DEF Alike, Shut
    <2> QED
      BY <2>1, <2>5, <2>6, TimeWaitGood
  <1>2. CASE "FIN" \notin m.flags
    BY <1>2 DEF in_FIN_WAIT_2
  <1> QED
    BY <1>1, <1>2

(* FIN_WAIT_1.                                                             *)
LEMMA FinWait1Good ==
  ASSUME NEW w, NEW c, NEW k \in Nat, k > 0, NEW sent, In(w, c, k, sent), NEW m \in Segment,
         NEW e, Placed(e), Good(w, e), Heard(m, e), w.s.state = "FIN_WAIT_1"
  PROVE  Good(in_FIN_WAIT_1(w, m), e)
  <1> DEFINE w1 == [w EXCEPT !.s.state = "FIN_WAIT_2"]
             v == [w EXCEPT !.s.rx_win_low = Add(@, 1)]
             w2 == send_ack(v)
             w3 == [w2 EXCEPT !.s.state = "CLOSING"]
  <1>1. NearlyIn(w, c, k) /\ w.s.state \in Shut /\ "FIN_WAIT_2" \in Shut /\ "CLOSING" \in Shut
    BY DEF In, Shut
  <1>2. CASE "ACK" \in m.flags
    <2>1. in_FIN_WAIT_1(w, m) = in_FIN_WAIT_2(w1, m)
      BY <1>2 DEF in_FIN_WAIT_1
    <2>2. In(w1, c, k, sent) /\ w1.s.state = "FIN_WAIT_2"
      BY <1>1, ShutWorld
    <2>3. Good(w1, e)
      BY <1>1, ShutGood
    <2> HIDE DEF w1
    <2>4. Good(in_FIN_WAIT_2(w1, m), e)
      BY <2>2, <2>3, FinWait2Good
    <2> QED BY <2>1, <2>4
  <1>3. CASE "ACK" \notin m.flags /\ "FIN" \in m.flags
    <2>1. in_FIN_WAIT_1(w, m) = w3
      BY <1>3 DEF in_FIN_WAIT_1
    <2>2. e.state \notin Sending
      BY <1>3 DEF Heard
    <2>3. NearlyIn(v, c, k) /\ v.s.state = "FIN_WAIT_1"
      BY <1>1, LowMoves
    <2>4. Good(v, e)
      BY <1>1, <2>2, LowGood
    <2> HIDE DEF v
    <2>5. Good(w2, e) /\ Alike(v.s, w2.s)
      BY <2>3, <2>4, SendAckGood
    <2> HIDE DEF w2
    <2>6. w2.s.state \in Shut
      BY <2>3, <2>5 DEF Alike, Shut
    <2>7. Good(w3, e)
      BY <1>1, <2>5, <2>6, ShutGood
    <2> QED BY <2>1, <2>7
  <1>4. CASE "ACK" \notin m.flags /\ "FIN" \notin m.flags
    BY <1>4 DEF in_FIN_WAIT_1
  <1> QED
    BY <1>2, <1>3, <1>4

(* tcp_input under the lock keeps both streams in order.                   *)
LEMMA HandleGood ==
  ASSUME NEW w, NEW c, NEW k \in Nat, k > 0, NEW sent, In(w, c, k, sent), NEW m \in Segment,
         NEW e, Placed(e), e.written = c.written, Good(w, e), Heard(m, e)
  PROVE  Good(Handle(w, m), e)
  <1> DEFINE v == [w EXCEPT !.s = tcp_remote_close(w.s)]
  <1>1. Good(v, e)
    BY RemoteCloseGood
  <1> HIDE DEF v
  <1>2. CASE "RST" \in m.flags
    <2>1. Handle(w, m) = w \/ Handle(w, m) = v
      BY <1>2 DEF Handle, v
    <2> QED BY <1>1, <2>1
  <1>3. CASE "RST" \notin m.flags
    <2>1. CASE w.s.state = "SYN_RCVD"
      <3>1. Handle(w, m) = in_SYN_RCVD(w, m) BY <1>3, <2>1 DEF Handle
      <3> QED BY <2>1, <3>1, SynRcvdGood
    <2>2. CASE w.s.state = "SYN_SENT"
      <3>1. Handle(w, m) = in_SYN_SENT(w, m) BY <1>3, <2>2 DEF Handle
      <3> QED BY <2>2, <3>1, SynSentGood
    <2>3. CASE w.s.state = "ESTABLISHED"
      <3>1. Handle(w, m) = in_ESTABLISHED(w, m) BY <1>3, <2>3 DEF Handle
      <3> QED BY <2>3, <3>1, EstablishedGood
    <2>4. CASE w.s.state = "CLOSE_WAIT"
      <3>1. Handle(w, m) = in_CLOSE_WAIT(w, m) BY <1>3, <2>4 DEF Handle
      <3> QED BY <2>4, <3>1, CloseWaitGood
    <2>5. CASE w.s.state = "LAST_ACK"
      <3>1. Handle(w, m) = in_LAST_ACK(w, m) BY <1>3, <2>5 DEF Handle
      <3> QED BY <2>5, <3>1, LastAckGood
    <2>6. CASE w.s.state = "FIN_WAIT_1"
      <3>1. Handle(w, m) = in_FIN_WAIT_1(w, m) BY <1>3, <2>6 DEF Handle
      <3> QED BY <2>6, <3>1, FinWait1Good
    <2>7. CASE w.s.state = "FIN_WAIT_2"
      <3>1. Handle(w, m) = in_FIN_WAIT_2(w, m) BY <1>3, <2>7 DEF Handle
      <3> QED BY <2>7, <3>1, FinWait2Good
    <2>8. CASE w.s.state = "CLOSING"
      <3>1. Handle(w, m) = in_CLOSING(w, m) BY <1>3, <2>8 DEF Handle
      <3>2. Good(TimeWait(w), e)
        BY <2>8, TimeWaitGood DEF Shut
      <3> QED BY <3>1, <3>2 DEF in_CLOSING
    <2>9. CASE w.s.state = "TIME_WAIT"
      <3>1. Handle(w, m) = w BY <1>3, <2>9 DEF Handle
      <3> QED BY <3>1
    <2>10. CASE w.s.state \notin Shut \cup {"SYN_RCVD", "SYN_SENT", "ESTABLISHED", "CLOSE_WAIT", "TIME_WAIT"}
      <3>1. Handle(w, m) = send_reset(w) BY <1>3, <2>10 DEF Handle, Shut
      <3> QED BY <3>1, SendResetGood
    <2> QED
      BY <2>1, <2>2, <2>3, <2>4, <2>5, <2>6, <2>7, <2>8, <2>9, <2>10 DEF Shut
  <1> QED
    BY <1>2, <1>3
-----------------------------------------------------------------------------
(* A world whose segments all go to the other host. *)
Aimed(w, h) ==
  /\ w = [s |-> w.s, remote |-> w.remote, out |-> w.out, fault |-> w.fault]
  /\ w.remote = h /\ \A m \in w.out : m.to = h

(* Another socket, or a failed assertion, sends nothing.                   *)
LEMMA AimedSocket ==
  ASSUME NEW w, NEW h, Aimed(w, h), NEW z
  PROVE  Aimed([w EXCEPT !.s = z], h) /\ Aimed([w EXCEPT !.fault = z], h)
  <1> DEFINE r == [s |-> w.s, remote |-> w.remote, out |-> w.out, fault |-> w.fault]
  <1>1. w = r /\ w.remote = h /\ \A m \in w.out : m.to = h
    BY DEF Aimed
  <1>2. [w EXCEPT !.s = z] = [s |-> z, remote |-> w.remote, out |-> w.out, fault |-> w.fault]
    <2>1. [r EXCEPT !.s = z] = [s |-> z, remote |-> w.remote, out |-> w.out, fault |-> w.fault]
      OBVIOUS
    <2> QED BY <1>1, <2>1, Zenon
  <1>3. [w EXCEPT !.fault = z] = [s |-> w.s, remote |-> w.remote, out |-> w.out, fault |-> z]
    <2>1. [r EXCEPT !.fault = z] = [s |-> w.s, remote |-> w.remote, out |-> w.out, fault |-> z]
      OBVIOUS
    <2> QED BY <1>1, <2>1, Zenon
  <1> QED
    BY <1>1, <1>2, <1>3 DEF Aimed

(* Segments for the other host.                                            *)
LEMMA AimedOut ==
  ASSUME NEW w, NEW h, Aimed(w, h), NEW z, NEW M, \A m \in M : m.to = h
  PROVE  /\ Aimed([w EXCEPT !.out = w.out \cup M], h)
         /\ Aimed([w EXCEPT !.s = z, !.out = w.out \cup M], h)
  <1> DEFINE r == [s |-> w.s, remote |-> w.remote, out |-> w.out, fault |-> w.fault]
  <1>1. w = r /\ w.remote = h /\ \A m \in w.out \cup M : m.to = h
    BY DEF Aimed
  <1>2. [w EXCEPT !.out = w.out \cup M]
          = [s |-> w.s, remote |-> w.remote, out |-> w.out \cup M, fault |-> w.fault]
    <2>1. [r EXCEPT !.out = w.out \cup M]
            = [s |-> w.s, remote |-> w.remote, out |-> w.out \cup M, fault |-> w.fault]
      OBVIOUS
    <2> QED BY <1>1, <2>1, Zenon
  <1>3. [w EXCEPT !.s = z, !.out = w.out \cup M]
          = [s |-> z, remote |-> w.remote, out |-> w.out \cup M, fault |-> w.fault]
    <2> DEFINE U == w.out \cup M
    <2> HIDE DEF U
    <2>1. [r EXCEPT !.s = z, !.out = U]
            = [s |-> z, remote |-> w.remote, out |-> U, fault |-> w.fault]
      <3> DEFINE q == [s |-> z, remote |-> w.remote, out |-> w.out, fault |-> w.fault]
      <3>1. [r EXCEPT !.s = z] = q
        OBVIOUS
      <3>2. [q EXCEPT !.out = U] = [s |-> z, remote |-> w.remote, out |-> U, fault |-> w.fault]
        OBVIOUS
      <3>3. [r EXCEPT !.s = z, !.out = U] = [[r EXCEPT !.s = z] EXCEPT !.out = U]
        <4> HIDE DEF r
        <4> QED OBVIOUS
      <3> HIDE DEF q, r
      <3> QED BY <3>1, <3>2, <3>3
    <2> USE DEF U
    <2> QED BY <1>1, <2>1, Zenon
  <1> QED
    BY <1>1, <1>2, <1>3 DEF Aimed

(* tcp_socket_send, send_ack, send_reset and TimeWait.                     *)
LEMMA AimedSend ==
  ASSUME NEW w, NEW h, Aimed(w, h)
  PROVE  /\ \A flags, seq, data : Aimed(tcp_socket_send(w, flags, seq, data), h)
         /\ Aimed(send_ack(w), h) /\ Aimed(send_reset(w), h) /\ Aimed(TimeWait(w), h)
  <1>1. w.remote = h
    BY DEF Aimed
  <1>2. ASSUME NEW flags, NEW seq, NEW data
        PROVE  Aimed(tcp_socket_send(w, flags, seq, data), h)
    <2> DEFINE t == [w.s EXCEPT !.rx_win_high = RxWinHigh(w.s)]
               z == IF "ACK" \in flags THEN tcp_timer_cancel(t, "ack") ELSE t
               n == tcp_send(w.remote, flags, seq, IF "ACK" \in flags THEN t.rx_win_low ELSE 0, data)
    <2>1. n.to = h
      BY <1>1 DEF tcp_send
    <2>2. tcp_socket_send(w, flags, seq, data) = [w EXCEPT !.s = z, !.out = w.out \cup {n}]
      BY Zenon DEF tcp_socket_send
    <2> HIDE DEF z, n
    <2>3. \A m \in {n} : m.to = h
      BY <2>1
    <2>4. Aimed([w EXCEPT !.s = z, !.out = w.out \cup {n}], h)
      BY <2>3, AimedOut
    <2> QED BY <2>2, <2>4, Zenon
  <1>3. Aimed(send_ack(w), h)
    BY <1>2, Zenon DEF send_ack
  <1>4. Aimed(send_reset(w), h)
    <2>1. \A m \in {Reset(w.remote)} : m.to = h
      BY <1>1 DEF Reset, tcp_send
    <2> QED BY <2>1, AimedOut DEF send_reset
  <1>5. Aimed(TimeWait(w), h)
    BY AimedSocket DEF TimeWait
  <1> QED
    BY <1>2, <1>3, <1>4, <1>5

(* What tcp_input does sends only to the peer.                             *)
LEMMA AimedHandle ==
  ASSUME NEW w, NEW h, Aimed(w, h), NEW m
  PROVE  Aimed(Handle(w, m), h)
  <1>1. ASSUME NEW v, Aimed(v, h), NEW data, NEW sequence
        PROVE  Aimed(InWindow(v, data, sequence), h)
    BY <1>1, AimedSocket, AimedSend, Zenon DEF InWindow
  <1>2. ASSUME NEW v, Aimed(v, h), NEW data, NEW sequence
        PROVE  Aimed(handle_data(v, data, sequence), h)
    BY <1>1, <1>2, AimedSend, Zenon DEF handle_data
  <1>3. ASSUME NEW v, Aimed(v, h) PROVE Aimed(Acked(v, m), h)
    <2>1. Aimed(handle_ack(v, m.ack), h)
      BY <1>3, AimedSocket, Zenon DEF handle_ack
    <2> QED BY <1>3, <2>1, Zenon DEF Acked
  <1>4. Aimed(in_SYN_RCVD(w, m), h)
    <2> DEFINE v == [w EXCEPT !.s.tx_highest_seq = w.s.tx_win_low, !.s.state = "ESTABLISHED"]
               z == [[w.s EXCEPT !.tx_highest_seq = w.s.tx_win_low] EXCEPT !.state = "ESTABLISHED"]
    <2>1. Aimed(v, h)
      <3>1. Aimed([w EXCEPT !.s = z], h)
        BY AimedSocket
      <3> QED BY <3>1 DEF Aimed
    <2> HIDE DEF v
    <2>2. in_SYN_RCVD(w, m) = send_reset(w) \/ in_SYN_RCVD(w, m) = v
      BY Zenon DEF in_SYN_RCVD, v
    <2> QED BY <2>1, <2>2, AimedSend
  <1>5. Aimed(in_SYN_SENT(w, m), h)
    BY AimedSocket, AimedSend, Zenon DEF in_SYN_SENT
  <1>6. Aimed(in_ESTABLISHED(w, m), h)
    BY <1>2, <1>3, AimedSocket, AimedSend, Zenon DEF in_ESTABLISHED
  <1>7. Aimed(in_CLOSE_WAIT(w, m), h)
    BY <1>3, AimedSend, Zenon DEF in_CLOSE_WAIT
  <1>8. Aimed(in_LAST_ACK(w, m), h)
    BY AimedSocket, Zenon DEF in_LAST_ACK
  <1>9. ASSUME NEW v, Aimed(v, h) PROVE Aimed(in_FIN_WAIT_2(v, m), h)
    BY <1>9, AimedSocket, AimedSend, Zenon DEF in_FIN_WAIT_2
  <1>10. Aimed(in_FIN_WAIT_1(w, m), h)
    BY <1>9, AimedSocket, AimedSend, Zenon DEF in_FIN_WAIT_1
  <1>11. Aimed(in_CLOSING(w, m), h)
    BY AimedSend, Zenon DEF in_CLOSING
  <1>12. Aimed([w EXCEPT !.s = tcp_remote_close(w.s)], h) /\ Aimed(send_reset(w), h)
    BY AimedSocket, AimedSend
  <1> QED
    BY <1>4, <1>5, <1>6, <1>7, <1>8, <1>9, <1>10, <1>11, <1>12 DEF Handle
(* A socket whose last reference goes is not read any more.                *)
LEMMA DropGood ==
  ASSUME NEW w, NEW e, Placed(e), Good(w, e)
  PROVE  LET r == dec_socket_ref(w.s)
         IN  Streams(r, e) /\ Onward(r, e) /\ \A m \in w.out : Tells(m, r, e)
  <1> DEFINE r == dec_socket_ref(w.s)
  <1>1. w.s \in Socket
    BY DEF Good, Worlds
  <1>2. CASE r.state = "FREED"
    <2>1. r \in Socket
      <3>1. r = Freed \/ r = [w.s EXCEPT !.ref = w.s.ref - 1]
        BY DEF dec_socket_ref
      <3>2. w.s.ref - 1 \in Int
        BY <1>1 DEF Socket
      <3>3. [w.s EXCEPT !.ref = w.s.ref - 1] \in Socket
        BY <1>1, <3>2 DEF Socket
      <3> HIDE DEF r
      <3> QED BY <3>1, <3>3, Records
    <2> HIDE DEF r
    <2>2. Streams(r, e) /\ Onward(r, e)
      BY <1>2 DEF Streams, Onward, Sending, Writable
    <2>3. ASSUME NEW m \in w.out PROVE Tells(m, r, e)
      <3>1. Tells(m, w.s, e) /\ e.got \in Seq(Int)
        BY DEF Good, Placed
      <3>2. w.s.rx_buffer \in Seq(Int) /\ r.rx_buffer \in Seq(Int)
        BY <1>1, <2>1 DEF Socket
      <3>3. r.state \notin Sending /\ r.state # "NONE"
        BY <1>2 DEF Sending, Writable
      <3> QED BY <1>2, <3>1, <3>2, <3>3, TellsMoves
    <2> QED BY <2>2, <2>3 DEF r
  <1>3. CASE r.state # "FREED"
    <2>1. Alike(w.s, r)
      BY <1>1, <1>3, TimersAlike
    <2> HIDE DEF r
    <2> QED BY <2>1, AlikeStreams DEF Good, r
  <1> QED
    BY <1>2, <1>3

(* tcp_retransmit sends again what is at the bottom of the buffer.         *)
LEMMA RetransmitGood ==
  ASSUME NEW w, NEW c, NEW d, NEW k \in Nat, k > 0, NEW sent, In(w, c, k, sent),
         Over(c, d, "retransmit"), NEW e, Placed(e), e.written = c.written, Good(w, e)
  PROVE  Good(handle_retransmit_timeout(w), e)
  <1> DEFINE s == w.s
             u == handle_retransmit_timeout(w)
  <1>1. w \in Worlds /\ s \in Socket /\ Sound(s, c, k)
    BY DEF In, NearlyIn, Worlds
  <1>2. u \in Worlds /\ u.s.state # "FREED"
    <2>1. In(u, d, k, sent)
      BY RetransmitTimeout
    <2> HIDE DEF u
    <2> QED BY <2>1 DEF In, NearlyIn, Sound, Closes
  <1>3. CASE ~(s.state \in Writable /\ Outstanding(s) # 0)
    BY <1>3 DEF handle_retransmit_timeout, Writable
  <1>4. CASE s.state \in Writable /\ Outstanding(s) # 0
    <2> DEFINE n == Len(s.tx_buffer)
               lo == e.written - n
               j == Least(MSS, Outstanding(s))
               data == SubSeq(s.tx_buffer, 1, j)
               v == tcp_socket_send(w, {"ACK"}, s.tx_win_low, data)
               r == tcp_timer_set(v.s, "retransmit")
    <2>1. u = [v EXCEPT !.s = r]
      BY <1>4 DEF handle_retransmit_timeout, tcp_retransmit, Writable
    <2>2. s.tx_win_low \in Num /\ s.tx_highest_seq \in Num /\ s.tx_buffer \in Seq(Int)
          /\ s.tx_buffer \in Seq(Int) /\ n \in Nat
      BY <1>1, LenProperties DEF Socket
    <2>3. Outstanding(s) \in Num /\ Outstanding(s) <= n /\ n <= e.written
          /\ Len(s.rx_buffer) <= WinSize - 1
      BY <1>1, <1>4, <2>2, Difference DEF Sound, Transmits, Outstanding
    <2>4. j \in Nat /\ j <= n
      <3>1. Outstanding(s) \in Nat
        BY <2>3 DEF Num
      <3>2. j <= Outstanding(s) /\ j \in {MSS, Outstanding(s)}
        BY <3>1, Constants DEF Least
      <3> QED BY <2>2, <2>3, <3>1, <3>2, Constants
    <2>5. lo \in Nat /\ lo + n = e.written /\ s.tx_win_low = Add(e.own, lo)
          /\ s.tx_buffer = Counting(lo, n)
      <3>1. Sender(s, e)
        BY <1>4 DEF Good, Streams, Writable
      <3>2. /\ lo \in Nat /\ s.tx_win_low = Add(e.own, lo) /\ s.tx_buffer = Counting(lo, n)
        BY <1>1, <1>4, <2>2, <2>3, <3>1, InBuffer
      <3>3. e.written \in Nat
        BY DEF Placed
      <3>4. lo + n = e.written
        <4> HIDE DEF n
        <4> QED BY <2>2, <3>3
      <3> QED BY <3>2, <3>4
    <2> HIDE DEF lo, n, j
    <2>6. data = Counting(lo, j) /\ data \in Seq(Int) /\ Len(data) = j
      <3>1. lo \in Int
        BY <2>5
      <3>2. SubSeq(Counting(lo, n), 1, j) = Counting(lo, j)
        BY <2>2, <2>4, <3>1, CountingPrefix
      <3>3. data = Counting(lo, j)
        BY <2>5, <3>2, Zenon
      <3> QED BY <2>4, <3>1, <3>3, CountingSeq
    <2> HIDE DEF data
    <2>7. v \in Worlds
      <3>1. {"ACK"} \in SUBSET {"SYN", "ACK", "FIN", "RST"}
        OBVIOUS
      <3> QED BY <1>1, <2>2, <2>6, <3>1, SendTyped
    <2>8. v.s \in Socket
      BY <2>7 DEF Worlds
    <2> DEFINE m == tcp_send(w.remote, {"ACK"}, s.tx_win_low, s.rx_win_low, data)
    <2>9. Alike(v.s, r)
      <3> HIDE DEF v
      <3> QED BY <2>8, TimersAlike
    <2>10. u.s = r /\ u.out = v.out
      <3> HIDE DEF v, r, u
      <3> QED BY <2>1, <2>7 DEF Worlds
    <2>11. v.s.state # "FREED"
      <3> HIDE DEF v, r, u
      <3> QED BY <1>2, <2>9, <2>10 DEF Alike
    <2>12. Alike(w.s, v.s) /\ \A q \in v.out : q \in w.out \/ q = m
      <3>1. {"ACK"} \in SUBSET {"SYN", "ACK", "FIN", "RST"} /\ "ACK" \in {"ACK"}
        OBVIOUS
      <3> QED BY <1>1, <2>2, <2>3, <2>6, <2>11, <3>1, SendStream
    <2>13. Tells(m, s, e)
      <3>1. s.state \in Live /\ Streams(s, e)
        BY <1>4 DEF Live, Good
      <3>2. lo \in 0 .. e.written /\ lo + Len(data) <= e.written
        BY <2>2, <2>4, <2>5, <2>6
      <3>3. \E i \in 0 .. e.written : /\ i + Len(data) <= e.written
                                      /\ s.tx_win_low = Add(e.own, i) /\ data = Counting(i, Len(data))
        BY <2>5, <2>6, <3>2
      <3> HIDE DEF s
      <3> QED
        BY <1>1, <3>1, <3>3, AckTells
    <2> HIDE DEF v, r, u, m
    <2>14. Alike(w.s, u.s)
      BY <2>9, <2>10, <2>12, Alike3
    <2>15. \A q \in u.out : q \in w.out \/ Tells(q, w.s, e)
      BY <2>10, <2>12, <2>13
    <2> QED
      BY <1>2, <2>14, <2>15, GoodSend DEF u
  <1> QED
    BY <1>3, <1>4

(* The end of TIME_WAIT.                                                   *)
LEMMA TimeWaitEndGood ==
  ASSUME NEW w, NEW c, NEW d, NEW k \in Nat, k > 0, NEW sent, In(w, c, k, sent),
         Over(c, d, "time_wait"), NEW e, Good(w, e)
  PROVE  Good(handle_time_wait_timeout(w), e)
  <1> DEFINE s == w.s
             u == handle_time_wait_timeout(w)
             p == remove_socket_from_list(s)
             r == dec_socket_ref(p)
  <1>1. w \in Worlds /\ s \in Socket
    BY DEF In, NearlyIn, Worlds
  <1>2. u \in Worlds /\ u.s.state # "FREED"
    <2>1. In(u, d, k, sent)
      BY TimeWaitTimeout
    <2> HIDE DEF u
    <2> QED BY <2>1 DEF In, NearlyIn, Sound, Closes
  <1>3. u = [w EXCEPT !.fault = "state == STATE_TIME_WAIT"] \/ u = [w EXCEPT !.s = r]
    BY DEF handle_time_wait_timeout
  <1>4. p \in Socket /\ Alike(s, p)
    <2>1. p \in Socket
      BY <1>1 DEF remove_socket_from_list, Socket
    <2> QED BY <1>1, <2>1, TimersAlike
  <1> HIDE DEF p
  <1>5. r.state # "FREED" => Alike(s, r)
    BY <1>4, TimersAlike, Alike3
  <1> HIDE DEF r, u
  <1>6. (u.s = w.s \/ u.s = r) /\ u.out = w.out
    BY <1>1, <1>3 DEF Worlds
  <1>7. Alike(w.s, u.s)
    BY <1>2, <1>5, <1>6 DEF Alike
  <1> QED
    BY <1>2, <1>6, <1>7, GoodSend DEF u

(* The callbacks send only to the peer.                                    *)
LEMMA AimedTimers ==
  ASSUME NEW w, NEW h, Aimed(w, h)
  PROVE  Aimed(handle_retransmit_timeout(w), h) /\ Aimed(handle_time_wait_timeout(w), h)
  <1>1. Aimed(tcp_retransmit(w), h)
    BY AimedSend DEF tcp_retransmit
  <1>2. Aimed(handle_retransmit_timeout(w), h)
    BY <1>1, AimedSocket, Zenon DEF handle_retransmit_timeout
  <1>3. Aimed(handle_time_wait_timeout(w), h)
    BY AimedSocket, Zenon DEF handle_time_wait_timeout
  <1> QED
    BY <1>2, <1>3
(* tcp_write_pending_data sends bytes of the buffer with their numbers.    *)
LEMMA WritePendingGood ==
  ASSUME NEW w, NEW c, NEW k \in Nat, k > 0, NEW sent, In(w, c, k, sent), NEW e, Placed(e),
         e.written = c.written, Good(w, e), w.s.state \in Writable
  PROVE  Good(tcp_write_pending_data(w), e)
  <1> DEFINE s == w.s
             n == Len(s.tx_buffer)
             lo == e.written - n
             first == Outstanding(s)
             pending == Diff(n, first)
             Chunk(offset) ==
               tcp_send(w.remote, {"ACK"}, Add(s.tx_highest_seq, offset), s.rx_win_low,
                        SubSeq(s.tx_buffer, first + offset + 1, first + Least(offset + MSS, pending)))
             chunks == {Chunk(i * MSS) : i \in 0 .. (pending - 1) \div MSS}
             a == [s EXCEPT !.rx_win_high = RxWinHigh(s)]
             p == [s EXCEPT !.rx_win_high = RxWinHigh(s),
                            !.tx_highest_seq = Add(s.tx_highest_seq, pending)]
             q == tcp_timer_cancel(p, "ack")
             r == tcp_timer_set(q, "retransmit")
             v == tcp_write_pending_data(w)
  <1>1. v = IF pending = 0 THEN w ELSE [w EXCEPT !.s = r, !.out = w.out \cup chunks]
    BY DEF tcp_write_pending_data
  <1>2. w \in Worlds /\ s \in Socket /\ Sound(s, c, k) /\ s.state \in Writable
    BY DEF In, NearlyIn, Worlds
  <1>3. v \in Worlds /\ v.s.state # "FREED"
    <2>1. In(v, c, k, sent)
      BY WritePendingKeeps
    <2> HIDE DEF v
    <2> QED BY <2>1 DEF In, NearlyIn, Sound, Closes
  <1>4. s.tx_highest_seq \in Num /\ s.tx_win_low \in Num /\ s.rx_win_low \in Num
    BY <1>2 DEF Socket
  <1>5. n \in Nat /\ n \in Num /\ s.tx_buffer \in Seq(Int)
    BY <1>2, TxFits DEF Sound
  <1>6. first <= n /\ n <= e.written /\ first \in Num /\ first \in Nat /\ Len(s.rx_buffer) <= WinSize - 1
    <2>1. first <= n /\ n <= e.written /\ Len(s.rx_buffer) <= WinSize - 1
      BY <1>2 DEF Sound, Transmits
    <2>2. first \in Num
      BY <1>4, Difference DEF Outstanding
    <2>3. first \in Nat
      BY <2>2 DEF Num
    <2> QED BY <2>1, <2>2, <2>3
  <1>7. pending = n - first /\ pending \in Nat
    <2>1. Diff(n, first) = IF n >= first THEN n - first ELSE n - first + Modulus
      <3> HIDE DEF n, first
      <3> QED BY <1>5, <1>6, Difference
    <2> HIDE DEF n, first
    <2> QED BY <1>5, <1>6, <2>1
  <1>8. lo \in Nat /\ lo + n = e.written /\ s.tx_win_low = Add(e.own, lo)
        /\ s.tx_buffer = Counting(lo, n) /\ e.own \in Num
    <2>1. Sender(s, e)
      BY <1>2 DEF Good, Streams, Writable
    <2>2. /\ lo \in Nat /\ s.tx_win_low = Add(e.own, lo) /\ s.tx_buffer = Counting(lo, n)
      BY <1>2, <1>5, <1>6, <2>1, InBuffer
    <2>3. e.written \in Nat /\ e.own \in Num
      BY DEF Placed
    <2>4. lo + n = e.written
      <3> HIDE DEF n
      <3> QED BY <1>5, <2>3
    <2> QED BY <2>2, <2>3, <2>4
  <1>9. e.written \in Nat /\ e.written < Modulus
    <2>1. e.written \in Nat /\ e.theirs \in Nat /\ e.written + e.theirs + WinSize + 2 < Modulus \div 2
      BY DEF Placed
    <2> QED BY <2>1, Half, Constants
  <1>10. s.tx_highest_seq = Add(e.own, lo + first)
    <2>1. Add(s.tx_win_low, first) = s.tx_highest_seq
      BY <1>4, AddDiff DEF Outstanding
    <2> HIDE DEF first, lo, n
    <2>2. Add(Add(e.own, lo), first) = Add(e.own, lo + first)
      <3>1. lo + first < Modulus
        <4>1. lo \in Nat /\ lo + n = e.written
          BY <1>8
        <4> QED BY <1>5, <1>6, <1>9, <4>1, Constants
      <3> QED BY <1>6, <1>8, <3>1, AddAdd
    <2> QED BY <1>8, <2>1, <2>2
  <1>11. s.state \in Live /\ Streams(s, e)
    BY <1>2 DEF Live, Good
  <1> HIDE DEF n, lo, first, pending
  <1>12. ASSUME NEW offset \in Nat PROVE Tells(Chunk(offset), s, e)
    <2> DEFINE j == first + Least(offset + MSS, pending)
               i == first + offset
               data == SubSeq(s.tx_buffer, i + 1, j)
    <2>1. Least(offset + MSS, pending) <= pending
          /\ Least(offset + MSS, pending) \in {offset + MSS, pending} /\ i \in Nat
      BY <1>6, <1>7, Constants DEF Least
    <2>2. j \in Nat /\ j <= n
      BY <1>5, <1>6, <1>7, <2>1, Constants
    <2>3. CASE i < j
      <3> HIDE DEF j
      <3>1. i <= j /\ j - i \in Nat /\ lo + i \in Nat /\ lo \in Int
        BY <1>8, <2>1, <2>2, <2>3
      <3>2. SubSeq(Counting(lo, n), i + 1, j) = Counting(lo + i, j - i)
        <4> HIDE DEF i
        <4>1. i \in Nat /\ j \in Nat /\ i <= j /\ j <= n /\ n \in Nat /\ lo \in Int
          BY <1>5, <2>1, <2>2, <3>1
        <4> QED BY <4>1, CountingPart
      <3>3. data = Counting(lo + i, j - i) /\ Len(data) = j - i
        <4>1. data = Counting(lo + i, j - i)
          BY <1>8, <3>2, Zenon
        <4>2. lo + i \in Int
          BY <3>1
        <4> HIDE DEF i, data
        <4> QED BY <3>1, <4>1, <4>2, CountingSeq
      <3>4. Add(s.tx_highest_seq, offset) = Add(e.own, lo + i)
        <4>1. lo + first \in Nat /\ (lo + first) + offset < Modulus /\ lo + i = (lo + first) + offset
          <5>1. lo \in Nat /\ lo + n = e.written
            BY <1>8
          <5> QED BY <1>5, <1>6, <1>9, <2>2, <2>3, <5>1, Constants
        <4>2. Add(Add(e.own, lo + first), offset) = Add(e.own, (lo + first) + offset)
          BY <1>8, <4>1, AddAdd
        <4> QED BY <1>10, <4>1, <4>2, Zenon
      <3>5. lo + i \in 0 .. e.written /\ (lo + i) + Len(data) <= e.written
        BY <1>5, <1>8, <2>1, <2>2, <3>1, <3>3
      <3> HIDE DEF data
      <3>6. \E o \in 0 .. e.written :
               /\ o + Len(data) <= e.written
               /\ Add(s.tx_highest_seq, offset) = Add(e.own, o) /\ data = Counting(o, Len(data))
        BY <3>3, <3>4, <3>5
      <3>7. Tells(tcp_send(w.remote, {"ACK"}, Add(s.tx_highest_seq, offset), s.rx_win_low, data), s, e)
        BY <1>2, <1>11, <3>6, AckTells
      <3> QED BY <3>7 DEF data, j
    <2>4. CASE ~(i < j)
      <3>1. data = <<>>
        <4> HIDE DEF i, j
        <4>1. i + 1 \in Int /\ j \in Int /\ i + 1 > j
          BY <2>1, <2>2, <2>4
        <4> QED BY <1>5, <4>1, SubSeqEmpty
      <3> HIDE DEF data
      <3>2. Tells(tcp_send(w.remote, {"ACK"}, Add(s.tx_highest_seq, offset), s.rx_win_low, data), s, e)
        BY <1>2, <1>11, <3>1, AckTells
      <3> QED BY <3>2 DEF data, j
    <2> QED
      BY <2>3, <2>4
  <1> HIDE DEF Chunk
  <1>13. \A m \in chunks : Tells(m, s, e)
    <2>1. ASSUME NEW i \in 0 .. (pending - 1) \div MSS PROVE Tells(Chunk(i * MSS), s, e)
      <3>1. i \in Nat OBVIOUS
      <3>2. i * MSS \in Nat BY <3>1, Offsets
      <3> QED BY <1>12, <3>2
    <2> QED BY <2>1
  <1>14. Alike(s, p) /\ p \in Socket
    <2>1. RxWinHigh(s) \in Num /\ Add(s.tx_highest_seq, pending) \in Num
      <3>1. s.tx_highest_seq \in Int BY <1>4 DEF Num
      <3> QED BY <1>2, <1>7, <3>1, EdgeIsNum, Numbers
    <2>2. Alike(s, a)
      BY <1>2, <1>6, EdgeFits
    <2>3. /\ a.state = s.state /\ a.rx_win_low = s.rx_win_low /\ a.rx_buffer = s.rx_buffer
          /\ a.tx_win_low = s.tx_win_low /\ a.tx_buffer = s.tx_buffer /\ a.rx_win_high = RxWinHigh(s)
      BY <1>2, Zenon DEF Socket
    <2>4. /\ p.state = s.state /\ p.rx_win_low = s.rx_win_low /\ p.rx_buffer = s.rx_buffer
          /\ p.tx_win_low = s.tx_win_low /\ p.tx_buffer = s.tx_buffer /\ p.rx_win_high = RxWinHigh(s)
      BY <1>2, Zenon DEF Socket
    <2>5. p \in Socket
      BY <1>2, <2>1 DEF Socket
    <2> HIDE DEF a, p
    <2>6. Fits(s) => Fits(p)
      BY <2>2, <2>3, <2>4 DEF Alike, Fits
    <2> QED BY <2>4, <2>5, <2>6 DEF Alike
  <1> HIDE DEF p
  <1>15. CASE pending = 0
    BY <1>1, <1>15
  <1>16. CASE pending # 0
    <2>1. v = [w EXCEPT !.s = r, !.out = w.out \cup chunks]
      BY <1>1, <1>16
    <2> HIDE DEF v, chunks
    <2>2. v.s = r /\ \A m \in v.out : m \in w.out \/ m \in chunks
      <3> HIDE DEF r
      <3> QED BY <1>2, <2>1 DEF Worlds
    <2>3. q \in Socket
      <3>1. q = p \/ q = Freed \/ q = [[p EXCEPT !.timers = p.timers \ {"ack"}] EXCEPT !.ref = p.ref - 1]
        <4>1. [p EXCEPT !.timers = p.timers \ {"ack"}].ref = p.ref
          BY <1>14 DEF Socket
        <4> QED BY <4>1 DEF tcp_timer_cancel, dec_socket_ref
      <3>2. p.timers \ {"ack"} \in SUBSET Timers /\ p.ref - 1 \in Int
        BY <1>14 DEF Socket
      <3>3. WithTimers(p, p.timers \ {"ack"}, p.ref - 1) \in Socket
        BY <1>14, <3>2, OtherTimers
      <3> HIDE DEF q
      <3> QED BY <1>14, <3>1, <3>3, Records DEF WithTimers
    <2> HIDE DEF q
    <2>4. Alike(q, r)
      BY <2>3, TimersAlike
    <2>5. q.state # "FREED"
      BY <1>3, <2>2, <2>4 DEF Alike
    <2>6. Alike(p, q)
      BY <1>14, <2>5, TimersAlike DEF q
    <2> HIDE DEF r
    <2>7. Alike(w.s, v.s)
      BY <1>14, <2>2, <2>4, <2>6, Alike3
    <2>8. \A m \in v.out : m \in w.out \/ Tells(m, w.s, e)
      BY <1>13, <2>2
    <2> QED
      BY <1>3, <2>7, <2>8, GoodSend DEF v
  <1> QED
    BY <1>15, <1>16

(* ... to the peer.                                                        *)
LEMMA AimedWrite ==
  ASSUME NEW w, NEW h, Aimed(w, h)
  PROVE  Aimed(tcp_write_pending_data(w), h)
  <1> DEFINE s == w.s
             first == Outstanding(s)
             pending == Diff(Len(s.tx_buffer), first)
             Chunk(offset) ==
               tcp_send(w.remote, {"ACK"}, Add(s.tx_highest_seq, offset), s.rx_win_low,
                        SubSeq(s.tx_buffer, first + offset + 1, first + Least(offset + MSS, pending)))
             chunks == {Chunk(i * MSS) : i \in 0 .. (pending - 1) \div MSS}
             r == tcp_timer_set(tcp_timer_cancel(
                    [s EXCEPT !.rx_win_high = RxWinHigh(s),
                              !.tx_highest_seq = Add(s.tx_highest_seq, pending)], "ack"), "retransmit")
  <1>1. tcp_write_pending_data(w) = IF pending = 0 THEN w ELSE [w EXCEPT !.s = r, !.out = w.out \cup chunks]
    BY DEF tcp_write_pending_data
  <1>2. \A m \in chunks : m.to = h
    BY DEF tcp_send, Aimed
  <1> HIDE DEF chunks, r, pending
  <1>3. Aimed([w EXCEPT !.s = r, !.out = w.out \cup chunks], h)
    BY <1>2, AimedOut
  <1> QED
    BY <1>1, <1>3, Zenon
(* What a call of the user leaves alone beside a socket. *)
Beside(e, f) ==
  /\ f.own = e.own /\ f.peer = e.peer /\ f.state = e.state /\ f.theirs = e.theirs
  /\ f.acked = e.acked /\ f.received = e.received /\ f.before = e.before /\ f.had = e.had

(* A step that has sent nothing yet.                                       *)
LEMMA NewGood ==
  ASSUME NEW x, NEW s \in Socket, NEW e, Streams(s, e), Onward(s, e)
  PROVE  Good(World(x, s), e) /\ Aimed(World(x, s), Other(HostOf(x)))
  <1>1. World(x, s) \in Worlds /\ World(x, s).s = s /\ World(x, s).out = {}
        /\ World(x, s).remote = Other(HostOf(x))
    BY NewWorld
  <1>2. Good(World(x, s), e)
    BY <1>1 DEF Good
  <1>3. Aimed(World(x, s), Other(HostOf(x)))
    <2>1. World(x, s) = [s |-> s, remote |-> Other(HostOf(x)), out |-> {}, fault |-> World(x, s).fault]
      BY DEF World
    <2> QED BY <1>1, <2>1 DEF Aimed
  <1> QED
    BY <1>2, <1>3

(* Bytes that the writer puts into the buffer follow those before.         *)
LEMMA FilledGood ==
  ASSUME NEW x, NEW s \in Socket, s.state \in Writable, NEW e, NEW f, Beside(e, f), f.got = e.got,
         NEW n \in Nat, f.written = e.written + n, Placed(e), Len(s.tx_buffer) <= e.written,
         Streams(s, e), Onward(s, e)
  PROVE  LET t == Filled(s, e.written, n)
         IN  Good(World(x, t), f) /\ Aimed(World(x, t), Other(HostOf(x)))
  <1> DEFINE m == Len(s.tx_buffer)
             lo == e.written - m
             more == Counting(e.written, n)
             buffer == s.tx_buffer \o more
             t == Filled(s, e.written, n)
  <1>1. e.written \in Nat /\ s.tx_buffer \in Seq(Int) /\ m \in Nat /\ m <= e.written
    BY LenProperties DEF Placed, Socket
  <1>2. Sender(s, e) /\ Receiver(s, e)
    BY DEF Streams, Writable
  <1>3. lo \in Nat /\ s.tx_win_low = Add(e.own, lo) /\ s.tx_buffer = Counting(lo, m)
    BY <1>1, <1>2, InBuffer
  <1>4. lo \in Int /\ lo + m = e.written /\ f.written - (m + n) = lo
    <2> HIDE DEF m
    <2> QED BY <1>1
  <1> HIDE DEF lo, m
  <1>5. buffer = Counting(lo, m + n)
    <2>1. Counting(lo, m) \o Counting(lo + m, n) = Counting(lo, m + n)
      BY <1>1, <1>4, CountingConcat
    <2> QED BY <1>3, <1>4, <2>1, Zenon
  <1>6. buffer \in Seq(Int) /\ Len(buffer) = m + n
    <2>1. m + n \in Nat
      BY <1>1
    <2>2. Counting(lo, m + n) \in Seq(Int) /\ Len(Counting(lo, m + n)) = m + n
      BY <1>4, <2>1, CountingSeq
    <2> QED BY <1>5, <2>2, Zenon
  <1>7. t = [s EXCEPT !.tx_buffer = buffer, !.tx_event = s.tx_event /\ Len(buffer) # TxSize]
    BY Zenon DEF Filled, Counting
  <1> HIDE DEF buffer, t
  <1>8. t \in Socket
    <2>1. (s.tx_event /\ Len(buffer) # TxSize) \in BOOLEAN
      OBVIOUS
    <2> QED BY <1>6, <1>7, <2>1 DEF Socket
  <1>9. /\ t.tx_buffer = buffer /\ t.state = s.state /\ t.rx_win_low = s.rx_win_low
        /\ t.rx_win_high = s.rx_win_high /\ t.rx_buffer = s.rx_buffer /\ t.tx_win_low = s.tx_win_low
    BY <1>7, Zenon DEF Socket
  <1>10. Sender(t, f)
    <2>1. Len(t.tx_buffer) = m + n /\ f.written - Len(t.tx_buffer) = lo
      BY <1>4, <1>6, <1>9
    <2>2. t.tx_win_low = Add(f.own, f.written - Len(t.tx_buffer))
      BY <1>3, <1>9, <2>1 DEF Beside
    <2>3. t.tx_buffer = Counting(f.written - Len(t.tx_buffer), Len(t.tx_buffer))
      BY <1>5, <1>9, <2>1, Zenon
    <2>4. t.state \notin {"NONE", "SYN_SENT", "SYN_RCVD"}
      BY <1>9 DEF Writable
    <2>5. f.state # "FREED" => f.written - Len(t.tx_buffer) <= f.received
      <3>1. s.state \in Sending
        BY DEF Sending
      <3>2. e.state # "FREED" => lo <= e.received
        BY <1>2, <3>1 DEF Sender, lo, m
      <3> QED BY <2>1, <3>2 DEF Beside
    <2> QED
      BY <2>2, <2>3, <2>4, <2>5 DEF Sender
  <1>11. Receiver(t, f)
    <2>1. Fits(s) => Fits(t)
      BY <1>9 DEF Fits
    <2> QED BY <1>2, <1>9, <2>1, Zenon DEF Receiver, Beside
  <1>12. Streams(t, f)
    BY <1>10, <1>11 DEF Streams
  <1>13. Onward(t, f)
    BY <1>9, Zenon DEF Onward, Beside
  <1> QED
    BY <1>8, <1>12, <1>13, NewGood DEF t

(* Bytes that the reader takes stay received.                              *)
LEMMA TakenGood ==
  ASSUME NEW x, NEW s \in Socket, s.state # "FREED", NEW e, NEW f, Beside(e, f),
         f.written = e.written,
         NEW n \in 1 .. Len(s.rx_buffer), f.got = e.got \o SubSeq(s.rx_buffer, 1, n), Placed(e),
         Streams(s, e), Onward(s, e)
  PROVE  LET t == Taken(s, n)
         IN  Good(World(x, t), f) /\ Aimed(World(x, t), Other(HostOf(x)))
  <1> DEFINE m == Len(s.rx_buffer)
             old == SubSeq(s.rx_buffer, 1, n)
             rest == SubSeq(s.rx_buffer, n + 1, m)
             t == Taken(s, n)
  <1>1. s.rx_buffer \in Seq(Int) /\ m \in Nat /\ e.got \in Seq(Int)
    BY LenProperties DEF Placed, Socket
  <1>2. n \in Nat /\ n \in Int /\ n >= 1 /\ n <= m
    BY <1>1
  <1> HIDE DEF m
  <1>3. old \in Seq(Int)
    <2>1. \A i \in 1 .. n : s.rx_buffer[i] \in Int
      BY <1>1, <1>2, LenProperties DEF m
    <2> QED BY <1>2, <2>1, SubSeqProperties
  <1>4. rest \in Seq(Int) /\ Len(rest) = m - n
    <2>1. \A i \in n + 1 .. m : s.rx_buffer[i] \in Int
      BY <1>1, <1>2, LenProperties DEF m
    <2>2. n + 1 \in Int /\ m \in Int
      BY <1>1, <1>2
    <2>3. rest \in Seq(Int) /\ Len(rest) = IF n + 1 <= m THEN m - (n + 1) + 1 ELSE 0
      BY <2>1, <2>2, SubSeqProperties
    <2> QED BY <1>1, <1>2, <2>3
  <1>5. old \o rest = s.rx_buffer
    <2>1. SubSeq(s.rx_buffer, 1, n) \o SubSeq(s.rx_buffer, n + 1, m) = SubSeq(s.rx_buffer, 1, m)
      BY <1>1, <1>2, ConcatAdjacentSubSeq DEF m
    <2>2. SubSeq(s.rx_buffer, 1, m) = s.rx_buffer
      BY <1>1, SubSeqFull DEF m
    <2> QED BY <2>1, <2>2, Zenon
  <1> HIDE DEF old, rest
  <1>6. (e.got \o old) \o rest = e.got \o s.rx_buffer
    <2>1. (e.got \o old) \o rest = e.got \o (old \o rest)
      BY <1>1, <1>3, <1>4, ConcatConcat
    <2> QED BY <1>5, <2>1, Zenon
  <1>7. f.got \o rest = e.got \o s.rx_buffer
    BY <1>6, Zenon DEF old
  <1>8. t = [s EXCEPT !.rx_buffer = rest, !.rx_event = ~(s.state = "ESTABLISHED" /\ n = m)]
    BY Zenon DEF Taken, rest, m
  <1> HIDE DEF t
  <1>9. t \in Socket
    <2>1. (~(s.state = "ESTABLISHED" /\ n = m)) \in BOOLEAN
      OBVIOUS
    <2> QED BY <1>4, <1>8, <2>1 DEF Socket
  <1>10. /\ t.rx_buffer = rest /\ t.state = s.state /\ t.rx_win_low = s.rx_win_low
         /\ t.rx_win_high = s.rx_win_high /\ t.tx_buffer = s.tx_buffer /\ t.tx_win_low = s.tx_win_low
    BY <1>8, Zenon DEF Socket
  <1>11. Sender(s, e) /\ Receiver(s, e)
    BY DEF Streams
  <1>12. Sender(t, f)
    BY <1>10, <1>11, Zenon DEF Sender, Beside
  <1>13. f.got \o t.rx_buffer = e.got \o s.rx_buffer
    BY <1>7, <1>10, Zenon
  <1>14. Fits(s) => Fits(t)
    <2>1. Diff(t.rx_win_high, t.rx_win_low) = Diff(s.rx_win_high, s.rx_win_low)
          /\ Diff(s.rx_win_high, s.rx_win_low) \in Int
      <3>1. s.rx_win_high \in Num /\ s.rx_win_low \in Num
        BY DEF Socket
      <3>2. Diff(s.rx_win_high, s.rx_win_low) \in Num
        BY <3>1, Difference
      <3> QED BY <1>10, <3>2 DEF Num
    <2>2. Len(t.rx_buffer) = m - n /\ Len(s.rx_buffer) = m
      BY <1>4, <1>10 DEF m
    <2> HIDE DEF m
    <2> QED BY <1>1, <1>2, <2>1, <2>2, Constants DEF Fits
  <1>15. Receiver(t, f)
    BY <1>10, <1>11, <1>13, <1>14, Zenon DEF Receiver, Beside
  <1>16. Streams(t, f)
    BY <1>12, <1>15 DEF Streams
  <1>17. Onward(t, f)
    BY <1>10, <1>13, Zenon DEF Onward, Beside
  <1> QED
    BY <1>9, <1>16, <1>17, NewGood DEF t
(* The FIN comes after the end of the stream.                              *)
LEMMA SendFinGood ==
  ASSUME NEW w, NEW c, NEW k \in Nat, k > 0, Sound(w.s, c, k), c.user = "closed",
         w.s.state \in {"SYN_RCVD", "ESTABLISHED", "CLOSE_WAIT"},
         NEW state \in {"FIN_WAIT_1", "LAST_ACK"}, NEW e, Placed(e), Good(w, e)
  PROVE  Good(SendFin(w, state), e)
  <1> DEFINE s == w.s
             a == [s EXCEPT !.state = state]
             u == [w EXCEPT !.s = a]
             t == tcp_socket_send(u, {"ACK", "FIN"}, s.tx_win_low, <<>>)
             p == [t.s EXCEPT !.tx_win_low = Add(t.s.tx_win_low, 1)]
             v == SendFin(w, state)
             m == tcp_send(u.remote, {"ACK", "FIN"}, s.tx_win_low, a.rx_win_low, <<>>)
  <1>1. w \in Worlds /\ s \in Socket /\ s.tx_win_low \in Num /\ <<>> \in Seq(Int)
        /\ {"ACK", "FIN"} \in SUBSET {"SYN", "ACK", "FIN", "RST"} /\ "ACK" \in {"ACK", "FIN"}
    BY DEF Good, Worlds, Socket
  <1>2. v \in Worlds /\ v.s.state # "FREED"
    <2>1. v \in Worlds /\ Sound(tcp_wakeup_waiters(v.s), c, k)
      BY <1>1, SendFinKeeps
    <2> HIDE DEF v
    <2>2. v.s \in Socket
      BY <2>1 DEF Worlds
    <2>3. tcp_wakeup_waiters(v.s).state = v.s.state
      BY <2>2 DEF tcp_wakeup_waiters, Socket
    <2> QED BY <2>1, <2>3 DEF Sound, Closes
  <1>3. [w EXCEPT !.s.state = state] = u
    BY <1>1 DEF Worlds
  <1>4. v = [t EXCEPT !.s.tx_win_low = Add(@, 1)]
    BY <1>3 DEF SendFin
  <1>5. /\ a \in Socket /\ a.state = state /\ a.rx_buffer = s.rx_buffer /\ a.rx_win_low = s.rx_win_low
    BY <1>1 DEF Socket
  <1> HIDE DEF a
  <1>6. u \in Worlds /\ u.s = a /\ u.out = w.out
    BY <1>1, <1>5, Replaced
  <1>7. a.state \notin Sending \cup {"NONE"} /\ a.state \in Live /\ s.state \in Live
        /\ s.state # "FREED" /\ a.state \notin Sending
    BY <1>5 DEF Sending, Writable, Live, Shut
  <1> HIDE DEF u
  <1>8. Good(u, e)
    BY <1>5, <1>6, <1>7, MovesOn
  <1>9. t \in Worlds
    BY <1>1, <1>6, SendTyped
  <1>10. t.s \in Socket /\ t.s.tx_win_low \in Num /\ Add(t.s.tx_win_low, 1) \in Num
    <2> HIDE DEF t
    <2>1. t.s \in Socket /\ t.s.tx_win_low \in Num
      BY <1>9 DEF Worlds, Socket
    <2>2. t.s.tx_win_low \in Int
      BY <2>1 DEF Num
    <2> QED BY <2>1, <2>2, Numbers
  <1> HIDE DEF t
  <1>11. /\ p \in Socket /\ p.state = t.s.state /\ p.rx_buffer = t.s.rx_buffer
         /\ p.rx_win_low = t.s.rx_win_low
    BY <1>10 DEF Socket
  <1>12. v.s = p /\ v.out = t.out
    <2>1. v = [t EXCEPT !.s = p]
      BY <1>4, <1>9 DEF Worlds
    <2> HIDE DEF p, v
    <2> QED BY <1>9, <1>11, <2>1, Replaced
  <1> HIDE DEF p, v
  <1>13. t.s.state # "FREED"
    BY <1>2, <1>11, <1>12
  <1>14. Len(u.s.rx_buffer) <= WinSize - 1
    BY <1>5, <1>6 DEF Sound, Transmits
  <1>15. Alike(u.s, t.s) /\ \A q \in t.out : q \in u.out \/ q = m
    BY <1>1, <1>6, <1>13, <1>14, SendStream DEF t
  <1>16. Tells(m, a, e)
    <2>1. Streams(a, e)
      BY <1>6, <1>8 DEF Good
    <2>2. "SYN" \notin {"ACK", "FIN"}
      OBVIOUS
    <2> QED BY <1>5, <1>7, <2>1, <2>2, AckTells
  <1> HIDE DEF m
  <1>17. Good(t, e)
    <2>1. \A q \in t.out : q \in u.out \/ Tells(q, u.s, e)
      BY <1>6, <1>15, <1>16
    <2> QED BY <1>8, <1>9, <1>15, <2>1, GoodSend
  <1>18. t.s.state = a.state
    BY <1>6, <1>15 DEF Alike
  <1> QED
    BY <1>2, <1>7, <1>11, <1>12, <1>13, <1>17, <1>18, MovesOn DEF v

(* tcp_close up to the wake-up.                                            *)
LEMMA ClosingGood ==
  ASSUME NEW w, NEW c, NEW k \in Nat, k > 0, Sound(w.s, c, k), c.user = "closed",
         w.s.listed, NEW e, Placed(e), Good(w, e)
  PROVE  Good(Closing(w), e)
  <1> DEFINE s == w.s
             v == Closing(w)
  <1>1. w \in Worlds /\ s \in Socket
    BY DEF Good, Worlds
  <1>2. CASE s.state \in {"CLOSED", "LISTEN"}
    <2>1. v = Closed(w)
      BY <1>2 DEF Closing
    <2>2. /\ v.out = w.out /\ v.s \in Socket /\ v.s.state = "CLOSED" /\ v.s.rx_buffer = s.rx_buffer
      BY <1>1, <1>2, <2>1, ClosedKeeps
    <2>3. v \in Worlds
      <3>1. PICK r : v = [w EXCEPT !.s = r]
        BY <2>1 DEF Closed
      <3> HIDE DEF v
      <3>2. v.s = r
        BY <1>1, <3>1 DEF Worlds
      <3>3. r \in Socket
        BY <2>2, <3>2
      <3> QED BY <1>1, <3>1, <3>3, Replaced
    <2>4. "CLOSED" \notin Sending \cup {"NONE"} /\ "CLOSED" \notin Live /\ s.state # "FREED"
      BY <1>2 DEF Sending, Writable, Live, Shut
    <2> HIDE DEF v
    <2>5. Good(v, e)
      BY <2>2, <2>3, <2>4, MovesOn
    <2> QED
      BY <2>5 DEF v
  <1>3. CASE s.state \in {"SYN_RCVD", "ESTABLISHED", "CLOSE_WAIT"}
    <2>1. PICK state \in {"FIN_WAIT_1", "LAST_ACK"} : v = SendFin(w, state)
      BY <1>3 DEF Closing
    <2>2. Good(SendFin(w, state), e)
      BY <1>3, SendFinGood
    <2> QED BY <2>1, <2>2
  <1>4. CASE s.state \notin {"CLOSED", "LISTEN", "SYN_RCVD", "ESTABLISHED", "CLOSE_WAIT"}
    <2>1. v = [w EXCEPT !.fault = "lock kept"]
      BY <1>4 DEF Closing
    <2>2. "lock kept" \in Faults
      BY DEF Faults
    <2> HIDE DEF v
    <2>3. v \in Worlds /\ v.s = w.s /\ v.out = w.out
      BY <1>1, <2>1, <2>2, Faulted
    <2>4. Alike(w.s, v.s)
      BY <2>3 DEF Alike
    <2>5. Good(v, e)
      BY <2>3, <2>4, GoodSend
    <2> QED
      BY <2>5 DEF v
  <1> QED
    BY <1>2, <1>3, <1>4

(* ... to the peer.                                                        *)
LEMMA AimedClosing ==
  ASSUME NEW w, NEW h, Aimed(w, h)
  PROVE  Aimed(Closing(w), h)
  <1>1. Aimed(Closed(w), h) /\ Aimed([w EXCEPT !.fault = "lock kept"], h)
    BY AimedSocket DEF Closed
  <1>2. ASSUME NEW state PROVE Aimed(SendFin(w, state), h)
    <2> DEFINE u == [w EXCEPT !.s.state = state]
               t == tcp_socket_send(u, {"ACK", "FIN"}, w.s.tx_win_low, <<>>)
    <2>1. Aimed(u, h)
      BY AimedSocket, Zenon
    <2> HIDE DEF u
    <2>2. Aimed(t, h)
      BY <2>1, AimedSend
    <2> HIDE DEF t
    <2>3. Aimed([t EXCEPT !.s.tx_win_low = Add(@, 1)], h)
      BY <2>2, AimedSocket, Zenon
    <2> QED BY <2>3, Zenon DEF SendFin, t, u
  <1> QED
    BY <1>1, <1>2, Zenon DEF Closing

(* All of tcp_close under the lock.                                        *)
LEMMA CloseGood ==
  ASSUME NEW s, NEW c, NEW d, NEW k \in Nat, NEW sent, Sound(s, c, k), Acknowledges(s, c, sent),
         s.listed, Handed(c, d), NEW e, Placed(e), Streams(s, e), Onward(s, e)
  PROVE  LET v == Closing(World(c.x, inc_socket_ref(s)))
             r == IF v.fault # "none" THEN dec_socket_ref(inc_socket_ref(s))
                  ELSE dec_socket_ref(tcp_wakeup_waiters(v.s))
         IN  /\ Streams(r, e) /\ Onward(r, e)
             /\ \A m \in v.out : m.to = Other(HostOf(c.x)) /\ Tells(m, r, e)
  <1> DEFINE t == inc_socket_ref(s)
             w == World(c.x, t)
             v == Closing(w)
             g == tcp_wakeup_waiters(v.s)
             h == Other(HostOf(c.x))
  <1>1. Sound(t, c, k + 1) /\ Like(s, t, s.timers) /\ s \in Socket
    BY Holds DEF Sound, Balanced
  <1>2. Streams(t, e) /\ Onward(t, e)
    <2>1. Alike(s, t)
      BY <1>1, TimersAlike
    <2> HIDE DEF t
    <2> QED BY <2>1, AlikeStreams
  <1> HIDE DEF t
  <1>3. t \in Socket /\ t.listed
    <2>1. t \in Socket
      BY <1>1 DEF Sound, Balanced
    <2>2. t.listed
      BY <1>1, Zenon DEF Like
    <2> QED BY <2>1, <2>2
  <1>4. Sound(t, d, k + 1) /\ d.user = "closed"
    BY <1>1, HandedSound DEF Handed
  <1>5. w \in Worlds /\ w.s = t /\ w.out = {} /\ w.fault = "none"
    BY <1>3, NewWorld DEF World
  <1>6. Good(w, e) /\ Aimed(w, h)
    BY <1>2, <1>3, NewGood
  <1> HIDE DEF w
  <1>7. k + 1 \in Nat /\ k + 1 > 0
    OBVIOUS
  <1>8. Good(v, e)
    BY <1>3, <1>4, <1>5, <1>6, <1>7, ClosingGood
  <1>9. Aimed(v, h)
    BY <1>6, AimedClosing
  <1> HIDE DEF h
  <1>10. \A m \in v.out : m.to = h
    BY <1>9 DEF Aimed
  <1>11. CASE v.fault # "none"
    <2>1. v.out = {}
      <3>1. CASE t.state \in {"CLOSED", "LISTEN"}
        <4>1. v = Closed(w)
          BY <1>5, <3>1 DEF Closing
        <4> QED BY <1>3, <1>4, <1>5, <1>7, <3>1, <4>1, ClosedKeeps
      <3>2. CASE t.state \in {"SYN_RCVD", "ESTABLISHED", "CLOSE_WAIT"}
        <4>1. PICK state : v = SendFin(w, state)
          BY <1>5, <3>2 DEF Closing
        <4>2. v.fault = w.fault
          <5>1. SendFin(w, state).fault = w.fault
            BY <1>5 DEF SendFin, tcp_socket_send, Worlds
          <5> QED BY <4>1, <5>1
        <4> QED BY <1>5, <1>11, <4>2
      <3>3. CASE t.state \notin {"CLOSED", "LISTEN", "SYN_RCVD", "ESTABLISHED", "CLOSE_WAIT"}
        <4>1. v = [w EXCEPT !.fault = "lock kept"]
          BY <1>5, <3>3 DEF Closing
        <4> QED BY <1>5, <4>1 DEF Worlds
      <3> QED BY <3>1, <3>2, <3>3
    <2> HIDE DEF v
    <2>2. LET r == dec_socket_ref(w.s) IN Streams(r, e) /\ Onward(r, e)
      BY <1>6, DropGood
    <2> QED
      BY <1>5, <1>11, <2>1, <2>2 DEF v, w, t
  <1>12. CASE v.fault = "none"
    <2> DEFINE q == [v EXCEPT !.s = g]
    <2>1. v \in Worlds /\ v.s \in Socket
      <3> HIDE DEF v
      <3> QED BY <1>8 DEF Good, Worlds
    <2> HIDE DEF v
    <2>2. g \in Socket /\ Alike(v.s, g)
      <3>1. g \in Socket
        BY <2>1 DEF tcp_wakeup_waiters, Socket
      <3> QED BY <2>1, <3>1, TimersAlike
    <2> HIDE DEF g
    <2>3. q \in Worlds /\ q.s = g /\ q.out = v.out
      BY <2>1, <2>2, Replaced
    <2> HIDE DEF q
    <2>4. Good(q, e)
      BY <1>8, <2>2, <2>3, GoodSend
    <2>5. LET r == dec_socket_ref(q.s)
          IN  Streams(r, e) /\ Onward(r, e) /\ \A m \in q.out : Tells(m, r, e)
      BY <2>4, DropGood
    <2> QED
      BY <1>10, <1>12, <2>3, <2>5 DEF v, w, t, g, h
  <1> QED
    BY <1>11, <1>12
-----------------------------------------------------------------------------
(* The two ends of the connection.                                         *)
LEMMA EndsAre ==
  ASSUME NEW x \in Ends
  PROVE  LET y == PeerOf(x)
         IN  /\ y \in Ends /\ PeerOf(y) = x /\ x # y /\ x \in Sockets /\ y \in Sockets
             /\ Ends = {x, y} /\ x # Listener /\ y # Listener
             /\ Other(HostOf(y)) = HostOf(x) /\ Other(HostOf(x)) = HostOf(y)
             /\ HostOf(x) # HostOf(y) /\ HostOf(x) \in Hosts /\ HostOf(y) \in Hosts
  BY Constants DEF Ends, PeerOf, HostOf, Other, Sockets, Hosts

(* What is beside a socket ...                                             *)
LEMMA EndIs ==
  ASSUME NEW x, NEW b
  PROVE  LET y == PeerOf(x)
             e == End(x, b)
         IN  /\ e.own = b[x] /\ e.peer = b[y] /\ e.got = got[x] /\ e.written = written[x]
             /\ e.state = sock[y].state /\ e.theirs = written[y]
             /\ e.acked = written[y] - Len(sock[y].tx_buffer)
             /\ e.received = Len(got[y] \o sock[y].rx_buffer)
             /\ e.before = sock[x].state /\ e.had = Len(got[x] \o sock[x].rx_buffer)
  BY DEF End, Received

(* ... and after a step.                                                   *)
LEMMA EndBecomes ==
  ASSUME NEW x, NEW b
  PROVE  LET y == PeerOf(x)
             e == End(x, b)'
         IN  /\ e.own = b[x] /\ e.peer = b[y] /\ e.got = got'[x] /\ e.written = written'[x]
             /\ e.state = sock'[y].state /\ e.theirs = written'[y]
             /\ e.acked = written'[y] - Len(sock'[y].tx_buffer)
             /\ e.received = Len(got'[y] \o sock'[y].rx_buffer)
             /\ e.before = sock'[x].state /\ e.had = Len(got'[x] \o sock'[x].rx_buffer)
  BY DEF End, Received

(* The numbers beside a socket are small enough for the comparisons.       *)
LEMMA EndPlaced ==
  ASSUME TcpIndInv, NEW b, StreamInv(b), NEW x \in Ends
  PROVE  Placed(End(x, b))
  <1> DEFINE y == PeerOf(x)
             e == End(x, b)
             f == End(y, b)
  <1>1. y \in Ends /\ PeerOf(y) = x /\ x \in Sockets /\ y \in Sockets
    BY EndsAre
  <1>2. /\ e.own = b[x] /\ e.peer = b[y] /\ e.got = got[x] /\ e.written = written[x]
        /\ e.state = sock[y].state /\ e.theirs = written[y]
        /\ e.acked = written[y] - Len(sock[y].tx_buffer)
        /\ e.received = Len(got[y] \o sock[y].rx_buffer)
        /\ e.had = Len(got[x] \o sock[x].rx_buffer)
    BY EndIs
  <1>3. f.got = got[y] /\ f.theirs = written[x]
    <2>1. f.got = got[y] /\ f.theirs = written[PeerOf(y)]
      BY EndIs
    <2> QED BY <1>1, <2>1
  <1> HIDE DEF e, f
  <1>4. b \in [Ends -> Num] /\ Streams(sock[y], f)
    BY <1>1 DEF StreamInv, f
  <1> HIDE DEF y
  <1>5. b[x] \in Num /\ b[y] \in Num
    BY <1>1, <1>4
  <1>6. \A z \in Sockets :
          /\ got[z] \in Seq(Int) /\ sock[z].rx_buffer \in Seq(Int) /\ sock[z].tx_buffer \in Seq(Int)
          /\ written[z] \in Nat /\ writing[z] \in Nat /\ written[z] + writing[z] <= Bytes(z)
    BY DEF TcpIndInv, TcpTypeOK, CallersOK, Socket
  <1>7. \A z \in Sockets : Len(got[z] \o sock[z].rx_buffer) \in Nat
    BY <1>6, ConcatProperties, LenProperties
  <1>8. Len(sock[y].tx_buffer) \in Nat
    BY <1>1, <1>6, LenProperties
  <1>9. written[x] + written[y] + WinSize + 2 < Modulus \div 2
    <2>1. {ClientBytes, ServerBytes} \subseteq Nat
          /\ ClientBytes + ServerBytes + WinSize + 2 < Modulus \div 2
      BY TcpAssumption
    <2>2. Bytes(x) + Bytes(y) = ClientBytes + ServerBytes /\ Bytes(x) \in Nat /\ Bytes(y) \in Nat
      BY <2>1, Constants DEF Bytes, Ends, y, PeerOf
    <2>3. \A z \in {x, y} : written[z] <= Bytes(z)
      <3>1. \A z \in {x, y} : written[z] \in Nat /\ writing[z] \in Nat /\ Bytes(z) \in Nat
                              /\ written[z] + writing[z] <= Bytes(z)
        BY <1>1, <1>6, <2>2
      <3> QED BY <3>1
    <2>4. written[x] \in Nat /\ written[y] \in Nat /\ written[x] <= Bytes(x) /\ written[y] <= Bytes(y)
      BY <1>1, <1>6, <2>3
    <2> QED
      BY <2>1, <2>2, <2>4, Constants, Half
  <1>10. sock[y].state # "FREED" => Len(got[y] \o sock[y].rx_buffer) <= written[x]
    BY <1>3, <1>4, Zenon DEF Streams, Receiver
  <1>11. /\ e.own \in Num /\ e.peer \in Num /\ e.got \in Seq(Int) /\ e.written \in Nat
         /\ e.theirs \in Nat /\ e.acked \in Int
    BY <1>1, <1>2, <1>5, <1>6, <1>8
  <1>12. e.received \in Nat /\ e.had \in Nat
    BY <1>1, <1>2, <1>7, Zenon
  <1>13. e.written + e.theirs + WinSize + 2 < Modulus \div 2
    BY <1>2, <1>9, Zenon
  <1>14. e.state # "FREED" => e.received <= e.written
    BY <1>2, <1>10, Zenon
  <1> QED
    BY <1>11, <1>12, <1>13, <1>14 DEF Placed, e

(* A segment for the host of x was sent by its peer.                       *)
LEMMA NetHeard ==
  ASSUME NEW b, StreamInv(b), NEW x \in Ends, NEW m \in net, m.to = HostOf(x)
  PROVE  Heard(m, End(x, b))
  <1> DEFINE y == PeerOf(x)
             e == End(x, b)
             f == End(y, b)
  <1>1. y \in Ends /\ PeerOf(y) = x /\ Other(HostOf(y)) = HostOf(x)
    BY EndsAre
  <1>2. /\ e.own = b[x] /\ e.peer = b[y] /\ e.state = sock[y].state /\ e.theirs = written[y]
        /\ e.received = Len(got[y] \o sock[y].rx_buffer) /\ e.before = sock[x].state
    BY EndIs
  <1>3. f.own = b[y] /\ f.peer = b[x] /\ f.written = written[y] /\ f.state = sock[x].state
        /\ f.got = got[y]
    <2>1. f.own = b[y] /\ f.peer = b[PeerOf(y)] /\ f.written = written[y]
          /\ f.state = sock[PeerOf(y)].state /\ f.got = got[y]
      BY EndIs
    <2> QED BY <1>1, <2>1
  <1>4. Tells(m, sock[y], f)
    BY <1>1 DEF StreamInv
  <1> HIDE DEF e, f, y
  <1>5. /\ m.data # <<>> =>
             \E i \in 0 .. e.theirs : /\ i + Len(m.data) <= e.theirs
                                      /\ m.seq = Add(e.peer, i) /\ m.data = Counting(i, Len(m.data))
        /\ "SYN" \in m.flags => Add(m.seq, 1) = e.peer /\ m.data = <<>>
        /\ "FIN" \in m.flags => e.state \notin Sending
        /\ e.state = "NONE" => m.flags = {"RST"}
    BY <1>2, <1>3, <1>4, Zenon DEF Tells
  <1>6. "ACK" \in m.flags /\ e.before \in Sending /\ e.state # "FREED" =>
          \E a \in 0 .. e.received : m.ack = Add(e.own, a)
    BY <1>2, <1>3, <1>4, Zenon DEF Tells
  <1> QED
    BY <1>5, <1>6 DEF Heard, e

(* An allocated socket goes on from where it is.                           *)
LEMMA StartsGood ==
  ASSUME TcpIndInv, NEW b, StreamInv(b), NEW x \in Ends, sock[x].state # "NONE"
  PROVE  LET e == End(x, b)
         IN  /\ Placed(e) /\ Streams(sock[x], e) /\ Onward(sock[x], e) /\ sock[x] \in Socket
             /\ Good(World(x, sock[x]), e) /\ Aimed(World(x, sock[x]), Other(HostOf(x)))
  <1> DEFINE e == End(x, b)
  <1>1. Placed(e)
    BY EndPlaced
  <1>2. Streams(sock[x], e)
    BY DEF StreamInv
  <1>3. x \in Sockets
    BY EndsAre
  <1>4. sock[x] \in Socket
    BY <1>3 DEF TcpIndInv, TcpTypeOK
  <1>5. e.before = sock[x].state /\ e.had = Len(got[x] \o sock[x].rx_buffer) /\ e.got = got[x]
    BY EndIs
  <1> HIDE DEF e
  <1>6. e.had \in Nat
    BY <1>1 DEF Placed
  <1>7. e.had = Len(e.got \o sock[x].rx_buffer)
    BY <1>5, Zenon
  <1>8. \A n \in Nat : n <= n
    OBVIOUS
  <1>9. e.had <= Len(e.got \o sock[x].rx_buffer)
    BY <1>6, <1>7, <1>8, Zenon
  <1>10. Onward(sock[x], e)
    BY <1>5, <1>9, Zenon DEF Onward
  <1>11. Good(World(x, sock[x]), e) /\ Aimed(World(x, sock[x]), Other(HostOf(x)))
    BY <1>2, <1>4, <1>10, NewGood
  <1> QED
    BY <1>1, <1>2, <1>4, <1>10, <1>11 DEF e
(* Beside a socket, e and f are the same to the stream. *)
SameEnd(e, f) ==
  /\ f.own = e.own /\ f.peer = e.peer /\ f.got = e.got /\ f.written = e.written
  /\ f.state = e.state /\ f.theirs = e.theirs /\ f.acked = e.acked /\ f.received = e.received

(* The stream depends on nothing else beside the socket.                   *)
LEMMA SameEndStreams ==
  ASSUME NEW s, NEW e, NEW f, SameEnd(e, f)
  PROVE  /\ Streams(s, e) => Streams(s, f)
         /\ \A m : Tells(m, s, e) => Tells(m, s, f)
  <1>1. Sender(s, e) => Sender(s, f)
    BY Zenon DEF SameEnd, Sender
  <1>2. Receiver(s, e) => Receiver(s, f)
    BY Zenon DEF SameEnd, Receiver
  <1>3. ASSUME NEW m, Tells(m, s, e) PROVE Tells(m, s, f)
    BY <1>3, Zenon DEF SameEnd, Tells
  <1> QED
    BY <1>1, <1>2, <1>3 DEF Streams

(* A larger range.                                                         *)
LEMMA WiderRange ==
  ASSUME NEW p \in Nat, NEW q \in Nat, p <= q, NEW i \in 0 .. p
  PROVE  i \in 0 .. q /\ i \in Nat
  OBVIOUS

(* A segment in the network stays true when its sender goes on ...         *)
LEMMA TellsOn ==
  ASSUME NEW m, NEW s, NEW r, NEW e, NEW f, Beside(e, f), Tells(m, s, e), Len(m.data) \in Nat,
         e.written \in Nat, f.written \in Nat, e.written <= f.written,
         r.state \in Sending => s.state \in Sending, r.state # "NONE", s.state # "FREED",
         NEW p \in Nat, p = Len(e.got \o s.rx_buffer), NEW q \in Nat, q = Len(f.got \o r.rx_buffer),
         r.state # "FREED" => p <= q
  PROVE  Tells(m, r, f)
  <1>1. ASSUME m.data # <<>>
        PROVE  \E i \in 0 .. f.written : /\ i + Len(m.data) <= f.written
                                         /\ m.seq = Add(f.own, i) /\ m.data = Counting(i, Len(m.data))
    <2>1. PICK i \in 0 .. e.written : /\ i + Len(m.data) <= e.written
                                      /\ m.seq = Add(e.own, i) /\ m.data = Counting(i, Len(m.data))
      BY <1>1, Zenon DEF Tells
    <2>2. i \in 0 .. f.written /\ i \in Nat
      BY WiderRange
    <2>3. i + Len(m.data) <= e.written
      BY <2>1
    <2>4. i + Len(m.data) <= f.written
      <3> DEFINE l == Len(m.data)
      <3>1. l \in Nat /\ i + l <= e.written
        BY <2>3
      <3> HIDE DEF l
      <3>2. i + l <= f.written
        BY <2>2, <3>1
      <3> QED BY <3>2 DEF l
    <2>5. m.seq = Add(f.own, i)
      BY <2>1, Zenon DEF Beside
    <2>6. m.data = Counting(i, Len(m.data))
      BY <2>1
    <2> QED BY <2>2, <2>4, <2>5, <2>6, Zenon
  <1>2. ASSUME "ACK" \in m.flags, f.state \in Sending, r.state # "FREED"
        PROVE  \E a \in 0 .. q : m.ack = Add(f.peer, a)
    <2>1. \E a \in 0 .. p : m.ack = Add(e.peer, a)
      BY <1>2, Zenon DEF Tells, Beside
    <2>2. PICK a \in 0 .. p : m.ack = Add(e.peer, a)
      BY <2>1
    <2>3. a \in 0 .. q
      BY <1>2, WiderRange
    <2> QED BY <2>2, <2>3, Zenon DEF Beside
  <1>3. /\ "SYN" \in m.flags => Add(m.seq, 1) = f.own /\ m.data = <<>>
        /\ "FIN" \in m.flags => r.state \notin Sending
        /\ "ACK" \in m.flags => f.state # "NONE"
    BY Zenon DEF Tells, Beside
  <1> QED
    BY <1>1, <1>2, <1>3, Zenon DEF Tells

(* The peer of a socket goes on, g becomes h: how far it may. *)
PeerMoves(g, h) ==
  /\ h.own = g.own /\ h.peer = g.peer /\ h.got = g.got /\ h.written = g.written
  /\ g.theirs <= h.theirs /\ g.theirs \in Nat /\ h.theirs \in Nat
  /\ h.state \in Sending => g.state \in Sending
  /\ h.state # "NONE" /\ g.state # "FREED"
  /\ h.state # "FREED" => g.received <= h.received
  /\ g.received \in Nat /\ h.received \in Nat

(* ... and so does what the socket itself has.                             *)
LEMMA PeerStreams ==
  ASSUME NEW s, NEW g, NEW h, PeerMoves(g, h), g.written \in Nat, Len(s.tx_buffer) \in Nat,
         NEW n \in Nat, n = Len(g.got \o s.rx_buffer),
         s.state # "FREED" /\ h.state \in Sending => h.acked <= n
  PROVE  /\ Streams(s, g) => Streams(s, h)
         /\ \A m : Tells(m, s, g) => Tells(m, s, h)
  <1>1. ASSUME Sender(s, g) PROVE Sender(s, h)
    <2>1. ASSUME s.state \in Sending, h.state # "FREED"
          PROVE  g.written - Len(s.tx_buffer) <= h.received
      <3> DEFINE l == Len(s.tx_buffer)
                 i == g.received
                 j == h.received
      <3>1. g.written - l <= i /\ i <= j /\ i \in Nat /\ j \in Nat /\ l \in Nat
        BY <1>1, <2>1, Zenon DEF Sender, PeerMoves
      <3> HIDE DEF l, i, j
      <3>2. g.written - l <= j
        BY <3>1
      <3> QED BY <3>2 DEF l, j
    <2> QED BY <1>1, <2>1, Zenon DEF Sender, PeerMoves
  <1>2. ASSUME Receiver(s, g), s.state # "FREED" PROVE Receiver(s, h)
    <2>1. n <= h.theirs
      <3>1. n <= g.theirs
        BY <1>2, Zenon DEF Receiver
      <3>2. g.theirs <= h.theirs /\ g.theirs \in Nat /\ h.theirs \in Nat
        BY Zenon DEF PeerMoves
      <3>3. \A i, j, k \in Nat : i <= j /\ j <= k => i <= k
        OBVIOUS
      <3> QED BY <3>1, <3>2, <3>3, Zenon
    <2>2. Len(h.got \o s.rx_buffer) = n
      BY Zenon DEF PeerMoves
    <2> QED BY <1>2, <2>1, <2>2, Zenon DEF Receiver, PeerMoves
  <1>3. ASSUME NEW m, Tells(m, s, g) PROVE Tells(m, s, h)
    BY <1>3, Zenon DEF Tells, PeerMoves
  <1> QED
    BY <1>1, <1>2, <1>3, Zenon DEF Streams
(* The states of the listener. *)
Listens == {"NONE", "LISTEN", "CLOSED", "FREED"}

(* What is in tcp_input was sent. *)
InputSent == \A h \in Hosts : input[h] # Idle => input[h].segment \in net /\ input[h].segment.to = h

(* What is beside the peer.                                                *)
LEMMA PeerIs ==
  ASSUME NEW y, NEW x, PeerOf(y) = x, NEW b
  PROVE  /\ End(y, b) =
              [own |-> b[y], peer |-> b[x], got |-> got[y], written |-> written[y],
               state |-> sock[x].state, theirs |-> written[x],
               acked |-> written[x] - Len(sock[x].tx_buffer),
               received |-> Len(got[x] \o sock[x].rx_buffer),
               before |-> sock[y].state, had |-> Len(got[y] \o sock[y].rx_buffer)]
         /\ End(y, b)' =
              [own |-> b[y], peer |-> b[x], got |-> got'[y], written |-> written'[y],
               state |-> sock'[x].state, theirs |-> written'[x],
               acked |-> written'[x] - Len(sock'[x].tx_buffer),
               received |-> Len(got'[x] \o sock'[x].rx_buffer),
               before |-> sock'[y].state, had |-> Len(got'[y] \o sock'[y].rx_buffer)]
  BY DEF End, Received

(* A step at one end, after which there is f beside it, keeps the streams. *)
LEMMA Advance ==
  ASSUME TcpIndInv, TcpIndInv', NEW b, StreamInv(b), NEW x \in Ends,
         sock[x].state \notin {"NONE", "FREED"},
         NEW f, Beside(End(x, b), f), f.got = got'[x], f.written = written'[x],
         written[x] <= written'[x], NEW y, y = PeerOf(x),
         sock'[y] = sock[y], got'[y] = got[y], written'[y] = written[y],
         Streams(sock'[x], f), Onward(sock'[x], f),
         \A m \in net' : m \in net \/ (m.to = Other(HostOf(x)) /\ Tells(m, sock'[x], f)),
         sock'[Listener].state \in Listens, InputSent'
  PROVE  StreamInv(b)'
  <1> DEFINE s == sock[x]
             r == sock'[x]
             e == End(x, b)
             e1 == End(x, b)'
             g == End(y, b)
             g1 == End(y, b)'
             p == Len(got[x] \o s.rx_buffer)
             q == Len(got'[x] \o r.rx_buffer)
             n == Len(got[y] \o sock[y].rx_buffer)
  <1>1. /\ y \in Ends /\ PeerOf(y) = x /\ x # y /\ x \in Sockets /\ y \in Sockets
        /\ Ends = {x, y} /\ Other(HostOf(y)) = HostOf(x) /\ Other(HostOf(x)) = HostOf(y)
        /\ HostOf(x) # HostOf(y)
    BY EndsAre
  <1>2. /\ e.own = b[x] /\ e.peer = b[y] /\ e.got = got[x] /\ e.written = written[x]
        /\ e.state = sock[y].state /\ e.theirs = written[y]
        /\ e.acked = written[y] - Len(sock[y].tx_buffer) /\ e.received = n
        /\ e.before = s.state /\ e.had = p
    BY EndIs
  <1>3. /\ e1.own = b[x] /\ e1.peer = b[y] /\ e1.got = got'[x] /\ e1.written = written'[x]
        /\ e1.state = sock'[y].state /\ e1.theirs = written'[y]
        /\ e1.acked = written'[y] - Len(sock'[y].tx_buffer)
        /\ e1.received = Len(got'[y] \o sock'[y].rx_buffer)
    BY EndBecomes
  <1>4. /\ g.own = b[y] /\ g.peer = b[x] /\ g.got = got[y] /\ g.written = written[y]
        /\ g.state = s.state /\ g.theirs = written[x] /\ g.received = p
    <2>1. PeerOf(y) = x
      BY <1>1
    <2>2. g = [own |-> b[y], peer |-> b[x], got |-> got[y], written |-> written[y],
               state |-> sock[x].state, theirs |-> written[x],
               acked |-> written[x] - Len(sock[x].tx_buffer),
               received |-> Len(got[x] \o sock[x].rx_buffer),
               before |-> sock[y].state, had |-> Len(got[y] \o sock[y].rx_buffer)]
      BY <2>1, PeerIs, Zenon
    <2> HIDE DEF g
    <2> QED BY <2>2
  <1>5. /\ g1.own = b[y] /\ g1.peer = b[x] /\ g1.got = got'[y] /\ g1.written = written'[y]
        /\ g1.state = r.state /\ g1.theirs = written'[x] /\ g1.received = q
        /\ g1.acked = written'[x] - Len(r.tx_buffer)
    <2>1. PeerOf(y) = x
      BY <1>1
    <2>2. g1 = [own |-> b[y], peer |-> b[x], got |-> got'[y], written |-> written'[y],
               state |-> sock'[x].state, theirs |-> written'[x],
               acked |-> written'[x] - Len(sock'[x].tx_buffer),
               received |-> Len(got'[x] \o sock'[x].rx_buffer),
               before |-> sock'[y].state, had |-> Len(got'[y] \o sock'[y].rx_buffer)]
      BY <2>1, PeerIs, Zenon
    <2> HIDE DEF g1
    <2> QED BY <2>2
  <1>6. sock'[y] = sock[y] /\ got'[y] = got[y] /\ written'[y] = written[y]
    OBVIOUS
  <1>7. p \in Nat /\ q \in Nat /\ n \in Nat
    <2>1. \A z \in Sockets : got[z] \in Seq(Int) /\ sock[z].rx_buffer \in Seq(Int)
      BY DEF TcpIndInv, TcpTypeOK, Socket
    <2>2. \A z \in Sockets : got'[z] \in Seq(Int) /\ sock'[z].rx_buffer \in Seq(Int)
      BY DEF TcpIndInv, TcpTypeOK, Socket
    <2> QED BY <1>1, <2>1, <2>2, ConcatProperties, LenProperties
  <1>8. /\ written[x] \in Nat /\ written'[x] \in Nat /\ written[y] \in Nat
        /\ Len(sock[y].tx_buffer) \in Nat /\ b \in [Ends -> Num]
    <2>1. sock[y].tx_buffer \in Seq(Int)
      BY <1>1 DEF TcpIndInv, TcpTypeOK, Socket
    <2> QED
      BY <1>1, <2>1, LenProperties DEF TcpIndInv, TcpTypeOK, StreamInv
  <1>9. \A m \in net : Len(m.data) \in Nat
    <2>1. \A m \in net : m.data \in Seq(Int)
      BY DEF TcpIndInv, TcpTypeOK, Segment
    <2> QED BY <2>1, LenProperties
  <1>10. /\ Streams(s, e) /\ Streams(sock[y], g)
         /\ \A m \in net : m.to = HostOf(y) => Tells(m, s, e)
         /\ \A m \in net : m.to = HostOf(x) => Tells(m, sock[y], g)
    BY <1>1, Zenon DEF StreamInv
  <1> HIDE DEF e, e1, g, g1, p, q, n
  <1>11. Streams(r, f) /\ Onward(r, f) /\ Beside(e, f)
         /\ \A m \in net' : m \in net \/ (m.to = HostOf(y) /\ Tells(m, r, f))
    BY <1>1, Zenon DEF e
  <1> HIDE DEF r, s
  <1>12. SameEnd(f, e1)
    BY <1>2, <1>3, <1>6, <1>11, Zenon DEF SameEnd, Beside, n
  <1>13. r.state # "NONE" /\ (r.state \in Sending => s.state \in Sending)
         /\ (r.state # "FREED" => p <= q) /\ s.state # "FREED"
    BY <1>2, <1>11, Zenon DEF Onward, Beside, q, s, r
  <1>14. Streams(r, e1)
    BY <1>11, <1>12, SameEndStreams
  <1>15. ASSUME NEW m \in net', m.to = HostOf(y) PROVE Tells(m, r, e1)
    <2>1. Tells(m, r, f)
      <3>1. CASE m \in net
        <4>1. Tells(m, s, e)
          BY <1>10, <1>15, <3>1
        <4>2. p = Len(e.got \o s.rx_buffer) /\ q = Len(f.got \o r.rx_buffer)
          BY <1>2, Zenon DEF p, q, r, s
        <4>3. e.written \in Nat /\ f.written \in Nat /\ e.written <= f.written
          BY <1>2, <1>8
        <4>4. Len(m.data) \in Nat
          BY <1>9, <3>1
        <4> QED
          BY <1>7, <1>11, <1>13, <4>1, <4>2, <4>3, <4>4, TellsOn
      <3>2. CASE m \notin net
        BY <1>11, <3>2
      <3> QED BY <3>1, <3>2
    <2> QED BY <1>12, <2>1, SameEndStreams
  <1>16. PeerMoves(g, g1)
    BY <1>4, <1>5, <1>6, <1>7, <1>8, <1>13, Zenon DEF PeerMoves
  <1>17. sock[y].state # "FREED" /\ g1.state \in Sending => g1.acked <= n
    <2> SUFFICES ASSUME sock[y].state # "FREED", g1.state \in Sending PROVE g1.acked <= n
      OBVIOUS
    <2>1. r.state \in Sending
      BY <1>5
    <2>2. r.state # "FREED"
      BY <2>1 DEF Sending, Writable
    <2>3. f.state = sock[y].state /\ f.received = n
      BY <1>2, <1>11, Zenon DEF Beside
    <2>4. Sender(r, f)
      BY <1>11, <2>2 DEF Streams
    <2>5. f.written - Len(r.tx_buffer) <= f.received
      BY <2>1, <2>3, <2>4, Zenon DEF Sender
    <2> QED BY <1>5, <2>3, <2>5, Zenon DEF r
  <1>18. n = Len(g.got \o sock[y].rx_buffer)
    BY <1>4, Zenon DEF n
  <1>19. g.written \in Nat
    BY <1>4, <1>8
  <1>20. /\ Streams(sock[y], g1)
         /\ \A m : Tells(m, sock[y], g) => Tells(m, sock[y], g1)
    <2>1. /\ Streams(sock[y], g) => Streams(sock[y], g1)
          /\ \A m : Tells(m, sock[y], g) => Tells(m, sock[y], g1)
      <3> DEFINE u == sock[y]
      <3>1. Len(u.tx_buffer) \in Nat /\ n = Len(g.got \o u.rx_buffer)
            /\ (u.state # "FREED" /\ g1.state \in Sending => g1.acked <= n)
        BY <1>8, <1>17, <1>18
      <3> HIDE DEF u
      <3>2. /\ Streams(u, g) => Streams(u, g1)
            /\ \A m : Tells(m, u, g) => Tells(m, u, g1)
        BY <1>7, <1>16, <1>19, <3>1, PeerStreams
      <3> QED BY <3>2 DEF u
    <2> QED BY <1>10, <2>1
  <1>21. ASSUME NEW m \in net', m.to = HostOf(x) PROVE Tells(m, sock[y], g1)
    <2>1. m \in net
      BY <1>1, <1>11, <1>21
    <2> QED BY <1>10, <1>20, <1>21, <2>1
  <1>22. ASSUME NEW z \in Ends
         PROVE  /\ Streams(sock'[z], End(z, b)')
                /\ \A m \in net' : m.to = Other(HostOf(z)) => Tells(m, sock'[z], End(z, b)')
    <2>1. CASE z = x
      BY <1>1, <1>14, <1>15, <2>1, Zenon DEF e1, r
    <2>2. CASE z = y
      BY <1>1, <1>6, <1>20, <1>21, <2>2, Zenon DEF g1
    <2> QED BY <1>1, <2>1, <2>2
  <1> QED
    BY <1>8, <1>22 DEF StreamInv, Listens, InputSent

(* A step that changes neither end, and sends nothing but resets.          *)
LEMMA Still ==
  ASSUME NEW b, StreamInv(b), \A x \in Ends : sock'[x] = sock[x], UNCHANGED <<got, written>>,
         \A m \in net' : m \in net \/ \E h : m = Reset(h),
         sock'[Listener].state \in Listens, InputSent'
  PROVE  StreamInv(b)'
  <1>1. ASSUME NEW x \in Ends
        PROVE  /\ Streams(sock'[x], End(x, b)')
               /\ \A m \in net' : m.to = Other(HostOf(x)) => Tells(m, sock'[x], End(x, b)')
    <2>1. PeerOf(x) \in Ends
      BY EndsAre
    <2>2. End(x, b)' = End(x, b) /\ sock'[x] = sock[x]
      BY <2>1 DEF End, Received
    <2>3. Streams(sock[x], End(x, b))
          /\ \A m \in net : m.to = Other(HostOf(x)) => Tells(m, sock[x], End(x, b))
      BY DEF StreamInv
    <2>4. ASSUME NEW m \in net', m.to = Other(HostOf(x)) PROVE Tells(m, sock[x], End(x, b))
      BY <2>3, <2>4, ResetTells
    <2> QED BY <2>2, <2>3, <2>4
  <1>2. b \in [Ends -> Num]
    BY DEF StreamInv
  <1> QED
    BY <1>1, <1>2 DEF StreamInv, Listens, InputSent
(* A socket that somebody holds, has or finds is neither new nor freed.    *)
LEMMA InUse ==
  ASSUME TcpIndInv, NEW x \in Sockets,
         \/ Others(x) > 0
         \/ user[x] = "open"
         \/ sock[x].listed
         \/ sock[x].timers # {}
         \/ sock[x].state \notin {"NONE", "FREED"}
  PROVE  /\ Sound(sock[x], Context(x), Others(x)) /\ Acknowledges(sock[x], Context(x), net)
         /\ sock[x].state \notin {"NONE", "FREED"} /\ sock[x] \in Socket
  <1>1. Sound(sock[x], Context(x), Others(x)) /\ Acknowledges(sock[x], Context(x), net)
    BY Present DEF TcpIndInv
  <1> QED
    BY <1>1 DEF Sound, Closes, Balanced

(* Segments stay in the network, also those in tcp_input.                  *)
LEMMA InputKept ==
  ASSUME NEW b, StreamInv(b), net \subseteq net',
         \A h \in Hosts : input'[h] = input[h] \/ input'[h] = Idle
  PROVE  InputSent'
  BY DEF StreamInv, InputSent

(* A step at one end only.                                                 *)
LEMMA EndStep ==
  ASSUME TcpIndInv, TcpIndInv', NEW b, StreamInv(b), NEW x \in Ends,
         sock[x].state \notin {"NONE", "FREED"},
         NEW f, Beside(End(x, b), f), f.got = got'[x], f.written = written'[x],
         written[x] <= written'[x],
         \A y \in Sockets \ {x} : sock'[y] = sock[y] /\ got'[y] = got[y] /\ written'[y] = written[y],
         Streams(sock'[x], f), Onward(sock'[x], f),
         NEW M, net' = net \cup M, \A m \in M : m.to = Other(HostOf(x)) /\ Tells(m, sock'[x], f),
         InputSent'
  PROVE  StreamInv(b)'
  <1>1. PICK y \in Ends : /\ y = PeerOf(x) /\ y # x /\ y \in Sockets /\ x # Listener
    BY EndsAre
  <1>2. sock'[y] = sock[y] /\ got'[y] = got[y] /\ written'[y] = written[y]
        /\ sock'[Listener] = sock[Listener]
    BY <1>1 DEF Sockets
  <1>3. sock'[Listener].state \in Listens
    BY <1>2 DEF StreamInv, Listens
  <1>4. \A m \in net' : m \in net \/ (m.to = Other(HostOf(x)) /\ Tells(m, sock'[x], f))
    OBVIOUS
  <1> QED
    BY <1>1, <1>2, <1>3, <1>4, Advance

(* A step that touches only references, timers and events of one end, or   *)
(* frees it.                                                               *)
LEMMA Lightly ==
  ASSUME TcpIndInv, TcpIndInv', NEW b, StreamInv(b), NEW x \in Ends,
         sock[x].state \notin {"NONE", "FREED"}, UNCHANGED <<got, written, net>>,
         \A y \in Sockets \ {x} : sock'[y] = sock[y],
         Alike(sock[x], sock'[x]) \/ sock'[x].state = "FREED", InputSent'
  PROVE  StreamInv(b)'
  <1> DEFINE e == End(x, b)
  <1>1. Streams(sock[x], e) /\ Onward(sock[x], e) /\ Placed(e)
    BY StartsGood
  <1>2. e.got = got[x] /\ e.written = written[x] /\ e.written \in Nat
    BY <1>1, EndIs DEF Placed
  <1> HIDE DEF e
  <1>3. Streams(sock'[x], e) /\ Onward(sock'[x], e)
    <2>1. CASE Alike(sock[x], sock'[x])
      BY <1>1, <2>1, AlikeStreams
    <2>2. CASE sock'[x].state = "FREED"
      BY <2>2 DEF Streams, Onward, Sending, Writable
    <2> QED BY <2>1, <2>2
  <1> DEFINE none == {}
  <1>4. Beside(e, e) /\ net' = net \cup none /\ e.got = got'[x] /\ e.written = written'[x]
    BY <1>2 DEF Beside
  <1>5. written[x] <= written'[x]
    BY <1>2
  <1>6. \A y \in Sockets \ {x} : sock'[y] = sock[y] /\ got'[y] = got[y] /\ written'[y] = written[y]
    OBVIOUS
  <1>7. \A m \in none : m.to = Other(HostOf(x)) /\ Tells(m, sock'[x], e)
    OBVIOUS
  <1> HIDE DEF none
  <1>8. Beside(End(x, b), e)
    BY <1>4 DEF e
  <1> QED
    BY <1>3, <1>4, <1>5, <1>6, <1>7, <1>8, EndStep

(* A step at the listener.                                                 *)
LEMMA ListenerStep ==
  ASSUME NEW b, StreamInv(b), UNCHANGED <<got, written>>,
         \A y \in Sockets \ {Listener} : sock'[y] = sock[y],
         \A m \in net' : m \in net \/ \E h : m = Reset(h),
         sock'[Listener].state \in Listens, InputSent'
  PROVE  StreamInv(b)'
  <1>1. \A x \in Ends : sock'[x] = sock[x]
    <2>1. \A x \in Ends : x \in Sockets \ {Listener}
      BY EndsAre
    <2> QED BY <2>1
  <1> QED
    BY <1>1, Still

(* One socket is an end, or the listener.                                  *)
LEMMA WhichSocket ==
  ASSUME NEW x \in Sockets
  PROVE  x \in Ends \/ x = Listener
  BY DEF Sockets, Ends

(* A step that only changes references, timers or events of one socket.    *)
LEMMA LightStep ==
  ASSUME TcpIndInv, TcpIndInv', NEW b, StreamInv(b), NEW x \in Sockets,
         sock[x].state \notin {"NONE", "FREED"}, UNCHANGED <<got, written, net>>,
         NEW r, sock' = [sock EXCEPT ![x] = r],
         Alike(sock[x], r) \/ r.state = "FREED", InputSent'
  PROVE  StreamInv(b)'
  <1>1. sock'[x] = r /\ \A y \in Sockets \ {x} : sock'[y] = sock[y]
    BY DEF TcpIndInv, TcpTypeOK
  <1>2. CASE x \in Ends
    BY <1>1, <1>2, Lightly
  <1>3. CASE x = Listener
    <2>1. sock[x].state \in Listens
      BY <1>3 DEF StreamInv, Listens
    <2>2. sock'[Listener].state \in Listens
      BY <1>1, <1>3, <2>1 DEF Alike, Listens
    <2>3. \A m \in net' : m \in net \/ \E h : m = Reset(h)
      OBVIOUS
    <2> QED BY <1>1, <1>3, <2>2, <2>3, ListenerStep
  <1> QED
    BY <1>2, <1>3, WhichSocket

(* tcp_read and tcp_write when they begin, and tcp_accept.                 *)
LEMMA CallStream ==
  ASSUME TcpIndInv, TcpIndInv', NEW b, StreamInv(b),
         \/ \E x \in Sockets : tcp_read(x) \/ \E len \in 1 .. Bytes(x) : tcp_write(x, len)
         \/ tcp_accept
  PROVE  StreamInv(b)'
  <1>1. PICK x \in Sockets :
          /\ user[x] = "open" /\ sock' = [sock EXCEPT ![x] = inc_socket_ref(sock[x])]
          /\ UNCHANGED <<got, written, net, input>>
    <2>1. CASE \E x \in Sockets : tcp_read(x) \/ \E len \in 1 .. Bytes(x) : tcp_write(x, len)
      BY <2>1 DEF tcp_read, tcp_write
    <2>2. CASE tcp_accept
      <3>1. Listener \in Sockets BY DEF Sockets
      <3> QED BY <2>2, <3>1 DEF tcp_accept
    <2> QED BY <2>1, <2>2
  <1>2. sock[x].state \notin {"NONE", "FREED"} /\ sock[x] \in Socket
    BY <1>1, InUse
  <1>3. Alike(sock[x], inc_socket_ref(sock[x]))
    BY <1>2, TimersAlike
  <1>4. InputSent'
    BY <1>1, InputKept
  <1> QED
    BY <1>1, <1>2, <1>3, <1>4, LightStep

(* tcp_input up to the lock.                                               *)
LEMMA InputStream ==
  ASSUME TcpIndInv, TcpIndInv', NEW b, StreamInv(b), NEW m \in net, tcp_input(m)
  PROVE  StreamInv(b)'
  <1> DEFINE h == m.to
             x == lookup_socket(h)
  <1>1. h \in Hosts /\ UNCHANGED <<got, written>>
    BY DEF tcp_input, TcpIndInv, TcpTypeOK, Segment
  <1>2. CASE x = NULL
    <2>1. net' = net \cup {Reset(Other(h))} /\ sock' = sock /\ input' = input
      BY <1>2 DEF tcp_input
    <2>2. InputSent'
      BY <2>1, InputKept
    <2>3. sock'[Listener].state \in Listens
      BY <2>1 DEF StreamInv, Listens
    <2>4. \A q \in net' : q \in net \/ \E g : q = Reset(g)
      BY <2>1
    <2> QED BY <1>1, <2>1, <2>2, <2>3, <2>4, ListenerStep
  <1>3. CASE x # NULL
    <2>1. x \in Sockets /\ HostOf(x) = h /\ sock[x].listed
      BY <1>3, Found
    <2>2. /\ sock' = [sock EXCEPT ![x] = inc_socket_ref(sock[x])] /\ net' = net
          /\ input' = [input EXCEPT ![h] = [socket |-> x, segment |-> m]]
      BY <1>3 DEF tcp_input
    <2> HIDE DEF x, h
    <2>3. sock[x].state \notin {"NONE", "FREED"} /\ sock[x] \in Socket
      BY <2>1, InUse
    <2>4. Alike(sock[x], inc_socket_ref(sock[x]))
      BY <2>3, TimersAlike
    <2>5. InputSent'
      <3>1. input'[h] = [socket |-> x, segment |-> m] /\ \A g \in Hosts \ {h} : input'[g] = input[g]
        BY <1>1, <2>2 DEF TcpIndInv, TcpTypeOK
      <3>2. input'[h].segment = m /\ m.to = h
        BY <3>1 DEF h
      <3>3. \A g \in Hosts : input[g] # Idle => input[g].segment \in net /\ input[g].segment.to = g
        BY DEF StreamInv
      <3> QED BY <2>2, <3>1, <3>2, <3>3 DEF InputSent
    <2>6. \E s \in Sockets : s = x
      BY <2>1
    <2>7. PICK s \in Sockets : s = x
      BY <2>6
    <2> QED BY <1>1, <2>2, <2>3, <2>4, <2>5, <2>7, LightStep
  <1> QED
    BY <1>2, <1>3

(* A timer leaves the list.                                                *)
LEMMA TimerStream ==
  ASSUME TcpIndInv, TcpIndInv', NEW b, StreamInv(b), NEW x \in Sockets, NEW timer \in Timers,
         net_timer_work_routine(x, timer)
  PROVE  StreamInv(b)'
  <1> DEFINE r == [sock[x] EXCEPT !.timers = sock[x].timers \ {timer}]
  <1>1. /\ timer \in sock[x].timers /\ sock' = [sock EXCEPT ![x] = r]
        /\ UNCHANGED <<got, written, net, input>>
    BY DEF net_timer_work_routine
  <1>2. sock[x].state \notin {"NONE", "FREED"} /\ sock[x] \in Socket
    BY <1>1, InUse
  <1>3. Alike(sock[x], r)
    BY <1>2, Zenon DEF Alike, Fits, Socket
  <1>4. InputSent'
    BY <1>1, InputKept
  <1> HIDE DEF r
  <1> QED
    BY <1>1, <1>2, <1>3, <1>4, LightStep

(* tcp_open_listen, and the returns of tcp_connect and tcp_accept.         *)
LEMMA ListenStream ==
  ASSUME TcpIndInv, NEW b, StreamInv(b),
         tcp_open_listen \/ tcp_connect_returns \/ tcp_accept_returns
  PROVE  StreamInv(b)'
  <1>1. UNCHANGED <<net, input, got, written>>
    BY DEF tcp_open_listen, tcp_connect_returns, tcp_accept_returns, connvars
  <1>2. PICK r : /\ sock' = [sock EXCEPT ![Listener] = r]
                 /\ r = sock[Listener] \/ r = Made("LISTEN", 0) \/ r = dec_socket_ref(sock[Listener])
    <2>1. CASE tcp_open_listen
      BY <2>1 DEF tcp_open_listen, Made
    <2>2. CASE tcp_connect_returns
      <3>1. sock' = sock
        BY <2>2 DEF tcp_connect_returns, connvars
      <3>2. sock = [sock EXCEPT ![Listener] = sock[Listener]]
        BY DEF TcpIndInv, TcpTypeOK
      <3> QED BY <3>1, <3>2
    <2>3. CASE tcp_accept_returns
      BY <2>3 DEF tcp_accept_returns
    <2> QED BY <2>1, <2>2, <2>3
  <1>3. sock[Listener].state \in Listens /\ sock[Listener] \in Socket /\ Listener \in Sockets
    BY DEF StreamInv, Listens, TcpIndInv, TcpTypeOK, Sockets
  <1>4. r.state \in Listens
    <2>1. Made("LISTEN", 0).state = "LISTEN"
      BY DEF Made, create_tcp_socket, Unallocated
    <2>2. dec_socket_ref(sock[Listener]).state \in Listens
      <3>1. Alike(sock[Listener], dec_socket_ref(sock[Listener]))
            \/ dec_socket_ref(sock[Listener]).state = "FREED"
        BY <1>3, TimersAlike
      <3> QED BY <1>3, <3>1 DEF Alike, Listens
    <2> QED BY <1>2, <1>3, <2>1, <2>2 DEF Listens
  <1>5. sock'[Listener] = r /\ \A y \in Sockets \ {Listener} : sock'[y] = sock[y]
    BY <1>2, <1>3 DEF TcpIndInv, TcpTypeOK
  <1>6. InputSent'
    BY <1>1, InputKept
  <1>7. \A m \in net' : m \in net \/ \E h : m = Reset(h)
    BY <1>1
  <1> QED
    BY <1>1, <1>4, <1>5, <1>6, <1>7, ListenerStep

(* A step under the lock of one end.                                       *)
LEMMA WorldStep ==
  ASSUME TcpIndInv, TcpIndInv', NEW b, StreamInv(b), NEW x \in Ends,
         sock[x].state \notin {"NONE", "FREED"},
         NEW f, Placed(f), Beside(End(x, b), f), f.got = got'[x], f.written = written'[x],
         written[x] <= written'[x],
         \A y \in Sockets \ {x} : got'[y] = got[y] /\ written'[y] = written[y],
         NEW v, Good(v, f), Aimed(v, Other(HostOf(x))), NEW r \in {v.s, dec_socket_ref(v.s)},
         sock' = [sock EXCEPT ![x] = r], net' = net \cup v.out, InputSent'
  PROVE  StreamInv(b)'
  <1>1. x \in Sockets
    BY EndsAre
  <1>2. sock'[x] = r /\ \A y \in Sockets \ {x} : sock'[y] = sock[y]
    BY <1>1 DEF TcpIndInv, TcpTypeOK
  <1>3. Streams(r, f) /\ Onward(r, f) /\ \A m \in v.out : Tells(m, r, f)
    BY DropGood DEF Good
  <1>4. \A m \in v.out : m.to = Other(HostOf(x))
    BY DEF Aimed
  <1>5. \A y \in Sockets \ {x} : sock'[y] = sock[y] /\ got'[y] = got[y] /\ written'[y] = written[y]
    BY <1>2
  <1>6. \A m \in v.out : m.to = Other(HostOf(x)) /\ Tells(m, sock'[x], f)
    BY <1>2, <1>3, <1>4
  <1> DEFINE M == v.out
  <1>7. net' = net \cup M /\ \A m \in M : m.to = Other(HostOf(x)) /\ Tells(m, sock'[x], f)
    BY <1>6
  <1>8. Streams(sock'[x], f) /\ Onward(sock'[x], f)
    BY <1>2, <1>3
  <1> HIDE DEF M
  <1> QED
    BY <1>5, <1>7, <1>8, EndStep

(* The same, with nothing read or written.                                 *)
LEMMA LockStep ==
  ASSUME TcpIndInv, TcpIndInv', NEW b, StreamInv(b), NEW x \in Ends,
         sock[x].state \notin {"NONE", "FREED"}, UNCHANGED <<got, written>>,
         NEW v, Good(v, End(x, b)), Aimed(v, Other(HostOf(x))),
         sock' = [sock EXCEPT ![x] = dec_socket_ref(v.s)], net' = net \cup v.out, InputSent'
  PROVE  StreamInv(b)'
  <1> DEFINE e == End(x, b)
             r == dec_socket_ref(v.s)
  <1>1. Placed(e) /\ e.got = got[x] /\ e.written = written[x]
    BY EndPlaced, EndIs
  <1>2. written[x] <= written'[x]
    <2>1. written[x] \in Nat
      BY <1>1 DEF Placed
    <2> QED BY <2>1
  <1>3. Beside(e, e)
    BY DEF Beside
  <1>4. Good(v, e) /\ Beside(End(x, b), e)
    BY <1>3
  <1>5. r \in {v.s, dec_socket_ref(v.s)} /\ sock' = [sock EXCEPT ![x] = r]
    OBVIOUS
  <1>6. e.got = got'[x] /\ e.written = written'[x]
    BY <1>1
  <1> HIDE DEF e, r
  <1> QED
    BY <1>1, <1>2, <1>4, <1>5, <1>6, WorldStep

(* The listener sends nothing but resets, and only listens.                *)
LEMMA ListenerHandles ==
  ASSUME NEW s \in Socket, s.state \in Listens, s.state \notin {"NONE", "FREED"}, NEW m
  PROVE  LET w == World(Listener, s)
             v == Handle(w, m)
         IN  v.s = s /\ \A q \in v.out : \E h : q = Reset(h)
  <1> DEFINE w == World(Listener, s)
  <1>1. w.s = s /\ w.out = {}
    BY DEF World
  <1>2. w = [s |-> s, remote |-> w.remote, out |-> {}, fault |-> "none"]
    BY DEF World
  <1>3. s.state \in {"LISTEN", "CLOSED"}
    BY DEF Listens
  <1> HIDE DEF w
  <1>4. CASE "RST" \in m.flags
    <2>1. s.state = "CLOSED" => tcp_remote_close(s) = s
      BY DEF tcp_remote_close
    <2>2. Handle(w, m) = w \/ Handle(w, m) = [w EXCEPT !.s = s]
      BY <1>1, <1>3, <1>4, <2>1 DEF Handle
    <2>3. [w EXCEPT !.s = s] = w
      BY <1>2
    <2> QED BY <1>1, <2>2, <2>3 DEF w
  <1>5. CASE "RST" \notin m.flags
    <2>1. Handle(w, m) = send_reset(w)
      BY <1>1, <1>3, <1>5 DEF Handle
    <2>2. send_reset(w).s = s /\ send_reset(w).out = {Reset(w.remote)}
      BY <1>1, <1>2 DEF send_reset
    <2> QED BY <2>1, <2>2 DEF w
  <1> QED
    BY <1>4, <1>5

(* What a reference less does to the listener.                             *)
LEMMA ListenerDrops ==
  ASSUME NEW s \in Socket, s.state \in Listens
  PROVE  dec_socket_ref(s).state \in Listens
  <1>1. Alike(s, dec_socket_ref(s)) \/ dec_socket_ref(s).state = "FREED"
    BY TimersAlike
  <1> QED BY <1>1 DEF Alike, Listens

(* tcp_input under the lock.                                               *)
LEMMA HandleStream ==
  ASSUME TcpIndInv, TcpIndInv', NEW b, StreamInv(b), NEW h \in Hosts, tcp_input_handles(h)
  PROVE  StreamInv(b)'
  <1>1. TcpTypeOK
    BY DEF TcpIndInv
  <1>2. PICK x \in Sockets, m \in Segment :
          input[h].socket = x /\ input[h].segment = m /\ HostOf(x) = h
    <2>1. input[h] \in [socket : Sockets, segment : Segment] /\ HostOf(input[h].socket) = h
      BY <1>1 DEF TcpTypeOK, tcp_input_handles
    <2>2. input[h].socket \in Sockets /\ input[h].segment \in Segment
      BY <2>1
    <2> QED BY <2>1, <2>2
  <1>3. m \in net /\ m.to = h
    <2>1. input[h] # Idle
      BY DEF tcp_input_handles
    <2> QED BY <1>2, <2>1 DEF StreamInv
  <1> DEFINE w0 == World(x, sock[x])
  <1>4. PICK w : /\ w \in {w0, Handle(w0, m)}
                 /\ sock' = [sock EXCEPT ![x] = dec_socket_ref(w.s)] /\ net' = net \cup w.out
    <2> DEFINE v == IF x = Listener /\ sock[x].state = "LISTEN" /\ "SYN" \in m.flags
                    THEN w0 ELSE Handle(w0, m)
    <2>1. sock' = [sock EXCEPT ![x] = dec_socket_ref(v.s)] /\ net' = net \cup v.out
      BY <1>2 DEF tcp_input_handles
    <2>2. v \in {w0, Handle(w0, m)}
      BY Zenon
    <2> HIDE DEF v
    <2> QED BY <2>1, <2>2
  <1>5. input' = [input EXCEPT ![h] = Idle] /\ UNCHANGED <<written, got>>
    BY DEF tcp_input_handles
  <1> HIDE DEF w0
  <1>6. sock'[x] = dec_socket_ref(w.s)
        /\ \A y \in Sockets \ {x} : sock'[y] = sock[y]
    BY <1>1, <1>4 DEF TcpTypeOK
  <1>7. InputSent'
    <2>1. \A g \in Hosts : input'[g] = input[g] \/ input'[g] = Idle
      BY <1>1, <1>5 DEF TcpTypeOK
    <2>2. net \subseteq net'
      BY <1>4
    <2> QED BY <2>1, <2>2, InputKept
  <1>8. Others(x) > 0
    BY <1>2 DEF Others, One
  <1>9. Sound(sock[x], Context(x), Others(x)) /\ Acknowledges(sock[x], Context(x), net)
        /\ sock[x].state \notin {"NONE", "FREED"} /\ sock[x] \in Socket
    BY <1>8, InUse
  <1>10. CASE x \in Ends
    <2> DEFINE e == End(x, b)
               c == Context(x)
               k == Others(x)
    <2>1. In(w0, c, k, net) /\ k \in Nat /\ k > 0
      BY <1>8, <1>9, Locked, OthersNat DEF w0
    <2>2. Placed(e) /\ Good(w0, e) /\ Aimed(w0, Other(HostOf(x)))
      BY <1>9, <1>10, StartsGood DEF w0
    <2>3. e.written = c.written
      <3>1. e.written = written[x]
        BY EndIs
      <3>2. c.written = written[x]
        BY ContextIs
      <3> QED BY <3>1, <3>2, Zenon
    <2>4. Heard(m, e)
      BY <1>2, <1>3, <1>10, NetHeard
    <2> HIDE DEF e, c, k
    <2>5. Good(w, e)
      BY <1>4, <2>1, <2>2, <2>3, <2>4, HandleGood
    <2>6. Aimed(w, Other(HostOf(x)))
      BY <1>4, <2>2, AimedHandle
    <2> QED BY <1>4, <1>5, <1>7, <1>9, <1>10, <2>5, <2>6, LockStep DEF e
  <1>11. CASE x = Listener
    <2>1. sock[Listener].state \in Listens
      BY DEF StreamInv, Listens
    <2>2. w.s = sock[x] /\ \A q \in w.out : \E g : q = Reset(g)
      <3>1. CASE w = w0
        BY <3>1 DEF w0, World
      <3>2. CASE w = Handle(w0, m)
        BY <1>9, <1>11, <2>1, <3>2, ListenerHandles DEF w0
      <3> QED BY <1>4, <3>1, <3>2
    <2>3. sock'[Listener].state \in Listens
      BY <1>6, <1>9, <1>11, <2>1, <2>2, ListenerDrops
    <2>4. \A q \in net' : q \in net \/ \E g : q = Reset(g)
      BY <1>4, <2>2
    <2> QED BY <1>5, <1>6, <1>7, <1>11, <2>3, <2>4, ListenerStep
  <1> QED
    BY <1>10, <1>11, WhichSocket

(* What a timer of the listener would do.                                  *)
LEMMA ListenerTimers ==
  ASSUME NEW s \in Socket, s.state \in Listens, NEW x, NEW w, w = World(x, s),
         NEW v \in {send_ack(w), handle_retransmit_timeout(w), handle_time_wait_timeout(w)}
  PROVE  v.s = s /\ v.out = {}
  <1>1. w.s = s /\ w.out = {}
    BY DEF World
  <1>2. w = [s |-> s, remote |-> w.remote, out |-> {}, fault |-> w.fault]
    BY DEF World
  <1>3. v = w \/ v = [w EXCEPT !.fault = "state == STATE_TIME_WAIT"]
    BY <1>1 DEF send_ack, handle_retransmit_timeout, handle_time_wait_timeout, Listens
  <1> QED
    BY <1>1, <1>2, <1>3

(* The callback of a timer.                                                *)
LEMMA CallbackStream ==
  ASSUME TcpIndInv, TcpIndInv', NEW b, StreamInv(b), NEW h \in Hosts, Callback(h)
  PROVE  StreamInv(b)'
  <1>1. TcpTypeOK
    BY DEF TcpIndInv
  <1>2. PICK x \in Sockets, t \in Timers : firing[h] = [socket |-> x, timer |-> t] /\ HostOf(x) = h
    <2>1. firing[h] \in [socket : Sockets, timer : Timers] /\ HostOf(firing[h].socket) = h
      BY <1>1 DEF TcpTypeOK, Callback
    <2>2. firing[h] = [socket |-> firing[h].socket, timer |-> firing[h].timer]
          /\ firing[h].socket \in Sockets /\ firing[h].timer \in Timers
      BY <2>1
    <2> QED BY <2>1, <2>2
  <1>3. firing[h].socket = x /\ firing[h].timer = t
    BY <1>2
  <1> DEFINE w0 == World(x, sock[x])
             w == CASE t = "ack"        -> send_ack(w0)
                    [] t = "retransmit" -> handle_retransmit_timeout(w0)
                    [] t = "time_wait"  -> handle_time_wait_timeout(w0)
  <1>4. /\ sock' = [sock EXCEPT ![x] = dec_socket_ref(w.s)] /\ net' = net \cup w.out
        /\ firing' = [firing EXCEPT ![h] = Idle] /\ UNCHANGED <<input, user, written, got>>
    BY <1>3 DEF Callback, Calls
  <1>5. \/ t = "ack" /\ w = send_ack(w0)
        \/ t = "retransmit" /\ w = handle_retransmit_timeout(w0)
        \/ t = "time_wait" /\ w = handle_time_wait_timeout(w0)
    <2> HIDE DEF w0
    <2>1. CASE t = "ack"
      BY <2>1
    <2>2. CASE t = "retransmit"
      BY <2>2
    <2>3. CASE t = "time_wait"
      BY <2>3
    <2> QED BY <2>1, <2>2, <2>3 DEF Timers
  <1> HIDE DEF w0, w
  <1>6. sock'[x] = dec_socket_ref(w.s)
        /\ \A y \in Sockets \ {x} : sock'[y] = sock[y]
    BY <1>1, <1>4 DEF TcpTypeOK
  <1>7. InputSent'
    BY <1>4, InputKept
  <1>8. Others(x) > 0
    BY <1>2, <1>3 DEF Others, One
  <1>9. Sound(sock[x], Context(x), Others(x)) /\ Acknowledges(sock[x], Context(x), net)
        /\ sock[x].state \notin {"NONE", "FREED"} /\ sock[x] \in Socket
    BY <1>8, InUse
  <1>10. CASE x \in Ends
    <2> DEFINE e == End(x, b)
               c == Context(x)
               d == Context(x)'
               k == Others(x)
    <2>1. In(w0, c, k, net) /\ k \in Nat /\ k > 0
      BY <1>8, <1>9, Locked, OthersNat DEF w0
    <2>2. Placed(e) /\ Good(w0, e) /\ Aimed(w0, Other(HostOf(x)))
      BY <1>9, <1>10, StartsGood DEF w0
    <2>3. e.written = c.written
      <3>1. e.written = written[x]
        BY EndIs
      <3>2. c.written = written[x]
        BY ContextIs
      <3> QED BY <3>1, <3>2, Zenon
    <2>4. Over(c, d, t)
      <3>1. Due(x) = {t}
        BY <1>2, DueIs
      <3>2. firing'[HostOf(x)].socket # x
        <4>1. firing'[h] = Idle
          BY <1>1, <1>4 DEF TcpTypeOK
        <4> QED BY <1>2, <4>1, Constants DEF Idle
      <3>3. Due(x)' = {}
        BY <3>2 DEF Due
      <3> QED BY <1>4, <3>1, <3>3 DEF Context, Over
    <2> HIDE DEF e, c, d, k
    <2>5. Good(w, e)
      <3>1. CASE t = "ack" /\ w = send_ack(w0)
        BY <2>1, <2>2, <3>1, SendAckGood DEF In
      <3>2. CASE t = "retransmit" /\ w = handle_retransmit_timeout(w0)
        BY <2>1, <2>2, <2>3, <2>4, <3>2, RetransmitGood
      <3>3. CASE t = "time_wait" /\ w = handle_time_wait_timeout(w0)
        BY <2>1, <2>2, <2>4, <3>3, TimeWaitEndGood
      <3> QED BY <1>5, <3>1, <3>2, <3>3
    <2>6. Aimed(w, Other(HostOf(x)))
      BY <1>5, <2>2, AimedSend, AimedTimers
    <2> QED BY <1>4, <1>7, <1>9, <1>10, <2>5, <2>6, LockStep DEF e
  <1>11. CASE x = Listener
    <2>1. sock[x].state \in Listens
      BY <1>11 DEF StreamInv, Listens
    <2>2. w.s = sock[x] /\ w.out = {}
      <3>1. w \in {send_ack(w0), handle_retransmit_timeout(w0), handle_time_wait_timeout(w0)}
        BY <1>5
      <3>2. w0 = World(x, sock[x])
        BY DEF w0
      <3> QED BY <1>9, <2>1, <3>1, <3>2, ListenerTimers
    <2>3. sock'[Listener].state \in Listens
      BY <1>6, <1>9, <1>11, <2>1, <2>2, ListenerDrops
    <2>4. \A q \in net' : q \in net \/ \E g : q = Reset(g)
      BY <1>4, <2>2
    <2> QED BY <1>4, <1>6, <1>7, <1>11, <2>3, <2>4, ListenerStep
  <1> QED
    BY <1>10, <1>11, WhichSocket

(* tcp_close.                                                              *)
LEMMA CloseStream ==
  ASSUME TcpIndInv, TcpIndInv', NEW b, StreamInv(b), NEW x \in Sockets, tcp_close(x)
  PROVE  StreamInv(b)'
  <1> DEFINE s == sock[x]
             c == Context(x)
             d == Context(x)'
             k == Others(x)
             t == inc_socket_ref(s)
             w == World(x, t)
             v == Closing(w)
             r == IF v.fault # "none" THEN dec_socket_ref(t)
                  ELSE dec_socket_ref(tcp_wakeup_waiters(v.s))
  <1>1. TcpTypeOK /\ s \in Socket
    BY DEF TcpIndInv, TcpTypeOK
  <1>2. /\ user[x] # "none" /\ s.listed
        /\ user' = [user EXCEPT ![x] = "closed"]
        /\ UNCHANGED <<input, firing, written, got>>
    BY DEF tcp_close
  <1>3. sock' = [sock EXCEPT ![x] = r] /\ net' = net \cup v.out
    <2>1. w.s = t
      BY DEF World
    <2> DEFINE e == IF t.state \in {"CLOSED", "LISTEN"} THEN Closed(w)
                    ELSE IF t.state \in {"SYN_RCVD", "ESTABLISHED"} THEN SendFin(w, "FIN_WAIT_1")
                    ELSE IF t.state = "CLOSE_WAIT" THEN SendFin(w, "LAST_ACK")
                    ELSE [w EXCEPT !.fault = "lock kept"]
    <2>2. v = e
      BY <2>1 DEF Closing
    <2>3. /\ sock' = [sock EXCEPT ![x] = IF e.fault # "none" THEN dec_socket_ref(t)
                                        ELSE dec_socket_ref(tcp_wakeup_waiters(e.s))]
          /\ net' = net \cup e.out
      BY Zenon DEF tcp_close
    <2> HIDE DEF v, e
    <2> QED BY <2>2, <2>3
  <1>4. Sound(s, c, k) /\ Acknowledges(s, c, net) /\ k \in Nat /\ s.state \notin {"NONE", "FREED"}
    BY <1>2, InUse, OthersNat
  <1>5. user'[x] = "closed"
    BY <1>1, <1>2 DEF TcpTypeOK
  <1>6. Handed(c, d) /\ c.x = x
    BY <1>2, <1>5 DEF Handed, Context, Due
  <1> HIDE DEF r, v, w, t
  <1>7. sock'[x] = r /\ \A y \in Sockets \ {x} : sock'[y] = sock[y]
    BY <1>1, <1>3 DEF TcpTypeOK
  <1>8. InputSent'
    BY <1>2, <1>3, InputKept
  <1>9. CASE x \in Ends
    <2> DEFINE e == End(x, b)
    <2>1. Placed(e) /\ Streams(s, e) /\ Onward(s, e)
      BY <1>4, <1>9, StartsGood
    <2>2. e.got = got[x] /\ e.written = written[x]
      BY EndIs
    <2>3. Beside(End(x, b), e)
      BY DEF Beside
    <2> HIDE DEF e, c, d, k
    <2>4. v = Closing(World(c.x, inc_socket_ref(s)))
          /\ r = IF v.fault # "none" THEN dec_socket_ref(inc_socket_ref(s))
                 ELSE dec_socket_ref(tcp_wakeup_waiters(v.s))
      BY <1>6 DEF r, v, w, t
    <2>5. /\ Streams(r, e) /\ Onward(r, e)
          /\ \A m \in v.out : m.to = Other(HostOf(x)) /\ Tells(m, r, e)
      <3> HIDE DEF s
      <3> QED BY <1>2, <1>4, <1>6, <2>1, <2>4, CloseGood DEF s
    <2> DEFINE M == v.out
    <2>6. net' = net \cup M /\ \A m \in M : m.to = Other(HostOf(x)) /\ Tells(m, sock'[x], e)
      BY <1>3, <1>7, <2>5
    <2>7. Streams(sock'[x], e) /\ Onward(sock'[x], e)
      BY <1>7, <2>5
    <2>8. written[x] <= written'[x]
      <3>1. written[x] \in Nat
        BY <1>1 DEF TcpTypeOK
      <3> QED BY <1>2, <3>1
    <2>9. \A y \in Sockets \ {x} : sock'[y] = sock[y] /\ got'[y] = got[y] /\ written'[y] = written[y]
      BY <1>2, <1>7
    <2>10. e.got = got'[x] /\ e.written = written'[x]
      BY <1>2, <2>2
    <2> HIDE DEF M
    <2> QED
      BY <1>4, <1>8, <1>9, <2>3, <2>6, <2>7, <2>8, <2>9, <2>10, EndStep
  <1>10. CASE x = Listener
    <2>1. s.state \in {"CLOSED", "LISTEN"}
      BY <1>4, <1>10 DEF StreamInv
    <2>2. t \in Socket /\ t.state = s.state /\ t.listed = s.listed /\ Sound(t, d, k + 1)
      <3>1. Sound(t, c, k + 1) /\ Like(s, t, s.timers)
        BY <1>4, Holds DEF t
      <3>2. Sound(t, d, k + 1)
        BY <1>6, <3>1, HandedSound
      <3>3. t.state = s.state /\ t.listed = s.listed
        BY <3>1, Zenon DEF Like
      <3> QED BY <3>2, <3>3 DEF Sound, Balanced
    <2>3. w \in Worlds /\ w.s = t /\ w.out = {}
      BY <2>2, NewWorld DEF w
    <2>4. v = Closed(w)
      BY <2>1, <2>2, <2>3 DEF v, Closing
    <2>5. v.out = {} /\ v.s \in Socket /\ v.s.state = "CLOSED"
      <3>1. d.user = "closed" /\ k + 1 \in Nat /\ k + 1 > 0
        BY <1>4, <1>6 DEF Handed
      <3> HIDE DEF c, d, k, s
      <3> QED BY <1>2, <2>1, <2>2, <2>3, <2>4, <3>1, ClosedKeeps
    <2>6. r.state \in Listens
      <3>1. dec_socket_ref(t).state \in Listens
        BY <2>1, <2>2, ListenerDrops DEF Listens
      <3>2. tcp_wakeup_waiters(v.s) \in Socket /\ tcp_wakeup_waiters(v.s).state = "CLOSED"
        BY <2>5 DEF tcp_wakeup_waiters, Socket
      <3>3. dec_socket_ref(tcp_wakeup_waiters(v.s)).state \in Listens
        BY <3>2, ListenerDrops DEF Listens
      <3> QED BY <3>1, <3>3 DEF r
    <2>7. \A q \in net' : q \in net \/ \E g : q = Reset(g)
      BY <1>3, <2>5
    <2>8. sock'[Listener].state \in Listens
      BY <1>7, <1>10, <2>6
    <2> QED BY <1>2, <1>7, <1>8, <1>10, <2>7, <2>8, ListenerStep
  <1> QED
    BY <1>9, <1>10, WhichSocket

(* The reader after its event.                                             *)
LEMMA ReadStream ==
  ASSUME TcpIndInv, TcpIndInv', NEW b, StreamInv(b), NEW x \in Sockets, tcp_read_runs(x)
  PROVE  StreamInv(b)'
  <1> DEFINE s == sock[x]
             c == Context(x)
             d == Context(x)'
             k == Others(x)
  <1>1. TcpTypeOK /\ CallersOK
    BY DEF TcpIndInv
  <1>2. reading[x] /\ UNCHANGED <<input, firing, user, written>>
    BY DEF tcp_read_runs
  <1>3. x \in Ends
    BY <1>1, <1>2, WhichSocket DEF CallersOK
  <1>4. k \in Nat /\ k > 0
    BY <1>2, OthersNat DEF Others, One
  <1>5. Sound(s, c, k) /\ Acknowledges(s, c, net) /\ s.state \notin {"NONE", "FREED"} /\ s \in Socket
    BY <1>4, InUse
  <1>6. c.x = x /\ d.x = x /\ d.written = c.written /\ d.due = c.due /\ d.user = c.user
    BY <1>2 DEF Context, Due
  <1>7. \/ \E n \in 1 .. Len(s.rx_buffer) :
             LET w == World(x, Taken(s, n))
             IN  \E v \in {w, send_ack(w)} :
                   /\ got' = [got EXCEPT ![x] = @ \o SubSeq(s.rx_buffer, 1, n)]
                   /\ sock' = [sock EXCEPT ![x] = dec_socket_ref(v.s)]
                   /\ net' = net \cup v.out
        \/ /\ sock' = [sock EXCEPT ![x] = dec_socket_ref(@)]
           /\ UNCHANGED <<net, got>>
        \/ /\ sock' = [sock EXCEPT ![x].rx_event = FALSE]
           /\ UNCHANGED <<net, got>>
    BY DEF tcp_read_runs, Taken
  <1>8. CASE \E n \in 1 .. Len(s.rx_buffer) :
               LET w == World(x, Taken(s, n))
               IN  \E v \in {w, send_ack(w)} :
                     /\ got' = [got EXCEPT ![x] = @ \o SubSeq(s.rx_buffer, 1, n)]
                     /\ sock' = [sock EXCEPT ![x] = dec_socket_ref(v.s)]
                     /\ net' = net \cup v.out
    <2>1. PICK n \in 1 .. Len(s.rx_buffer) :
            LET w == World(x, Taken(s, n))
            IN  \E v \in {w, send_ack(w)} :
                  /\ got' = [got EXCEPT ![x] = @ \o SubSeq(s.rx_buffer, 1, n)]
                  /\ sock' = [sock EXCEPT ![x] = dec_socket_ref(v.s)]
                  /\ net' = net \cup v.out
      BY <1>8
    <2> DEFINE w == World(x, Taken(s, n))
    <2>2. PICK v \in {w, send_ack(w)} :
            /\ got' = [got EXCEPT ![x] = @ \o SubSeq(s.rx_buffer, 1, n)]
            /\ sock' = [sock EXCEPT ![x] = dec_socket_ref(v.s)]
            /\ net' = net \cup v.out
      BY <2>1
    <2> DEFINE e == End(x, b)
               f == [e EXCEPT !.got = got'[x]]
               more == SubSeq(s.rx_buffer, 1, n)
    <2>3. got'[x] = got[x] \o more /\ \A y \in Sockets \ {x} : got'[y] = got[y]
      BY <1>1, <2>2 DEF TcpTypeOK
    <2>4. got'[x] \in Seq(Int)
      BY DEF TcpIndInv, TcpTypeOK
    <2>5. Placed(e) /\ Streams(s, e) /\ Onward(s, e)
      BY <1>3, <1>5, StartsGood
    <2>6. e.got = got[x] /\ e.written = written[x]
      BY EndIs
    <2>7. /\ f.own = e.own /\ f.peer = e.peer /\ f.written = e.written /\ f.state = e.state
          /\ f.theirs = e.theirs /\ f.acked = e.acked /\ f.received = e.received
          /\ f.before = e.before /\ f.had = e.had /\ f.got = got'[x]
      BY DEF End
    <2> HIDE DEF e, f, more
    <2>8. Beside(e, f) /\ Placed(f)
      <3>1. Beside(e, f)
        BY <2>7, Zenon DEF Beside
      <3>2. Placed(f)
        BY <2>4, <2>5, <2>7, Zenon DEF Placed
      <3> QED BY <3>1, <3>2
    <2>9. f.got = e.got \o more
      BY <2>3, <2>6, <2>7, Zenon
    <2>10. Good(w, f) /\ Aimed(w, Other(HostOf(x)))
      <3>1. f.got = e.got \o SubSeq(s.rx_buffer, 1, n)
        BY <2>9, Zenon DEF more
      <3> HIDE DEF s
      <3> QED BY <1>5, <2>5, <2>7, <2>8, <3>1, TakenGood
    <2>11. NearlyIn(w, d, k)
      <3>1. w = World(c.x, Taken(s, n))
        BY <1>6
      <3> HIDE DEF s, c, d, k, w
      <3>2. In(w, d, k, net)
        BY <1>4, <1>5, <1>6, <3>1, ReadKeeps
      <3> QED BY <3>2 DEF In
    <2> HIDE DEF w
    <2>12. Good(send_ack(w), f)
      <3> HIDE DEF d, k
      <3> QED BY <1>4, <2>8, <2>10, <2>11, SendAckGood
    <2>13. Good(v, f) /\ Aimed(v, Other(HostOf(x)))
      BY <2>2, <2>10, <2>12, AimedSend
    <2>14. InputSent'
      BY <1>2, <2>2, InputKept
    <2>15. written[x] <= written'[x] /\ f.written = written'[x]
      <3>1. written[x] \in Nat
        BY <1>1 DEF TcpTypeOK
      <3> QED BY <1>2, <2>6, <2>7, <3>1
    <2> DEFINE r == dec_socket_ref(v.s)
    <2>16. r \in {v.s, dec_socket_ref(v.s)} /\ sock' = [sock EXCEPT ![x] = r] /\ net' = net \cup v.out
      BY <2>2
    <2>17. \A y \in Sockets \ {x} : got'[y] = got[y] /\ written'[y] = written[y]
      BY <1>2, <2>3
    <2>18. Beside(End(x, b), f)
      BY <2>8 DEF e
    <2> HIDE DEF r
    <2> QED
      BY <1>3, <1>5, <2>7, <2>8, <2>13, <2>14, <2>15, <2>16, <2>17, <2>18, WorldStep
  <1>9. CASE /\ sock' = [sock EXCEPT ![x] = dec_socket_ref(@)]
             /\ UNCHANGED <<net, got>>
    <2> DEFINE r == dec_socket_ref(sock[x])
    <2>1. sock' = [sock EXCEPT ![x] = r] /\ InputSent'
      BY <1>2, <1>9, InputKept
    <2>2. Alike(sock[x], r) \/ r.state = "FREED"
      BY <1>5, TimersAlike
    <2> HIDE DEF r
    <2> QED BY <1>2, <1>5, <1>9, <2>1, <2>2, LightStep
  <1>10. CASE /\ sock' = [sock EXCEPT ![x].rx_event = FALSE]
              /\ UNCHANGED <<net, got>>
    <2> DEFINE r == [sock[x] EXCEPT !.rx_event = FALSE]
    <2>1. sock' = [sock EXCEPT ![x] = r] /\ InputSent'
      BY <1>2, <1>10, InputKept
    <2>2. Alike(sock[x], r)
      BY <1>5, Zenon DEF Alike, Fits, Socket
    <2> HIDE DEF r
    <2> QED BY <1>2, <1>5, <1>10, <2>1, <2>2, LightStep
  <1> QED
    BY <1>7, <1>8, <1>9, <1>10

(* The writer after its event.                                             *)
LEMMA WriteStream ==
  ASSUME TcpIndInv, TcpIndInv', NEW b, StreamInv(b), NEW x \in Sockets, tcp_write_runs(x)
  PROVE  StreamInv(b)'
  <1> DEFINE s == sock[x]
             c == Context(x)
             d == Context(x)'
             k == Others(x)
             to_copy == Least(TxSize - Len(s.tx_buffer), writing[x])
             w == tcp_write_pending_data(World(x, Filled(s, written[x], to_copy)))
  <1>1. TcpTypeOK /\ CallersOK
    BY DEF TcpIndInv
  <1>2. writing[x] > 0 /\ s.tx_event /\ UNCHANGED <<input, firing, user, got>>
    BY DEF tcp_write_runs
  <1>3. x \in Ends
    BY <1>1, <1>2, WhichSocket DEF CallersOK
  <1>4. k \in Nat /\ k > 0 /\ writing[x] \in Nat /\ written[x] \in Nat
    BY <1>1, <1>2, OthersNat DEF Others, One, TcpTypeOK
  <1>5. Sound(s, c, k) /\ Acknowledges(s, c, net) /\ s.state \notin {"NONE", "FREED"} /\ s \in Socket
    BY <1>4, InUse
  <1>6. /\ c.x = x /\ d.x = x /\ d.got = c.got /\ d.due = c.due /\ d.user = c.user
        /\ c.written = written[x] /\ d.written = written'[x]
    BY <1>2 DEF Context, Due
  <1>7. \/ /\ sock' = [sock EXCEPT ![x] = dec_socket_ref(@)]
           /\ UNCHANGED <<net, written>>
        \/ /\ s.state \in Writable /\ to_copy > 0
           /\ written' = [written EXCEPT ![x] = @ + to_copy]
           /\ sock' = [sock EXCEPT ![x] = IF to_copy = writing[x] THEN dec_socket_ref(w.s) ELSE w.s]
           /\ net' = net \cup w.out
    BY DEF tcp_write_runs, Filled, Writable
  <1>8. CASE /\ sock' = [sock EXCEPT ![x] = dec_socket_ref(@)]
             /\ UNCHANGED <<net, written>>
    <2> DEFINE r == dec_socket_ref(sock[x])
    <2>1. sock' = [sock EXCEPT ![x] = r] /\ InputSent'
      BY <1>2, <1>8, InputKept
    <2>2. Alike(sock[x], r) \/ r.state = "FREED"
      BY <1>5, TimersAlike
    <2> HIDE DEF r
    <2> QED BY <1>2, <1>5, <1>8, <2>1, <2>2, LightStep
  <1>9. CASE /\ s.state \in Writable /\ to_copy > 0
             /\ written' = [written EXCEPT ![x] = @ + to_copy]
             /\ sock' = [sock EXCEPT ![x] = IF to_copy = writing[x] THEN dec_socket_ref(w.s) ELSE w.s]
             /\ net' = net \cup w.out
    <2>1. PICK n \in Nat : n = to_copy
      <3>1. Len(s.tx_buffer) \in Nat
        BY <1>1, LenProperties DEF TcpTypeOK, Socket
      <3>2. TxSize - Len(s.tx_buffer) \in Int
        BY <3>1, Constants
      <3>3. to_copy \in {TxSize - Len(s.tx_buffer), writing[x]}
        BY <1>4, <3>2, Smaller
      <3> QED BY <1>4, <1>9, <3>2, <3>3
    <2>2. written'[x] = written[x] + n /\ \A y \in Sockets \ {x} : written'[y] = written[y]
      BY <1>1, <1>9, <2>1 DEF TcpTypeOK
    <2> DEFINE e == End(x, b)
               f == [e EXCEPT !.written = written'[x]]
               w0 == World(x, Filled(s, written[x], n))
               v == tcp_write_pending_data(w0)
               r == IF n = writing[x] THEN dec_socket_ref(v.s) ELSE v.s
    <2>3. sock' = [sock EXCEPT ![x] = r] /\ net' = net \cup v.out
      BY <1>9, <2>1
    <2> HIDE DEF w, to_copy
    <2>4. Placed(e) /\ Streams(s, e) /\ Onward(s, e)
      BY <1>3, <1>5, StartsGood
    <2>5. e.got = got[x] /\ e.written = written[x]
      BY EndIs
    <2>6. /\ f.own = e.own /\ f.peer = e.peer /\ f.got = e.got /\ f.state = e.state
          /\ f.theirs = e.theirs /\ f.acked = e.acked /\ f.received = e.received
          /\ f.before = e.before /\ f.had = e.had /\ f.written = written'[x]
      BY DEF End
    <2>7. written'[x] + e.theirs + WinSize + 2 < Modulus \div 2 /\ written'[x] <= Bytes(x)
      <3>1. PICK y \in Sockets : y = PeerOf(x)
        BY <1>3, EndsAre
      <3>2. e.theirs = written[y]
        BY <3>1, EndIs
      <3>3. ClientBytes \in Nat /\ ServerBytes \in Nat
            /\ ClientBytes + ServerBytes + WinSize + 2 < Modulus \div 2
        BY TcpAssumption
      <3>4. Bytes(x) + Bytes(y) = ClientBytes + ServerBytes /\ Bytes(x) \in Nat /\ Bytes(y) \in Nat
        BY <1>3, <3>1, <3>3, Constants DEF Bytes, Ends, PeerOf
      <3>5. /\ written[y] \in Nat /\ writing[y] \in Nat /\ written[y] + writing[y] <= Bytes(y)
            /\ written'[x] \in Nat /\ writing'[x] \in Nat /\ written'[x] + writing'[x] <= Bytes(x)
        BY <1>1 DEF TcpIndInv, TcpTypeOK, CallersOK
      <3>6. written[y] <= Bytes(y) /\ written'[x] <= Bytes(x)
        BY <3>4, <3>5
      <3>7. written'[x] + written[y] + WinSize + 2 < Modulus \div 2
        BY <3>3, <3>4, <3>5, <3>6, Constants, Half
      <3> QED BY <3>2, <3>6, <3>7
    <2> HIDE DEF e, f
    <2>8. f.written = e.written + n /\ f.written \in Nat /\ e.written <= f.written /\ e.written \in Nat
      BY <1>4, <2>2, <2>5, <2>6
    <2>9. Beside(e, f) /\ Placed(f)
      <3>1. Beside(e, f)
        BY <2>6, Zenon DEF Beside
      <3>2. f.written + f.theirs + WinSize + 2 < Modulus \div 2
        BY <2>6, <2>7, Zenon
      <3>3. f.state # "FREED" => f.received <= f.written
        <4>1. e.received \in Nat /\ (e.state # "FREED" => e.received <= e.written)
          BY <2>4 DEF Placed
        <4>2. e.state # "FREED" => e.received <= f.written
          BY <2>8, <4>1
        <4> QED BY <2>6, <4>2, Zenon
      <3>4. Placed(f)
        BY <2>4, <2>6, <2>8, <3>2, <3>3, Zenon DEF Placed
      <3> QED BY <3>1, <3>4
    <2>10. In(w0, d, k, net) /\ w0.s.state \in Writable
      <3>1. c.written + n <= Bytes(c.x) /\ d.written = c.written + n
        BY <1>6, <2>2, <2>7
      <3>2. w0 = World(c.x, Filled(s, c.written, n))
        BY <1>6
      <3>3. s.state \in Writable /\ w0.s.state = s.state
        BY <1>5, <1>9 DEF World, Filled, Socket
      <3>4. s.tx_event
        BY <1>2
      <3> HIDE DEF c, d, k, s, w0
      <3>5. In(w0, d, k, net)
        BY <1>4, <1>5, <1>6, <3>1, <3>2, <3>3, <3>4, WriteKeeps
      <3> QED BY <3>3, <3>5
    <2>11. Good(w0, f) /\ Aimed(w0, Other(HostOf(x)))
      <3>1. w0 = World(x, Filled(s, e.written, n))
        BY <2>5
      <3>2. Len(s.tx_buffer) <= e.written
        BY <1>5, <1>6, <2>5 DEF Sound, Transmits
      <3>3. s.state \in Writable
        BY <1>9
      <3> HIDE DEF s, w0
      <3> QED BY <1>5, <2>4, <2>6, <2>8, <2>9, <3>1, <3>2, <3>3, FilledGood
    <2> HIDE DEF w0
    <2>12. Good(v, f) /\ Aimed(v, Other(HostOf(x)))
      <3>1. f.written = d.written
        BY <1>6, <2>6
      <3> HIDE DEF d, k
      <3> QED BY <1>4, <2>9, <2>10, <2>11, <3>1, WritePendingGood, AimedWrite
    <2> HIDE DEF v
    <2>13. r \in {v.s, dec_socket_ref(v.s)}
      BY Zenon
    <2> HIDE DEF r
    <2>14. InputSent'
      BY <1>2, <2>3, InputKept
    <2>15. written[x] <= written'[x] /\ f.got = got'[x]
      BY <1>2, <1>4, <2>2, <2>5, <2>6
    <2>16. \A y \in Sockets \ {x} : got'[y] = got[y] /\ written'[y] = written[y]
      BY <1>2, <2>2
    <2>17. Beside(End(x, b), f)
      BY <2>9 DEF e
    <2> QED
      BY <1>3, <1>5, <2>3, <2>6, <2>9, <2>12, <2>13, <2>14, <2>15, <2>16, <2>17, WorldStep
  <1> QED
    BY <1>7, <1>8, <1>9
-----------------------------------------------------------------------------
(* A socket of the connection before it is made.                           *)
LEMMA Blank ==
  ASSUME TcpIndInv, NEW x \in Sockets, sock[x].state = "NONE"
  PROVE  sock[x].rx_buffer = <<>> /\ sock[x].tx_buffer = <<>> /\ got[x] = <<>>
  <1>1. SocketInv(x) /\ got[x] = <<>>
    BY Vacant DEF TcpIndInv
  <1>2. sock[x] = Unallocated \/ sock[x] = Freed
    BY <1>1 DEF SocketInv, Absent, Sound, Closes
  <1>3. sock[x] = Unallocated
    BY <1>2, Records
  <1> QED
    BY <1>1, <1>3 DEF Unallocated

(* An empty stream.                                                        *)
LEMMA Nothing ==
  /\ <<>> \o <<>> = <<>> /\ Len(<<>>) = 0 /\ Counting(0, 0) = <<>> /\ 0 \in 0 .. 0
  /\ \A n \in Nat : 0 <= n
  <1>1. <<>> \o <<>> = <<>> /\ Len(<<>>) = 0 /\ 0 \in 0 .. 0
    OBVIOUS
  <1>2. Counting(0, 0) = <<>>
    BY DEF Counting
  <1> QED BY <1>1, <1>2

(* What was sent before a socket was made are resets.                      *)
LEMMA OnlyResets ==
  ASSUME NEW m \in Segment, NEW s, NEW e, Tells(m, s, e), s.state = "NONE", e.written = 0
  PROVE  m.data = <<>> /\ m.flags = {"RST"}
  <1>1. m.data \in Seq(Int) /\ Len(m.data) \in Nat
    BY LenProperties DEF Segment
  <1>2. ASSUME m.data # <<>> PROVE FALSE
    <2>1. PICK i \in 0 .. e.written : i + Len(m.data) <= e.written
      BY <1>2, Zenon DEF Tells
    <2>2. Len(m.data) = 0
      BY <1>1, <2>1
    <2> QED BY <1>1, <1>2, <2>2, EmptySeq
  <1> QED
    BY <1>2, Zenon DEF Tells

(* A socket whose peer is made: neither knew the other's numbers.          *)
LEMMA PeerBegins ==
  ASSUME NEW s, NEW g, NEW h, NEW n \in Nat, n = Len(g.got \o s.rx_buffer),
         h.own = g.own, h.got = g.got, h.written = g.written, h.theirs = g.theirs,
         h.received = g.received, g.state = "NONE", h.state \in {"SYN_SENT", "SYN_RCVD"}, h.acked = 0
  PROVE  /\ Streams(s, g) => Streams(s, h)
         /\ \A m : Tells(m, s, g) => Tells(m, s, h)
  <1>0. g.state # "FREED" /\ h.state # "FREED" /\ h.state # "NONE"
    OBVIOUS
  <1>1. Sender(s, g) => Sender(s, h)
    BY <1>0, Zenon DEF Sender
  <1>2. ASSUME Receiver(s, g) PROVE Receiver(s, h)
    <2>1. s.state \notin Live
      BY <1>2, Zenon DEF Receiver
    <2>2. s.state \notin {"SYN_RCVD", "ESTABLISHED"}
      BY <2>1 DEF Live, Writable
    <2>3. 0 <= n
      BY Nothing, Zenon
    <2>4. h.acked <= Len(h.got \o s.rx_buffer)
      BY <2>3, Zenon
    <2>5. /\ h.got \o s.rx_buffer = Counting(0, Len(h.got \o s.rx_buffer))
          /\ Len(h.got \o s.rx_buffer) <= h.theirs
          /\ s.state \in {"NONE", "SYN_SENT"} => h.got \o s.rx_buffer = <<>>
      BY <1>2, Zenon DEF Receiver
    <2> QED BY <2>1, <2>2, <2>4, <2>5, Zenon DEF Receiver
  <1>3. ASSUME NEW m, Tells(m, s, g) PROVE Tells(m, s, h)
    <2>1. "ACK" \notin m.flags
      BY <1>3, Zenon DEF Tells
    <2>2. m.data # <<>> =>
            \E i \in 0 .. h.written : /\ i + Len(m.data) <= h.written
                                      /\ m.seq = Add(h.own, i) /\ m.data = Counting(i, Len(m.data))
      BY <1>3, Zenon DEF Tells
    <2>3. /\ "SYN" \in m.flags => Add(m.seq, 1) = h.own /\ m.data = <<>>
          /\ "FIN" \in m.flags => s.state \notin Sending
          /\ s.state = "NONE" => m.flags = {"RST"}
      BY <1>3, Zenon DEF Tells
    <2> QED BY <2>1, <2>2, <2>3, Zenon DEF Tells
  <1> QED
    BY <1>1, <1>2, <1>3, Zenon DEF Streams

(* A new socket has an empty stream in order, and its SYN says where it    *)
(* begins.                                                                 *)
LEMMA BeginsGood ==
  ASSUME NEW s \in Socket, s.rx_buffer = <<>>, s.tx_buffer = <<>>,
         NEW e, e.own \in Num, e.peer \in Num, e.got = <<>>, e.written = 0,
         e.theirs \in Nat, e.received \in Nat, e.state \in Sending => e.acked <= 0,
         \/ s.state = "SYN_SENT" /\ Add(s.tx_win_low, 1) = e.own
         \/ /\ s.state = "SYN_RCVD" /\ s.tx_win_low = e.own /\ s.rx_win_low = e.peer
            /\ Fits(s) /\ e.state # "NONE",
         NEW q, q.data = <<>>, Add(q.seq, 1) = e.own, "FIN" \notin q.flags,
         "ACK" \in q.flags => s.state = "SYN_RCVD" /\ q.ack = e.peer
  PROVE  /\ Streams(s, e) /\ Tells(q, s, e)
         /\ \A m : m.data = <<>> /\ m.flags = {"RST"} => Tells(m, s, e)
  <1> DEFINE r == e.got \o s.rx_buffer
  <1>1. r = <<>> /\ Len(r) = 0 /\ Len(s.tx_buffer) = 0 /\ r = Counting(0, Len(r))
    <2>1. r = <<>>
      BY Nothing, Zenon
    <2> HIDE DEF r
    <2> QED BY <2>1, Nothing
  <1>2. Add(e.own, 0) = e.own /\ Add(e.peer, 0) = e.peer
    BY AddZero
  <1>3. e.written - Len(s.tx_buffer) = 0 /\ 0 <= e.received /\ 0 <= e.theirs
    <2>1. 0 - 0 = 0 /\ 0 <= e.received /\ 0 <= e.theirs
      OBVIOUS
    <2> QED BY <1>1, <2>1, Zenon
  <1>4. s.state \notin Writable /\ s.state \notin {"NONE", "FREED", "ESTABLISHED"} /\ s.state \in Sending
    BY DEF Writable, Sending
  <1> HIDE DEF r
  <1>5. Sender(s, e)
    <2>1. s.tx_buffer = Counting(0, 0)
      BY Nothing, Zenon
    <2>2. s.state = "SYN_RCVD" => s.tx_win_low = Add(e.own, 0)
      BY <1>2
    <2>3. s.state = "SYN_SENT" => Add(s.tx_win_low, 1) = e.own
      OBVIOUS
    <2>4. s.state \in {"SYN_RCVD"} \cup Writable =>
            /\ s.tx_win_low = Add(e.own, e.written - Len(s.tx_buffer))
            /\ s.tx_buffer = Counting(e.written - Len(s.tx_buffer), Len(s.tx_buffer))
      BY <1>1, <1>3, <1>4, <2>1, <2>2, Zenon
    <2>5. e.written - Len(s.tx_buffer) <= e.received
      BY <1>3, Zenon
    <2> QED BY <2>3, <2>4, <2>5, Zenon DEF Sender
  <1>6. Receiver(s, e)
    <2>1. Len(r) <= e.theirs
      BY <1>1, <1>3, Zenon
    <2>2. s.state = "SYN_RCVD" => s.rx_win_low = Add(e.peer, Len(r)) /\ Fits(s) /\ e.state # "NONE"
      <3>1. s.state = "SYN_RCVD" => s.rx_win_low = Add(e.peer, 0) /\ Fits(s) /\ e.state # "NONE"
        BY <1>2
      <3> QED BY <1>1, <3>1, Zenon
    <2>3. s.state \in Live => s.state = "SYN_RCVD"
      BY DEF Live, Writable, Shut
    <2>4. e.state \in Sending => e.acked <= Len(r)
      BY <1>1, Zenon
    <2>5. s.state \in {"SYN_RCVD", "ESTABLISHED"} => s.state = "SYN_RCVD"
      BY <1>4
    <2> QED BY <1>1, <2>1, <2>2, <2>3, <2>4, <2>5, Zenon DEF Receiver, r
  <1>7. Tells(q, s, e)
    <2>1. "ACK" \in q.flags => e.state # "NONE"
      OBVIOUS
    <2>2. "ACK" \in q.flags => \E a \in 0 .. Len(r) : q.ack = Add(e.peer, a)
      <3>1. "ACK" \in q.flags => q.ack = Add(e.peer, 0)
        BY <1>2
      <3>2. 0 \in 0 .. Len(r)
        BY <1>1, Nothing, Zenon
      <3> QED BY <3>1, <3>2, Zenon
    <2> QED BY <1>4, <2>1, <2>2, Zenon DEF Tells, r
  <1>8. ASSUME NEW m, m.data = <<>>, m.flags = {"RST"} PROVE Tells(m, s, e)
    <2>1. "SYN" \notin m.flags /\ "ACK" \notin m.flags /\ "FIN" \notin m.flags
      BY <1>8
    <2> QED BY <1>4, <1>8, <2>1, Zenon DEF Tells
  <1> QED
    BY <1>5, <1>6, <1>7, <1>8, Zenon DEF Streams

(* A step makes socket x, with s and the number of its first byte, and     *)
(* sends its SYN q to the peer y.                                          *)
Makes(x, y, b, b2, s, q) ==
  /\ b2 \in [Ends -> Num] /\ b2[y] = b[y]
  /\ sock[x].state = "NONE" /\ sock'[x] = s /\ sock'[y] = sock[y]
  /\ \A z \in Sockets : got'[z] = got[z] /\ written'[z] = written[z]
  /\ s \in Socket /\ s.rx_buffer = <<>> /\ s.tx_buffer = <<>>
  /\ \/ s.state = "SYN_SENT" /\ Add(s.tx_win_low, 1) = b2[x]
     \/ /\ s.state = "SYN_RCVD" /\ s.tx_win_low = b2[x] /\ s.rx_win_low = b[y]
        /\ Fits(s) /\ sock[y].state # "NONE"
  /\ q.data = <<>> /\ Add(q.seq, 1) = b2[x] /\ "FIN" \notin q.flags
  /\ "ACK" \in q.flags => s.state = "SYN_RCVD" /\ q.ack = b[y]
  /\ q.to = Other(HostOf(x)) /\ net' = net \cup {q}
  /\ sock'[Listener].state \in Listens /\ InputSent'

(* One end is made, and the streams are in order.                          *)
LEMMA Begins ==
  ASSUME TcpIndInv, NEW b, StreamInv(b), NEW x \in Ends, NEW y, y = PeerOf(x),
         NEW b2, NEW s, NEW q, Makes(x, y, b, b2, s, q)
  PROVE  StreamInv(b2)'
  <1>1. /\ y \in Ends /\ PeerOf(y) = x /\ x # y /\ x \in Sockets /\ y \in Sockets /\ Ends = {x, y}
        /\ Other(HostOf(y)) # Other(HostOf(x))
    BY EndsAre
  <1>2. b \in [Ends -> Num]
    BY DEF StreamInv
  <1>3. b2[x] \in Num /\ b[y] \in Num
    BY <1>1, <1>2 DEF Makes
  <1>4. sock[x].rx_buffer = <<>> /\ sock[x].tx_buffer = <<>> /\ got[x] = <<>>
    BY <1>1, Blank DEF Makes
  <1> DEFINE e == End(x, b)
             f == End(y, b)
             e1 == End(x, b2)'
             f1 == End(y, b2)'
  <1>5. Streams(sock[x], e) /\ Streams(sock[y], f) /\ Placed(e) /\ Placed(f)
    BY <1>1, EndPlaced DEF StreamInv
  <1>6. /\ e.got = got[x] /\ e.written = written[x] /\ e.state = sock[y].state
        /\ e.theirs = written[y] /\ e.acked = written[y] - Len(sock[y].tx_buffer)
        /\ e.received = Len(got[y] \o sock[y].rx_buffer)
    BY EndIs
  <1>7. /\ f.own = b[y] /\ f.got = got[y] /\ f.written = written[y] /\ f.state = sock[x].state
        /\ f.theirs = written[x] /\ f.received = Len(got[x] \o sock[x].rx_buffer)
        /\ f.had = Len(got[y] \o sock[y].rx_buffer)
    <2>1. PeerOf(y) = x
      BY <1>1
    <2>2. f = [own |-> b[y], peer |-> b[x], got |-> got[y], written |-> written[y],
               state |-> sock[x].state, theirs |-> written[x],
               acked |-> written[x] - Len(sock[x].tx_buffer),
               received |-> Len(got[x] \o sock[x].rx_buffer),
               before |-> sock[y].state, had |-> Len(got[y] \o sock[y].rx_buffer)]
      BY <2>1, PeerIs, Zenon
    <2> HIDE DEF f
    <2> QED BY <2>2, Zenon
  <1>8. /\ e1.own = b2[x] /\ e1.peer = b2[y] /\ e1.got = got'[x] /\ e1.written = written'[x]
        /\ e1.state = sock'[y].state /\ e1.theirs = written'[y]
        /\ e1.acked = written'[y] - Len(sock'[y].tx_buffer)
        /\ e1.received = Len(got'[y] \o sock'[y].rx_buffer)
    BY EndBecomes
  <1>9. /\ f1.own = b2[y] /\ f1.got = got'[y] /\ f1.written = written'[y] /\ f1.state = sock'[x].state
         /\ f1.theirs = written'[x] /\ f1.acked = written'[x] - Len(sock'[x].tx_buffer)
         /\ f1.received = Len(got'[x] \o sock'[x].rx_buffer)
    <2>1. PeerOf(y) = x
      BY <1>1
    <2>2. f1 = [own |-> b2[y], peer |-> b2[x], got |-> got'[y], written |-> written'[y],
                state |-> sock'[x].state, theirs |-> written'[x],
                acked |-> written'[x] - Len(sock'[x].tx_buffer),
                received |-> Len(got'[x] \o sock'[x].rx_buffer),
                before |-> sock'[y].state, had |-> Len(got'[y] \o sock'[y].rx_buffer)]
      BY <2>1, PeerIs, Zenon
    <2> HIDE DEF f1
    <2> QED BY <2>2, Zenon
  <1>10. /\ sock[x].state = "NONE" /\ sock'[x] = s /\ sock'[y] = sock[y] /\ b2[y] = b[y]
         /\ got'[x] = got[x] /\ got'[y] = got[y] /\ written'[x] = written[x] /\ written'[y] = written[y]
    BY <1>1 DEF Makes
  <1>11. /\ e1.own = b2[x] /\ e1.peer = b[y] /\ e1.got = got[x] /\ e1.written = written[x]
         /\ e1.state = sock[y].state /\ e1.theirs = written[y]
         /\ e1.acked = written[y] - Len(sock[y].tx_buffer)
         /\ e1.received = Len(got[y] \o sock[y].rx_buffer)
    <2> HIDE DEF e1
    <2> QED BY <1>8, <1>10, Zenon
  <1>12. /\ f1.own = b[y] /\ f1.got = got[y] /\ f1.written = written[y] /\ f1.state = s.state
         /\ f1.theirs = written[x] /\ f1.acked = written[x] - Len(s.tx_buffer)
         /\ f1.received = Len(got[x] \o s.rx_buffer)
    <2> HIDE DEF f1
    <2> QED BY <1>9, <1>10, Zenon
  <1>13. \A m \in net : /\ m.to = Other(HostOf(x)) => Tells(m, sock[x], e)
                        /\ m.to = Other(HostOf(y)) => Tells(m, sock[y], f)
    BY <1>1 DEF StreamInv
  <1> HIDE DEF e, f, e1, f1
  <1>14. sock[x].state # "FREED" /\ Sender(sock[x], e) /\ Receiver(sock[x], e)
    BY <1>5, <1>10 DEF Streams
  <1>15. e.written = 0
    BY <1>14, <1>10 DEF Sender
  <1>16. e.state \in Sending => e.acked <= 0
    <2>1. e.got \o sock[x].rx_buffer = <<>>
      BY <1>4, <1>6, Nothing, Zenon
    <2>2. e.state \in Sending => e.acked <= Len(e.got \o sock[x].rx_buffer)
      BY <1>14, Zenon DEF Receiver
    <2> QED BY <2>1, <2>2, Nothing, Zenon
  <1>17. Streams(s, e1) /\ Tells(q, s, e1)
         /\ \A m : m.data = <<>> /\ m.flags = {"RST"} => Tells(m, s, e1)
    <2>1. e1.own \in Num /\ e1.peer \in Num /\ e1.got = <<>> /\ e1.written = 0
      BY <1>3, <1>4, <1>6, <1>11, <1>15, Zenon
    <2>2. e1.theirs \in Nat /\ e1.received \in Nat
      <3>1. e.theirs \in Nat /\ e.received \in Nat
        BY <1>5 DEF Placed
      <3> QED BY <1>6, <1>11, <3>1, Zenon
    <2>3. e1.state \in Sending => e1.acked <= 0
      BY <1>6, <1>11, <1>16, Zenon
    <2>4. \/ s.state = "SYN_SENT" /\ Add(s.tx_win_low, 1) = e1.own
          \/ /\ s.state = "SYN_RCVD" /\ s.tx_win_low = e1.own /\ s.rx_win_low = e1.peer
             /\ Fits(s) /\ e1.state # "NONE"
      BY <1>11, Zenon DEF Makes
    <2>5. Add(q.seq, 1) = e1.own /\ ("ACK" \in q.flags => s.state = "SYN_RCVD" /\ q.ack = e1.peer)
      BY <1>11, Zenon DEF Makes
    <2> QED BY <2>1, <2>2, <2>3, <2>4, <2>5, BeginsGood DEF Makes
  <1>18. ASSUME NEW m \in net, m.to = Other(HostOf(x)) PROVE Tells(m, s, e1)
    <2>1. m \in Segment
      BY DEF TcpIndInv, TcpTypeOK
    <2>2. m.data = <<>> /\ m.flags = {"RST"}
      BY <1>13, <1>15, <1>18, <1>10, <2>1, OnlyResets
    <2> QED BY <1>17, <2>2
  <1>19. /\ Streams(sock[y], f1)
         /\ \A m \in net : m.to = Other(HostOf(y)) => Tells(m, sock[y], f1)
    <2>1. /\ f1.own = f.own /\ f1.got = f.got /\ f1.written = f.written /\ f1.theirs = f.theirs
          /\ f.state = "NONE" /\ f1.state \in {"SYN_SENT", "SYN_RCVD"}
      BY <1>7, <1>12, <1>10 DEF Makes
    <2>2. f1.received = f.received
      <3>1. s.rx_buffer = sock[x].rx_buffer
        <4>1. s.rx_buffer = <<>>
          BY DEF Makes
        <4> QED BY <1>4, <4>1, Zenon
      <3>2. f1.received = Len(got[x] \o s.rx_buffer)
        BY <1>12, Zenon
      <3>3. f.received = Len(got[x] \o sock[x].rx_buffer)
        BY <1>7, Zenon
      <3> QED BY <3>1, <3>2, <3>3, Zenon
    <2>3. f1.acked = 0
      <3>1. written[x] = 0 /\ Len(s.tx_buffer) = 0
        BY <1>6, <1>15, Nothing, Zenon DEF Makes
      <3>2. 0 - 0 = 0
        OBVIOUS
      <3> QED BY <1>12, <3>1, <3>2, Zenon
    <2>4. PICK n \in Nat : n = Len(f.got \o sock[y].rx_buffer)
      <3>1. f.had \in Nat
        BY <1>5 DEF Placed
      <3> QED BY <1>7, <3>1, Zenon
    <2>5. (Streams(sock[y], f) => Streams(sock[y], f1))
          /\ \A m : Tells(m, sock[y], f) => Tells(m, sock[y], f1)
      BY <2>1, <2>2, <2>3, <2>4, PeerBegins
    <2> QED BY <1>5, <1>13, <2>5
  <1>20. ASSUME NEW z \in Ends
         PROVE  /\ Streams(sock'[z], End(z, b2)')
                /\ \A m \in net' : m.to = Other(HostOf(z)) => Tells(m, sock'[z], End(z, b2)')
    <2>1. CASE z = x
      <3>1. \A m \in net' : m.to = Other(HostOf(x)) => Tells(m, s, e1)
        BY <1>17, <1>18 DEF Makes
      <3> QED BY <1>17, <1>10, <2>1, <3>1, Zenon DEF e1
    <2>2. CASE z = y
      <3>1. \A m \in net' : m.to = Other(HostOf(y)) => Tells(m, sock[y], f1)
        BY <1>1, <1>19 DEF Makes
      <3> QED BY <1>19, <1>10, <2>2, <3>1, Zenon DEF f1
    <2> QED BY <1>1, <2>1, <2>2
  <1> QED
    BY <1>20 DEF Makes, StreamInv, Listens, InputSent

(* tcp_connect.                                                            *)
LEMMA ConnectStream ==
  ASSUME TcpIndInv, NEW b, StreamInv(b), tcp_connect
  PROVE  \E b2 \in [Ends -> Num] : StreamInv(b2)'
  <1> DEFINE x == Client
             y == Accepted
  <1>1. /\ TcpTypeOK /\ x \in Ends /\ y \in Ends /\ y = PeerOf(x) /\ x \in Sockets /\ y \in Sockets
        /\ x # y /\ x # Listener /\ Other(HostOf(x)) = "server" /\ Listener \in Sockets
    BY Constants DEF TcpIndInv, Ends, PeerOf, Sockets, Other, HostOf
  <1>2. sock[x].state = "NONE" /\ UNCHANGED <<input, written, got>>
    BY DEF tcp_connect
  <1>3. PICK iss \in InitialSeqs :
          /\ sock' = [sock EXCEPT ![x] = [create_tcp_socket(iss) EXCEPT
                                            !.state = "SYN_SENT", !.listed = TRUE]]
          /\ net' = net \cup {tcp_send("server", {"SYN"}, iss, 0, <<>>)}
    BY DEF tcp_connect
  <1>4. iss \in Num
    BY TcpAssumption DEF Num
  <1> DEFINE s == Made("SYN_SENT", iss)
             q == tcp_send("server", {"SYN"}, iss, 0, <<>>)
             b2 == [b EXCEPT ![x] = Add(iss, 1)]
  <1>5. sock' = [sock EXCEPT ![x] = s]
    BY <1>3 DEF Made
  <1>6. /\ s \in Socket /\ s.state = "SYN_SENT" /\ s.rx_buffer = <<>> /\ s.tx_buffer = <<>>
    BY <1>4, MadeSocket DEF New
  <1>7. s.tx_win_low = iss
    BY Zenon DEF Made, create_tcp_socket, Unallocated
  <1>8. /\ q.data = <<>> /\ q.seq = iss /\ q.flags = {"SYN"} /\ q.to = "server"
    BY DEF tcp_send
  <1>9. net' = net \cup {q}
    BY <1>3
  <1>10. Add(iss, 1) \in Num
    BY <1>4, Numbers DEF Num
  <1>11. b2 \in [Ends -> Num] /\ b2[y] = b[y] /\ b2[x] = Add(iss, 1)
    BY <1>1, <1>10 DEF StreamInv
  <1> HIDE DEF s, q, b2
  <1>12. sock'[x] = s /\ sock'[y] = sock[y] /\ sock'[Listener] = sock[Listener]
    BY <1>1, <1>5 DEF TcpTypeOK
  <1>13. InputSent'
    BY <1>2, <1>9, InputKept
  <1>14. sock'[Listener].state \in Listens
    BY <1>12 DEF StreamInv, Listens
  <1>15. Add(q.seq, 1) = b2[x] /\ "FIN" \notin q.flags /\ "ACK" \notin q.flags
    BY <1>8, <1>11
  <1>16. Add(s.tx_win_low, 1) = b2[x]
    BY <1>7, <1>11
  <1>17. \A z \in Sockets : got'[z] = got[z] /\ written'[z] = written[z]
    BY <1>2
  <1> HIDE DEF x, y
  <1>18. q.to = Other(HostOf(x))
    BY <1>1, <1>8
  <1>19. Makes(x, y, b, b2, s, q)
    BY <1>2, <1>6, <1>8, <1>9, <1>11, <1>12, <1>13, <1>14, <1>15, <1>16, <1>17, <1>18, Zenon DEF Makes
  <1>20. StreamInv(b2)'
    BY <1>1, <1>19, Begins
  <1> QED
    BY <1>11, <1>20

(* The socket the listener makes, and its SYN.                             *)
LEMMA AnswerNumbers ==
  ASSUME NEW x, NEW iss \in Num, NEW low \in Num
  PROVE  LET w == tcp_socket_send(
                    World(x, [create_tcp_socket(iss) EXCEPT
                                !.state = "SYN_RCVD", !.listed = TRUE,
                                !.rx_win_low = low, !.rx_win_high = Add(low, WinSize - 1)]),
                    {"SYN", "ACK"}, iss, <<>>)
             s == [w.s EXCEPT !.tx_win_low = Add(iss, 1)]
         IN  /\ s.rx_win_low = low /\ s.tx_win_low = Add(iss, 1) /\ Fits(s)
             /\ w.out = {tcp_send(Other(HostOf(x)), {"SYN", "ACK"}, iss, low, <<>>)}
  <1> DEFINE high == Add(low, WinSize - 1)
             m == Made("SYN_RCVD", iss)
             q == [m EXCEPT !.rx_win_low = low, !.rx_win_high = high]
             t == [q EXCEPT !.rx_win_high = RxWinHigh(q)]
             w0 == World(x, q)
             segment == tcp_send(Other(HostOf(x)), {"SYN", "ACK"}, iss, t.rx_win_low, <<>>)
             w == tcp_socket_send(w0, {"SYN", "ACK"}, iss, <<>>)
             s == [w.s EXCEPT !.tx_win_low = Add(iss, 1)]
  <1>1. high \in Num /\ Add(iss, 1) \in Num
    <2>1. low \in Int /\ iss \in Int /\ WinSize - 1 \in Int
      BY Constants DEF Num
    <2> QED BY <2>1, Numbers
  <1>2. q = [create_tcp_socket(iss) EXCEPT
               !.state = "SYN_RCVD", !.listed = TRUE, !.rx_win_low = low, !.rx_win_high = high]
    BY DEF Made
  <1>3. New(m) /\ m.state = "SYN_RCVD" /\ m.listed = TRUE
    BY MadeSocket
  <1> HIDE DEF m
  <1>4. New(q) /\ q.state = "SYN_RCVD" /\ q.listed = TRUE
    <2> HIDE DEF high
    <2> QED BY <1>1, <1>3, NewNumbers, ZenonT(40)
  <1>5. q.rx_win_low = low /\ q.rx_win_high = high
    BY <1>3 DEF New, Socket
  <1> HIDE DEF q
  <1>6. Fits(q)
    <2>1. Diff(high, low) = WinSize - 1
      <3>1. WinSize - 1 \in Num
        BY Constants, Half, TcpAssumption DEF Num
      <3> QED BY <3>1, DiffAdd
    <2>2. Len(q.rx_buffer) = 0
      BY <1>4, Nothing, Zenon DEF New
    <2> HIDE DEF high
    <2>3. WinSize - 1 <= WinSize - 1 - 0
      BY Constants
    <2> QED BY <1>5, <2>1, <2>2, <2>3, Zenon DEF Fits
  <1>7. q \in Socket /\ RxWinHigh(q) \in Num /\ Len(q.rx_buffer) <= WinSize - 1
    <2>1. q \in Socket /\ Len(q.rx_buffer) = 0
      BY <1>4, Nothing, Zenon DEF New
    <2> QED BY <2>1, EdgeIsNum, Constants
  <1>8. Alike(q, t)
    BY <1>7, EdgeFits
  <1>9. New(t) /\ t.state = "SYN_RCVD" /\ t.listed = TRUE /\ t.rx_win_low = low
    <2>1. RxWinHigh(q) \in Num
      BY <1>7
    <2> DEFINE edge == RxWinHigh(q)
    <2>2. t = [q EXCEPT !.rx_win_high = edge]
      OBVIOUS
    <2> HIDE DEF edge, t
    <2>3. edge \in Num
      BY <2>1 DEF edge
    <2>4. New([q EXCEPT !.rx_win_high = edge]) /\ [q EXCEPT !.rx_win_high = edge].state = "SYN_RCVD"
          /\ [q EXCEPT !.rx_win_high = edge].listed = TRUE
          /\ [q EXCEPT !.rx_win_high = edge].rx_win_low = q.rx_win_low
      BY <1>4, <2>3, NewNumbers
    <2> QED BY <1>5, <2>2, <2>4, Zenon
  <1>10. w0 \in Worlds /\ w0.s = q /\ w0.out = {} /\ w0.remote = Other(HostOf(x))
    BY <1>7, NewWorld
  <1> HIDE DEF w0
  <1>11. w = [w0 EXCEPT !.s = tcp_timer_cancel(t, "ack"), !.out = w0.out \cup {segment}]
    BY <1>10 DEF tcp_socket_send
  <1> HIDE DEF t
  <1>12. tcp_timer_cancel(t, "ack") = t
    BY <1>9 DEF tcp_timer_cancel, New
  <1>13. segment = tcp_send(Other(HostOf(x)), {"SYN", "ACK"}, iss, low, <<>>)
    BY <1>9
  <1> HIDE DEF segment
  <1>14. w.s = t /\ w.out = {segment}
    BY <1>10, <1>11, <1>12 DEF Worlds
  <1> HIDE DEF w
  <1>15. /\ s.rx_win_low = low /\ s.tx_win_low = Add(iss, 1) /\ s.rx_win_high = t.rx_win_high
         /\ s.rx_buffer = t.rx_buffer
    BY <1>9, <1>14 DEF New, Socket
  <1> HIDE DEF s
  <1>16. Fits(s)
    <2>1. Fits(t)
      BY <1>6, <1>8 DEF Alike
    <2> QED BY <1>9, <1>15, <2>1, Zenon DEF Fits
  <1> QED
    BY <1>2, <1>13, <1>14, <1>15, <1>16 DEF s, w, w0, high

(* A SYN at the listener.                                                  *)
LEMMA AcceptStream ==
  ASSUME TcpIndInv, NEW b, StreamInv(b), tcp_input_accepts
  PROVE  \E b2 \in [Ends -> Num] : StreamInv(b2)'
  <1> DEFINE x == Accepted
             y == Client
             h == "server"
             i == input[h].segment
             low == Add(i.seq, 1)
             w(iss) == tcp_socket_send(
                         World(x, [create_tcp_socket(iss) EXCEPT
                                     !.state = "SYN_RCVD", !.listed = TRUE,
                                     !.rx_win_low = low, !.rx_win_high = Add(low, WinSize - 1)]),
                         {"SYN", "ACK"}, iss, <<>>)
  <1>1. /\ TcpTypeOK /\ x \in Ends /\ y \in Ends /\ y = PeerOf(x) /\ x \in Sockets /\ y \in Sockets
        /\ x # y /\ x # Listener /\ y # Listener /\ Other(HostOf(y)) = h /\ Listener \in Sockets
        /\ h \in Hosts
    BY Constants DEF TcpIndInv, Ends, PeerOf, Sockets, Other, HostOf, Hosts
  <1>2. /\ input[h] # Idle /\ "SYN" \in i.flags /\ sock[x].state = "NONE"
        /\ input' = [input EXCEPT ![h] = Idle] /\ UNCHANGED <<written, got>>
    BY DEF tcp_input_accepts
  <1>3. PICK iss \in InitialSeqs :
          /\ sock' = [sock EXCEPT ![x] = [w(iss).s EXCEPT !.tx_win_low = Add(iss, 1)],
                                  ![Listener] = dec_socket_ref(@)]
          /\ net' = net \cup w(iss).out
    BY DEF tcp_input_accepts
  <1>4. iss \in Num
    BY TcpAssumption DEF Num
  <1>5. i \in net /\ i.to = h
    BY <1>1, <1>2 DEF StreamInv
  <1>6. low = b[y] /\ sock[y].state # "NONE" /\ b[y] \in Num
    <2>1. Tells(i, sock[y], End(y, b)) /\ b \in [Ends -> Num]
      BY <1>1, <1>5 DEF StreamInv
    <2>2. End(y, b).own = b[y]
      BY EndIs
    <2>3. low = End(y, b).own /\ sock[y].state # "NONE"
      <3>1. i.flags # {"RST"}
        BY <1>2
      <3> QED BY <1>2, <2>1, <3>1 DEF Tells
    <2> QED BY <1>1, <2>1, <2>2, <2>3
  <1>7. low \in Num
    BY <1>6
  <1> HIDE DEF low
  <1> DEFINE s == [w(iss).s EXCEPT !.tx_win_low = Add(iss, 1)]
             q == tcp_send(Other(HostOf(x)), {"SYN", "ACK"}, iss, low, <<>>)
             b2 == [b EXCEPT ![x] = Add(iss, 1)]
  <1>8. /\ s \in Socket /\ s.state = "SYN_RCVD" /\ s.rx_buffer = <<>> /\ s.tx_buffer = <<>>
    <2>1. New(s) /\ s.state = "SYN_RCVD"
      BY <1>4, <1>7, Answers
    <2> HIDE DEF s
    <2> QED BY <2>1 DEF New
  <1>9. s.rx_win_low = low /\ s.tx_win_low = Add(iss, 1) /\ Fits(s) /\ w(iss).out = {q}
    BY <1>4, <1>7, AnswerNumbers
  <1>10. sock' = [sock EXCEPT ![x] = s, ![Listener] = dec_socket_ref(@)] /\ net' = net \cup {q}
    BY <1>3, <1>9
  <1>11. /\ q.data = <<>> /\ q.seq = iss /\ q.flags = {"SYN", "ACK"} /\ q.to = Other(HostOf(x))
         /\ q.ack = low
    BY DEF tcp_send
  <1>12. Add(iss, 1) \in Num
    BY <1>4, Numbers DEF Num
  <1>13. b2 \in [Ends -> Num] /\ b2[y] = b[y] /\ b2[x] = Add(iss, 1)
    BY <1>1, <1>12 DEF StreamInv
  <1> HIDE DEF s, q, b2, w
  <1>14. sock'[x] = s /\ sock'[y] = sock[y] /\ sock'[Listener] = dec_socket_ref(sock[Listener])
    BY <1>1, <1>10 DEF TcpTypeOK
  <1>15. InputSent'
    <2>1. \A g \in Hosts : input'[g] = input[g] \/ input'[g] = Idle
      BY <1>1, <1>2 DEF TcpTypeOK
    <2>2. net \subseteq net'
      BY <1>10
    <2> QED BY <2>1, <2>2, InputKept
  <1>16. sock'[Listener].state \in Listens
    <2>1. sock[Listener] \in Socket /\ sock[Listener].state \in Listens
      BY <1>1 DEF TcpTypeOK, StreamInv, Listens
    <2> QED BY <1>14, <2>1, ListenerDrops
  <1>17. Add(q.seq, 1) = b2[x] /\ "FIN" \notin q.flags /\ q.ack = b[y]
    BY <1>6, <1>11, <1>13
  <1>18. s.tx_win_low = b2[x] /\ s.rx_win_low = b[y]
    BY <1>6, <1>9, <1>13
  <1>19. \A z \in Sockets : got'[z] = got[z] /\ written'[z] = written[z]
    BY <1>2
  <1> HIDE DEF x, y
  <1>20. Makes(x, y, b, b2, s, q)
    BY <1>2, <1>6, <1>8, <1>9, <1>10, <1>11, <1>13, <1>14, <1>15, <1>16, <1>17, <1>18, <1>19, Zenon
       DEF Makes
  <1>21. StreamInv(b2)'
    BY <1>1, <1>20, Begins
  <1> QED
    BY <1>13, <1>21
-----------------------------------------------------------------------------
(* Before anything is opened, any numbers will do.                         *)
LEMMA StreamsInitially == Init => StreamIndInv
  <1> SUFFICES ASSUME Init PROVE StreamIndInv
    OBVIOUS
  <1>1. TcpIndInv
    BY Initially
  <1> DEFINE b == [x \in Ends |-> 0]
  <1>2. b \in [Ends -> Num]
    BY Constants DEF Num
  <1> HIDE DEF b
  <1>3. /\ \A x \in Sockets : sock[x] = Unallocated /\ got[x] = <<>> /\ written[x] = 0
        /\ net = {} /\ \A h \in Hosts : input[h] = Idle
    BY DEF Init
  <1>4. Unallocated.state = "NONE" /\ Unallocated.rx_buffer = <<>> /\ Unallocated.tx_buffer = <<>>
    BY DEF Unallocated
  <1>5. ASSUME NEW x \in Ends PROVE Streams(sock[x], End(x, b))
    <2> DEFINE e == End(x, b)
               s == sock[x]
    <2>1. PICK y \in Sockets : y = PeerOf(x) /\ x \in Sockets
      BY EndsAre
    <2>2. e.got = got[x] /\ e.written = written[x] /\ e.state = sock[y].state /\ e.theirs = written[y]
      BY <2>1, EndIs
    <2>3. /\ s.state = "NONE" /\ e.state = "NONE" /\ e.got = <<>> /\ s.rx_buffer = <<>>
          /\ e.written = 0 /\ e.theirs = 0
      BY <1>3, <1>4, <2>1, <2>2
    <2> HIDE DEF e, s
    <2>4. s.state \notin Live /\ s.state \notin Sending /\ e.state \notin Sending
          /\ s.state \notin {"SYN_RCVD", "ESTABLISHED"} /\ s.state \notin {"SYN_RCVD"} \cup Writable
          /\ s.state # "SYN_SENT"
      BY <2>3 DEF Live, Sending, Writable, Shut
    <2>5. Sender(s, e)
      BY <2>3, <2>4, Zenon DEF Sender
    <2>6. 0 <= e.theirs
      BY <2>3
    <2>7. e.got \o s.rx_buffer = <<>>
      BY <2>3, Nothing, Zenon
    <2>8. /\ e.got \o s.rx_buffer = Counting(0, Len(e.got \o s.rx_buffer))
          /\ Len(e.got \o s.rx_buffer) <= e.theirs
      BY <2>6, <2>7, Nothing, Zenon
    <2>9. Receiver(s, e)
      BY <2>4, <2>7, <2>8, Zenon DEF Receiver
    <2> QED BY <2>5, <2>9 DEF Streams, e, s
  <1>6. sock[Listener].state = "NONE"
    BY <1>3, <1>4 DEF Sockets
  <1>7. StreamInv(b)
    BY <1>2, <1>3, <1>5, <1>6 DEF StreamInv
  <1> QED
    BY <1>1, <1>2, <1>7 DEF StreamIndInv

(* Every step keeps the streams in order.                                  *)
LEMMA StreamsInductive ==
  ASSUME StreamIndInv, [Next]_vars
  PROVE  StreamIndInv'
  <1>1. TcpIndInv /\ TcpIndInv'
    BY Inductive DEF StreamIndInv
  <1>2. PICK b \in [Ends -> Num] : StreamInv(b)
    BY DEF StreamIndInv
  <1>3. SUFFICES \E b2 \in [Ends -> Num] : StreamInv(b2)'
    BY <1>1 DEF StreamIndInv
  <1>4. SUFFICES ASSUME ~tcp_connect, ~tcp_input_accepts PROVE StreamInv(b)'
    BY <1>1, <1>2, ConnectStream, AcceptStream
  <1>5. CASE Next
    <2>1. CASE tcp_connect_returns \/ tcp_open_listen \/ tcp_accept_returns
      BY <1>1, <1>2, <2>1, ListenStream
    <2>2. CASE tcp_accept
      BY <1>1, <1>2, <2>2, CallStream
    <2>3. ASSUME NEW m \in net, tcp_input(m) PROVE StreamInv(b)'
      BY <1>1, <1>2, <2>3, InputStream
    <2>4. ASSUME NEW h \in Hosts, tcp_input_handles(h) \/ Callback(h) PROVE StreamInv(b)'
      BY <1>1, <1>2, <2>4, HandleStream, CallbackStream
    <2>5. ASSUME NEW x \in Sockets, NEW timer \in {"ack", "retransmit", "time_wait"},
                 net_timer_work_routine(x, timer)
          PROVE  StreamInv(b)'
      BY <1>1, <1>2, <2>5, TimerStream DEF Timers
    <2>6. ASSUME NEW x \in Sockets,
                 tcp_read(x) \/ (\E len \in 1 .. Bytes(x) : tcp_write(x, len))
          PROVE  StreamInv(b)'
      BY <1>1, <1>2, <2>6, CallStream
    <2>7. ASSUME NEW x \in Sockets, tcp_read_runs(x) \/ tcp_write_runs(x) \/ tcp_close(x)
          PROVE  StreamInv(b)'
      BY <1>1, <1>2, <2>7, ReadStream, WriteStream, CloseStream
    <2> QED
      BY <1>4, <1>5, <2>1, <2>2, <2>3, <2>4, <2>5, <2>6, <2>7 DEF Next
  <1>6. CASE UNCHANGED vars
    <2>1. UNCHANGED <<sock, net, input, written, got>>
      BY <1>6 DEF vars, connvars
    <2>2. InputSent' /\ sock'[Listener].state \in Listens
      BY <1>2, <2>1, InputKept DEF StreamInv, Listens
    <2> QED BY <1>2, <2>1, <2>2, Still
  <1> QED
    BY <1>5, <1>6

(* Some numbers put both streams in order in every reachable state.        *)
LEMMA StreamsInvariant == Spec => []StreamIndInv
  BY StreamsInitially, StreamsInductive, PTL DEF Spec

(* Streams in order are what the application sees.                         *)
LEMMA Intact == StreamIndInv => StreamIntact
  <1> SUFFICES ASSUME StreamIndInv PROVE StreamIntact
    OBVIOUS
  <1>1. PICK b \in [Ends -> Num] : StreamInv(b)
    BY DEF StreamIndInv
  <1>2. ASSUME NEW x \in Ends, NEW y, y = PeerOf(x), sock[x].state # "FREED"
        PROVE  /\ Received(x) = Counting(0, Len(Received(x)))
               /\ Len(Received(x)) <= written[y]
               /\ sock[y].state = "ESTABLISHED" =>
                    written[y] - Len(sock[y].tx_buffer) <= Len(Received(x))
    <2> DEFINE e == End(x, b)
    <2>1. Streams(sock[x], e)
      BY <1>1 DEF StreamInv
    <2>2. /\ e.got = got[x] /\ e.theirs = written[y] /\ e.state = sock[y].state
          /\ e.acked = written[y] - Len(sock[y].tx_buffer)
      BY <1>2, EndIs
    <2> HIDE DEF e
    <2>3. Receiver(sock[x], e)
      BY <1>2, <2>1 DEF Streams
    <2>4. Received(x) = e.got \o sock[x].rx_buffer
      BY <2>2, Zenon DEF Received
    <2>5. e.state = "ESTABLISHED" => e.state \in Sending
      BY DEF Sending, Writable
    <2>6. Received(x) = Counting(0, Len(Received(x))) /\ Len(Received(x)) <= e.theirs
          /\ (e.state \in Sending => e.acked <= Len(Received(x)))
      BY <2>3, <2>4, Zenon DEF Receiver
    <2> QED BY <2>2, <2>5, <2>6, Zenon
  <1>3. ASSUME NEW x \in Ends
        PROVE  Counting(0, Len(Received(x))) = [i \in 1 .. Len(Received(x)) |-> i]
    <2> DEFINE n == Len(Received(x))
    <2>1. Counting(0, n) = [i \in 1 .. n |-> 0 + i]
      BY DEF Counting
    <2> HIDE DEF n
    <2>2. \A i \in 1 .. n : 0 + i = i
      OBVIOUS
    <2>3. [i \in 1 .. n |-> 0 + i] = [i \in 1 .. n |-> i]
      BY <2>2
    <2>4. Counting(0, n) = [i \in 1 .. n |-> i]
      BY <2>1, <2>3, Zenon
    <2> QED BY <2>4 DEF n
  <1>4. ASSUME NEW x \in Ends, sock[x].state # "FREED"
        PROVE  /\ Received(x) = [i \in 1 .. Len(Received(x)) |-> i]
               /\ Len(Received(x)) <= written[PeerOf(x)]
               /\ sock[PeerOf(x)].state = "ESTABLISHED" =>
                    written[PeerOf(x)] - Len(sock[PeerOf(x)].tx_buffer) <= Len(Received(x))
    BY <1>2, <1>3, <1>4, Zenon
  <1> QED
    BY <1>4, Zenon DEF StreamIntact, Ends

(* Whatever the network loses, delays, repeats or reorders, and whenever   *)
(* the timers fire, tcp_read returns the bytes that the peer gave to       *)
(* tcp_write, each once and in order, and handle_ack takes a byte out of   *)
(* the peer's buffer only after it has arrived: for every window, segment  *)
(* and buffer size, and first sequence numbers that wrap.                  *)
THEOREM BytesArriveIntact == Spec => []StreamIntact
  BY StreamsInvariant, Intact, PTL
=============================================================================
