------------------------------ MODULE TcpProofs ------------------------------
(***************************************************************************)
(* Proofs about lib/minip/tcp.c and its timers, for any windows, segment   *)
(* sizes and sequence numbers: reference counts are exact and nobody uses  *)
(* a freed socket, nobody sleeps through what it waits for, and what has   *)
(* to be sent again or acknowledged has a timer.                           *)
(***************************************************************************)
EXTENDS Tcp, FiniteSetTheorems, SequenceTheorems, TLAPS

Num == 0 .. Modulus - 1

Timers == {"ack", "retransmit", "time_wait"}

Open == {"LISTEN", "SYN_SENT", "SYN_RCVD", "ESTABLISHED", "CLOSE_WAIT", "CLOSED"}

Socket ==
  [state : Open \cup {"NONE", "FREED", "LAST_ACK", "FIN_WAIT_1", "FIN_WAIT_2", "CLOSING",
                      "TIME_WAIT"},
   ref : Int, listed : BOOLEAN, rx_win_low : Num, rx_win_high : Num,
   rx_buffer : Seq(Int), rx_full_mss_count : Int, tx_win_low : Num, tx_highest_seq : Num,
   tx_buffer : Seq(Int), timers : SUBSET Timers,
   rx_event : BOOLEAN, tx_event : BOOLEAN, connect_event : BOOLEAN]

Segment ==
  [to : Hosts, flags : SUBSET {"SYN", "ACK", "FIN", "RST"}, seq : Num, ack : Num,
   data : Seq(Int)]

One(p) == IF p THEN 1 ELSE 0

(* The holders of x other than the list and the queued timers. *)
Others(x) ==
  One(reading[x]) + One(writing[x] > 0) + One(x = Listener /\ accepting)
  + One(input[HostOf(x)].socket = x) + One(firing[HostOf(x)].socket = x)

(* The timer of x whose callback is due. *)
Due(x) == {t \in Timers : firing[HostOf(x)] = [socket |-> x, timer |-> t]}

(* Beside the list and the queued timers, k hold a reference to s. *)
Balanced(s, k) == s \in Socket /\ s.ref = Cardinality(s.timers) + One(s.listed) + k

(* What a socket's lock does not protect, the context of a step under it:  *)
(* what was read and written, the due callback, and who has the handle.    *)
Context(x) ==
  [x |-> x, got |-> got[x], written |-> written[x], due |-> Due(x), user |-> user[x]]

(* An event is only down while there is something to wait for. *)
Events(s) ==
  /\ ~s.rx_event => /\ s.rx_buffer = <<>>
                    /\ s.state \in {"LISTEN", "SYN_SENT", "SYN_RCVD", "ESTABLISHED"}
  /\ ~s.tx_event => Len(s.tx_buffer) = TxSize /\ s.state \in {"ESTABLISHED", "CLOSE_WAIT"}
  /\ s.connect_event => s.state # "SYN_SENT"

Writable == {"ESTABLISHED", "CLOSE_WAIT"}

(* What is in flight is in the buffer, and will be sent again. *)
Transmits(s, c) ==
  /\ Len(s.rx_buffer) <= WinSize - 1
  /\ Len(s.tx_buffer) <= c.written
  /\ c.written \in Nat /\ c.written <= Bytes(c.x)
  /\ s.state \in Writable => Outstanding(s) <= Len(s.tx_buffer)
  /\ s.state \in Writable /\ Outstanding(s) # 0 => "retransmit" \in s.timers \cup c.due

(* A socket leaves the list only after it was closed; the time-wait timer, *)
(* set once, is what removes it from TIME_WAIT.                            *)
Closes(s, c) ==
  /\ s.state \notin {"NONE", "FREED"}
  /\ s.state = "LISTEN" => c.x = Listener
  /\ s.state = "SYN_SENT" => c.user = "none" /\ c.x = Client
  /\ s.state = "SYN_RCVD" => c.got = <<>> /\ s.rx_buffer = <<>>
  /\ ~s.listed => s.state \in {"CLOSED", "TIME_WAIT"} /\ c.user = "closed"
  /\ c.user # "closed" => s.state \in Open
  /\ "time_wait" \in s.timers \cup c.due =>
       s.state \in {"CLOSED", "TIME_WAIT"} /\ (s.state = "TIME_WAIT" => s.listed)
  /\ "time_wait" \notin s.timers \cap c.due

Sound(s, c, k) == Balanced(s, k) /\ Events(s) /\ Transmits(s, c) /\ Closes(s, c)

AckIn(s, c, sent) ==
  \E m \in sent : m.to = Other(HostOf(c.x)) /\ "ACK" \in m.flags /\ m.ack = s.rx_win_low

(* What was received is acknowledged in one of the segments sent, or will  *)
(* be when the timer fires.                                                *)
Acknowledges(s, c, sent) ==
  s.state = "ESTABLISHED" /\ ~(c.got = <<>> /\ s.rx_buffer = <<>>) =>
    "ack" \in s.timers \cup c.due \/ AckIn(s, c, sent)

(* Not allocated yet, or freed: nobody holds it. *)
Absent(x) ==
  /\ \/ sock[x] = Unallocated /\ user[x] = "none" /\ got[x] = <<>>
     \/ sock[x] = Freed /\ user[x] = "closed"
  /\ Others(x) = 0

SocketInv(x) ==
  \/ Absent(x)
  \/ Sound(sock[x], Context(x), Others(x)) /\ Acknowledges(sock[x], Context(x), net)

TcpTypeOK ==
  /\ sock \in [Sockets -> Socket]
  /\ accepted \in {NULL, Accepted}
  /\ net \subseteq Segment
  /\ \A h \in Hosts :
       /\ \/ input[h] = Idle
          \/ input[h] \in [socket : Sockets, segment : Segment] /\ HostOf(input[h].socket) = h
       /\ \/ firing[h] = Idle
          \/ firing[h] \in [socket : Sockets, timer : Timers] /\ HostOf(firing[h].socket) = h
  /\ DOMAIN input = Hosts /\ DOMAIN firing = Hosts
  /\ user \in [Sockets -> {"none", "open", "closed"}]
  /\ accepting \in BOOLEAN
  /\ reading \in [Sockets -> BOOLEAN]
  /\ writing \in [Sockets -> Nat]
  /\ written \in [Sockets -> Nat]
  /\ got \in [Sockets -> Seq(Int)]

(* Who calls has the handle; the socket that waits to be accepted is not   *)
(* anybody's yet.                                                          *)
CallersOK ==
  /\ \A x \in Sockets : reading[x] \/ writing[x] > 0 => user[x] # "none" /\ x # Listener
  /\ accepting => user[Listener] # "none"
  /\ \A x \in Sockets : written[x] + writing[x] <= Bytes(x)
  /\ accepted = Accepted => user[Accepted] = "none" /\ sock[Accepted].state # "NONE"

TcpIndInv == TcpTypeOK /\ CallersOK /\ \A x \in Sockets : SocketInv(x)
-----------------------------------------------------------------------------
(* What the proofs use of TcpAssumption.                                   *)
LEMMA Constants ==
  /\ Modulus \in Nat /\ Modulus > 0
  /\ MSS \in Nat /\ MSS > 0 /\ WinSize \in Nat /\ WinSize > 0 /\ TxSize \in Nat /\ TxSize > 0
  /\ Client # Listener /\ Client # Accepted /\ Listener # Accepted
  /\ \A x \in Sockets : x # NULL
  <1>1. ClientBytes + ServerBytes + WinSize + 2 < Modulus \div 2 /\ Modulus \in Nat
        /\ ClientBytes \in Nat /\ ServerBytes \in Nat /\ WinSize \in Nat
    BY TcpAssumption
  <1>2. Modulus \div 2 > 0
    BY <1>1
  <1>3. Modulus > 0
    BY <1>1, <1>2
  <1> QED
    BY <1>1, <1>3, TcpAssumption DEF Sockets

(* Sequence numbers are closed under uint32_t addition and subtraction.    *)
LEMMA Numbers ==
  ASSUME NEW a \in Int, NEW b \in Int
  PROVE  Add(a, b) \in Num /\ Diff(a, b) \in Num
  BY Constants DEF Add, Diff, Num

(* uint32_t subtraction of sequence numbers, without modulo.               *)
LEMMA Difference ==
  ASSUME NEW a \in Num, NEW b \in Num
  PROVE  Diff(a, b) \in Num /\ Diff(a, b) = IF a >= b THEN a - b ELSE a - b + Modulus
  BY Constants DEF Diff, Num

(* uint32_t addition of sequence numbers, without modulo.                  *)
LEMMA Sum ==
  ASSUME NEW a \in Num, NEW b \in Num
  PROVE  Add(a, b) \in Num /\ Add(a, b) = IF a + b < Modulus THEN a + b ELSE a + b - Modulus
  BY Constants DEF Add, Num

(* The range of the signed comparisons.                                    *)
LEMMA Half == Modulus \div 2 \in Nat /\ 2 * (Modulus \div 2) <= Modulus
  BY Constants

(* An acknowledgement of what is in flight leaves the rest of it. *)
LEMMA AckedPart ==
  ASSUME NEW low \in Num, NEW high \in Num, NEW seq \in Num, NEW n \in Nat,
         n < Modulus \div 2, Diff(high, low) <= n, Diff(seq, low) <= n, ~SEQUENCE_GT(seq, high)
  PROVE  Diff(high, seq) = Diff(high, low) - Diff(seq, low)
  <1>1. PICK o \in Num : o = Diff(high, low) /\ o = IF high >= low THEN high - low ELSE high - low + Modulus
    BY Difference
  <1>2. PICK a \in Num : a = Diff(seq, low) /\ a = IF seq >= low THEN seq - low ELSE seq - low + Modulus
    BY Difference
  <1>3. PICK d \in Num : d = Diff(seq, high) /\ d = IF seq >= high THEN seq - high ELSE seq - high + Modulus
    BY Difference
  <1>4. PICK e \in Num : e = Diff(high, seq) /\ e = IF high >= seq THEN high - seq ELSE high - seq + Modulus
    BY Difference
  <1>5. ~(d < Modulus \div 2 /\ d > 0)
    BY <1>3, Half DEF SEQUENCE_GT, Signed, Num
  <1>6. o < Modulus \div 2 /\ a < Modulus \div 2
    BY <1>1, <1>2, Half DEF Num
  <1>7. e = o - a
    BY <1>1, <1>2, <1>3, <1>4, <1>5, <1>6, Half, Constants DEF Num
  <1> QED
    BY <1>1, <1>2, <1>4, <1>7

(* Sending all of n bytes leaves all of them in flight. *)
LEMMA AllSent ==
  ASSUME NEW low \in Num, NEW high \in Num, NEW n \in Num, Diff(high, low) <= n
  PROVE  /\ Diff(n, Diff(high, low)) = n - Diff(high, low)
         /\ Diff(Add(high, n - Diff(high, low)), low) = n
  <1>1. PICK o \in Num : o = Diff(high, low) /\ o = IF high >= low THEN high - low ELSE high - low + Modulus
    BY Difference
  <1>0. o <= n /\ o \in Nat /\ n \in Nat /\ n < Modulus
    BY <1>1, Constants DEF Num
  <1>2. Diff(n, o) = n - o
    <2>1. Diff(n, o) = IF n >= o THEN n - o ELSE n - o + Modulus
      BY <1>1, Difference
    <2> QED
      BY <1>0, <2>1
  <1>3. PICK p \in Num : p = n - o
    BY <1>0, Constants DEF Num
  <1>4. PICK q \in Num : q = Add(high, p) /\ q = IF high + p < Modulus THEN high + p ELSE high + p - Modulus
    BY <1>3, Sum
  <1>5. Diff(q, low) = IF q >= low THEN q - low ELSE q - low + Modulus
    BY <1>4, Difference
  <1>6. Diff(q, low) = n
    BY <1>1, <1>3, <1>4, <1>5, Constants DEF Num
  <1> QED
    BY <1>1, <1>2, <1>3, <1>4, <1>6

(* Queueing a timer and taking one out change their number by one.         *)
LEMMA TimerSets ==
  ASSUME NEW T \in SUBSET Timers, NEW t \in Timers
  PROVE  /\ Cardinality(T) \in Nat
         /\ Cardinality(T) = 0 <=> T = {}
         /\ t \in T => Cardinality(T \ {t}) = Cardinality(T) - 1
         /\ t \notin T => Cardinality(T \cup {t}) = Cardinality(T) + 1
  <1>1. IsFiniteSet(Timers)
    <2>1. IsFiniteSet({}) BY FS_EmptySet
    <2>2. IsFiniteSet({} \cup {"ack"}) BY <2>1, FS_AddElement
    <2>3. IsFiniteSet(({} \cup {"ack"}) \cup {"retransmit"}) BY <2>2, FS_AddElement
    <2>4. IsFiniteSet((({} \cup {"ack"}) \cup {"retransmit"}) \cup {"time_wait"})
      BY <2>3, FS_AddElement
    <2>5. Timers = (({} \cup {"ack"}) \cup {"retransmit"}) \cup {"time_wait"}
      BY DEF Timers
    <2> QED
      BY <2>4, <2>5
  <1>2. IsFiniteSet(T)
    BY <1>1, FS_Subset
  <1> QED
    BY <1>2, FS_CardinalityType, FS_EmptySet, FS_AddElement, FS_RemoveElement

(* r is s with other timers; the count and the right edge of the window    *)
(* are not told.                                                           *)
Like(s, r, T) ==
  /\ r.timers = T
  /\ r.state = s.state /\ r.listed = s.listed
  /\ r.rx_win_low = s.rx_win_low /\ r.rx_buffer = s.rx_buffer
  /\ r.tx_win_low = s.tx_win_low /\ r.tx_highest_seq = s.tx_highest_seq
  /\ r.tx_buffer = s.tx_buffer
  /\ r.rx_event = s.rx_event /\ r.tx_event = s.tx_event /\ r.connect_event = s.connect_event

WithTimers(s, T, n) == [[s EXCEPT !.timers = T] EXCEPT !.ref = n]

(* A socket with other timers and another count is otherwise the same.     *)
LEMMA OtherTimers ==
  ASSUME NEW s \in Socket, NEW T \in SUBSET Timers, NEW n \in Int
  PROVE  /\ WithTimers(s, T, n) \in Socket
         /\ WithTimers(s, T, n).ref = n
         /\ Like(s, WithTimers(s, T, n), T)
  <1>1. WithTimers(s, T, n) \in Socket /\ WithTimers(s, T, n).ref = n
    BY DEF Socket, WithTimers
  <1>2. Like(s, WithTimers(s, T, n), T)
    BY Zenon DEF Like, Socket, WithTimers
  <1> QED
    BY <1>1, <1>2

(* A socket with another count is otherwise the same.                      *)
LEMMA OtherCount ==
  ASSUME NEW s \in Socket, NEW n \in Int
  PROVE  LET q == [s EXCEPT !.ref = n]
         IN  q \in Socket /\ q.ref = n /\ Like(s, q, s.timers)
  <1> DEFINE q == [s EXCEPT !.ref = n]
  <1>1. q \in Socket /\ q.ref = n
    BY DEF Socket
  <1>2. Like(s, q, s.timers)
    BY Zenon DEF Like, Socket
  <1> QED
    BY <1>1, <1>2

(* The count is that of the holders. *)
LEMMA Count ==
  ASSUME NEW s, NEW k \in Int, Balanced(s, k)
  PROVE  /\ s \in Socket /\ s.timers \in SUBSET Timers /\ s.ref \in Int
         /\ Cardinality(s.timers) \in Nat /\ One(s.listed) \in Nat
         /\ s.ref = Cardinality(s.timers) + One(s.listed) + k
         /\ Cardinality(s.timers) = 0 <=> s.timers = {}
         /\ One(s.listed) = 0 <=> ~s.listed
  <1>1. s \in Socket /\ s.timers \in SUBSET Timers /\ s.ref \in Int
        /\ s.ref = Cardinality(s.timers) + One(s.listed) + k
    BY DEF Balanced, Socket
  <1>2. Cardinality(s.timers) \in Nat /\ (Cardinality(s.timers) = 0 <=> s.timers = {})
    <2>1. "ack" \in Timers BY DEF Timers
    <2> QED
      BY <1>1, <2>1, TimerSets
  <1>3. One(s.listed) \in Nat /\ (One(s.listed) = 0 <=> ~s.listed)
    BY DEF One
  <1> QED
    BY <1>1, <1>2, <1>3

(* tcp_timer_set takes a reference only for a timer that is not queued.    *)
LEMMA TimerSet ==
  ASSUME NEW s, NEW k \in Nat, Balanced(s, k), NEW t \in Timers
  PROVE  LET r == tcp_timer_set(s, t) IN Balanced(r, k) /\ Like(s, r, s.timers \cup {t})
  <1>1. s \in Socket /\ s.timers \in SUBSET Timers /\ s.ref \in Int
        /\ Cardinality(s.timers) \in Nat /\ One(s.listed) \in Nat
        /\ s.ref = Cardinality(s.timers) + One(s.listed) + k
    BY Count
  <1>2. CASE t \in s.timers
    <2>1. tcp_timer_set(s, t) = s /\ s.timers \cup {t} = s.timers
      BY <1>2 DEF tcp_timer_set
    <2> QED
      BY <2>1 DEF Like
  <1>3. CASE t \notin s.timers
    <2> DEFINE q == [s EXCEPT !.timers = s.timers \cup {t}]
               r == WithTimers(s, s.timers \cup {t}, s.ref + 1)
    <2>1. tcp_timer_set(s, t) = r
      <3>1. q.ref = s.ref
        BY <1>1 DEF Socket
      <3> QED
        BY <1>3, <3>1 DEF tcp_timer_set, inc_socket_ref, WithTimers
    <2>2. r \in Socket /\ r.ref = s.ref + 1 /\ Like(s, r, s.timers \cup {t})
      <3>1. s.timers \cup {t} \in SUBSET Timers /\ s.ref + 1 \in Int
        BY <1>1
      <3> QED
        BY <1>1, <3>1, OtherTimers
    <2>3. Cardinality(s.timers \cup {t}) = Cardinality(s.timers) + 1
      BY <1>1, <1>3, TimerSets
    <2>4. One(r.listed) = One(s.listed) /\ r.timers = s.timers \cup {t}
      BY <2>2, Zenon DEF Like
    <2>5. Balanced(r, k)
      <3> HIDE DEF r, q
      <3>1. r.ref = Cardinality(r.timers) + One(r.listed) + k
        BY <1>1, <2>2, <2>3, <2>4
      <3> QED
        BY <2>2, <3>1 DEF Balanced
    <2> QED
      BY <2>1, <2>2, <2>5
  <1> QED
    BY <1>2, <1>3

(* tcp_timer_cancel gives back the reference of a timer that is queued,    *)
(* which is not the last while somebody works on the socket.               *)
LEMMA TimerCancel ==
  ASSUME NEW s, NEW k \in Nat, k > 0, Balanced(s, k), NEW t \in Timers
  PROVE  LET r == tcp_timer_cancel(s, t) IN Balanced(r, k) /\ Like(s, r, s.timers \ {t})
  <1>1. s \in Socket /\ s.timers \in SUBSET Timers /\ s.ref \in Int
        /\ Cardinality(s.timers) \in Nat /\ One(s.listed) \in Nat
        /\ s.ref = Cardinality(s.timers) + One(s.listed) + k
    BY Count
  <1>2. CASE t \notin s.timers
    <2>1. tcp_timer_cancel(s, t) = s /\ s.timers \ {t} = s.timers
      BY <1>2 DEF tcp_timer_cancel
    <2> QED
      BY <2>1 DEF Like
  <1>3. CASE t \in s.timers
    <2> DEFINE q == [s EXCEPT !.timers = s.timers \ {t}]
               r == WithTimers(s, s.timers \ {t}, s.ref - 1)
    <2>1. Cardinality(s.timers \ {t}) = Cardinality(s.timers) - 1
          /\ Cardinality(s.timers \ {t}) \in Nat
      <3>1. s.timers \ {t} \in SUBSET Timers
        BY <1>1
      <3> QED
        BY <1>1, <1>3, <3>1, TimerSets
    <2>2. s.ref # 1
      BY <2>1, Count
    <2>3. tcp_timer_cancel(s, t) = r
      <3>1. q.ref = s.ref
        BY <1>1 DEF Socket
      <3> QED
        BY <1>3, <2>2, <3>1 DEF tcp_timer_cancel, dec_socket_ref, WithTimers
    <2>4. r \in Socket /\ r.ref = s.ref - 1 /\ Like(s, r, s.timers \ {t})
      <3>1. s.timers \ {t} \in SUBSET Timers /\ s.ref - 1 \in Int
        BY <1>1
      <3> QED
        BY <1>1, <3>1, OtherTimers
    <2>5. One(r.listed) = One(s.listed) /\ r.timers = s.timers \ {t}
      BY <2>4, Zenon DEF Like
    <2>6. Balanced(r, k)
      <3> HIDE DEF r, q
      <3>1. r.ref = Cardinality(r.timers) + One(r.listed) + k
        BY <1>1, <2>1, <2>4, <2>5
      <3> QED
        BY <2>4, <3>1 DEF Balanced
    <2> QED
      BY <2>3, <2>4, <2>6
  <1> QED
    BY <1>2, <1>3

(* One of k lets go: the socket is freed if it was the last holder. *)
LEMMA Drop ==
  ASSUME NEW s, NEW k \in Nat, k > 0, Balanced(s, k)
  PROVE  LET r == dec_socket_ref(s)
         IN  \/ r = Freed /\ k = 1 /\ ~s.listed /\ s.timers = {}
             \/ Balanced(r, k - 1) /\ Like(s, r, s.timers)
  <1>1. CASE s.ref = 1
    <2>1. k = 1 /\ Cardinality(s.timers) = 0 /\ One(s.listed) = 0
      BY <1>1, Count
    <2>2. ~s.listed /\ s.timers = {}
      BY <2>1, Count
    <2>3. dec_socket_ref(s) = Freed
      BY <1>1 DEF dec_socket_ref
    <2> QED
      BY <2>1, <2>2, <2>3
  <1>2. CASE s.ref # 1
    <2> DEFINE r == [s EXCEPT !.ref = s.ref - 1]
    <2>1. dec_socket_ref(s) = r
      BY <1>2 DEF dec_socket_ref
    <2>2. r \in Socket /\ r.ref = s.ref - 1 /\ Like(s, r, s.timers)
      <3>1. s \in Socket /\ s.timers \in SUBSET Timers /\ s.ref - 1 \in Int
        BY Count
      <3> QED
        BY <3>1, OtherCount
    <2>3. r.listed = s.listed /\ r.timers = s.timers
      BY <2>2 DEF Like
    <2>4. Balanced(r, k - 1)
      BY <2>2, <2>3, Count DEF Balanced
    <2> QED
      BY <2>1, <2>2, <2>4
  <1> QED
    BY <1>1, <1>2
-----------------------------------------------------------------------------
(* Steps under the lock. *)

Faults == {"none", "offset < len", "acked_len", "state == STATE_TIME_WAIT", "lock kept"}

Worlds == [s : Socket, remote : Hosts, out : SUBSET Segment, fault : Faults]

(* Storing the socket of a step.                                           *)
LEMMA Replaced ==
  ASSUME NEW w \in Worlds, NEW r \in Socket
  PROVE  LET v == [w EXCEPT !.s = r]
         IN  v \in Worlds /\ v.s = r /\ v.out = w.out /\ v.remote = w.remote
  BY DEF Worlds

(* A failed assertion stops the step and changes nothing else.             *)
LEMMA Faulted ==
  ASSUME NEW w \in Worlds, NEW f \in Faults
  PROVE  LET v == [w EXCEPT !.fault = f]
         IN  v \in Worlds /\ v.s = w.s /\ v.out = w.out /\ v.remote = w.remote
  BY DEF Worlds

(* Likeness is transitive.                                                 *)
LEMMA Like3 ==
  ASSUME NEW s, NEW r, NEW q, NEW T, NEW U, Like(s, r, T), Like(r, q, U)
  PROVE  Like(s, q, U)
  BY Zenon DEF Like

(* The count stays right if nothing that it counts changes.                *)
LEMMA BalancedSame ==
  ASSUME NEW s, NEW r, NEW k, Balanced(s, k), r \in Socket,
         r.timers = s.timers, r.listed = s.listed, r.ref = s.ref
  PROVE  Balanced(r, k)
  <1>1. One(r.listed) = One(s.listed)
    BY Zenon
  <1> QED
    BY <1>1 DEF Balanced

(* The same, for a socket that is alike.                                   *)
LEMMA BalancedLike ==
  ASSUME NEW s, NEW r, NEW k, Balanced(s, k), r \in Socket, Like(s, r, s.timers), r.ref = s.ref
  PROVE  Balanced(r, k)
  <1>1. r.timers = s.timers /\ r.listed = s.listed
    BY Zenon DEF Like
  <1> QED
    BY <1>1, BalancedSame, Zenon

(* The right edge of the receive window is a sequence number.              *)
LEMMA EdgeIsNum ==
  ASSUME NEW s \in Socket
  PROVE  RxWinHigh(s) \in Num
  <1>1. WinSize - Len(s.rx_buffer) - 1 \in Int /\ s.rx_win_low \in Int /\ s.rx_win_high \in Num
    BY Constants, LenProperties DEF Socket, Num
  <1>2. Add(s.rx_win_low, WinSize - Len(s.rx_buffer) - 1) \in Num
    BY <1>1, Numbers
  <1> QED
    BY <1>1, <1>2 DEF RxWinHigh

(* A segment with ACK acknowledges all that was received and cancels the   *)
(* timer.                                                                  *)
LEMMA Sends ==
  ASSUME NEW w \in Worlds, NEW k \in Nat, k > 0, Balanced(w.s, k),
         NEW flags \in SUBSET {"SYN", "ACK", "FIN", "RST"}, "ACK" \in flags,
         NEW seq \in Num, NEW data \in Seq(Int)
  PROVE  LET v == tcp_socket_send(w, flags, seq, data)
         IN  /\ v \in Worlds /\ v.remote = w.remote /\ w.out \subseteq v.out
             /\ Balanced(v.s, k) /\ Like(w.s, v.s, w.s.timers \ {"ack"})
             /\ \E m \in v.out : m.to = w.remote /\ "ACK" \in m.flags /\ m.ack = w.s.rx_win_low
  <1> DEFINE s == [w.s EXCEPT !.rx_win_high = RxWinHigh(w.s)]
             r == tcp_timer_cancel(s, "ack")
             m == tcp_send(w.remote, flags, seq, s.rx_win_low, data)
             v == tcp_socket_send(w, flags, seq, data)
  <1>1. w.s \in Socket /\ w.remote \in Hosts /\ w.out \subseteq Segment
    BY DEF Worlds
  <1>2. s \in Socket /\ s.ref = w.s.ref /\ s.timers = w.s.timers /\ s.rx_win_low = w.s.rx_win_low
    BY <1>1, EdgeIsNum DEF Socket
  <1>3. Like(w.s, s, w.s.timers)
    BY <1>1, Zenon DEF Socket, Like
  <1>4. Balanced(s, k)
    <2> HIDE DEF s
    <2> QED BY <1>2, <1>3, BalancedLike
  <1>5. Balanced(r, k) /\ Like(s, r, s.timers \ {"ack"})
    <2>1. "ack" \in Timers BY DEF Timers
    <2> HIDE DEF s
    <2> QED BY <1>4, <2>1, TimerCancel
  <1>6. Like(w.s, r, w.s.timers \ {"ack"})
    <2> HIDE DEF s, r
    <2> QED BY <1>2, <1>3, <1>5, Like3
  <1>7. m \in Segment /\ m.to = w.remote /\ m.flags = flags /\ m.ack = w.s.rx_win_low
    <2>1. w.s.rx_win_low \in Num
      BY <1>1 DEF Socket
    <2> HIDE DEF s
    <2> QED BY <1>1, <1>2, <2>1 DEF Segment, tcp_send
  <1>8. v = [w EXCEPT !.s = r, !.out = w.out \cup {m}]
    BY DEF tcp_socket_send
  <1>9. r \in Socket
    BY <1>5 DEF Balanced
  <1> HIDE DEF s, r, m, v
  <1>10. v \in Worlds /\ v.s = r /\ v.out = w.out \cup {m} /\ v.remote = w.remote
    BY <1>1, <1>7, <1>8, <1>9 DEF Worlds
  <1>11. \E n \in v.out : n.to = w.remote /\ "ACK" \in n.flags /\ n.ack = w.s.rx_win_low
    BY <1>7, <1>10
  <1> QED
    BY <1>5, <1>6, <1>10, <1>11 DEF v

(* Timers other than the time-wait timer come and go; only a resend that   *)
(* is owed must stay.                                                      *)
LEMMA SoundLike ==
  ASSUME NEW s, NEW r, NEW c, NEW k, NEW j, NEW T, Sound(s, c, k), Balanced(r, j), Like(s, r, T),
         "time_wait" \in T <=> "time_wait" \in s.timers,
         "retransmit" \in s.timers => "retransmit" \in T
  PROVE  Sound(r, c, j)
  <1>1. Events(r)
    BY Zenon DEF Sound, Events, Like
  <1>2. Transmits(r, c)
    <2>1. Outstanding(r) = Outstanding(s)
      BY DEF Outstanding, Like
    <2>2. /\ r.timers = T /\ r.state = s.state
          /\ r.rx_buffer = s.rx_buffer /\ r.tx_buffer = s.tx_buffer
      BY DEF Like
    <2> QED
      BY <2>1, <2>2 DEF Sound, Transmits
  <1>3. Closes(r, c)
    <2>1. /\ r.timers = T /\ r.state = s.state /\ (r.listed <=> s.listed)
          /\ r.rx_buffer = s.rx_buffer
      BY Zenon DEF Like
    <2>2. Closes(s, c)
      BY DEF Sound
    <2> QED
      BY <2>1, <2>2, Zenon DEF Closes
  <1> QED
    BY <1>1, <1>2, <1>3 DEF Sound

(* A world of socket c.x, in good order but perhaps for a missing          *)
(* acknowledgement ...                                                     *)
NearlyIn(w, c, k) == w \in Worlds /\ w.remote = Other(HostOf(c.x)) /\ Sound(w.s, c, k)

(* ... and in good order, when sent is in the network. *)
In(w, c, k, sent) == NearlyIn(w, c, k) /\ Acknowledges(w.s, c, sent \cup w.out)

(* tcp_socket_send with ACK acknowledges what was received, so the timer   *)
(* that it cancels is not missed.                                          *)
LEMMA SendKeeps ==
  ASSUME NEW w, NEW c, NEW k \in Nat, k > 0, NearlyIn(w, c, k), NEW sent,
         NEW flags \in SUBSET {"SYN", "ACK", "FIN", "RST"}, "ACK" \in flags,
         NEW seq \in Num, NEW data \in Seq(Int)
  PROVE  LET v == tcp_socket_send(w, flags, seq, data)
         IN  /\ In(v, c, k, sent) /\ w.out \subseteq v.out
             /\ Like(w.s, v.s, w.s.timers \ {"ack"})
  <1> DEFINE v == tcp_socket_send(w, flags, seq, data)
  <1>1. w \in Worlds /\ w.remote = Other(HostOf(c.x)) /\ Sound(w.s, c, k) /\ Balanced(w.s, k)
    BY DEF NearlyIn, Sound
  <1>2. /\ v \in Worlds /\ v.remote = w.remote /\ w.out \subseteq v.out
        /\ Balanced(v.s, k) /\ Like(w.s, v.s, w.s.timers \ {"ack"})
        /\ \E m \in v.out : m.to = w.remote /\ "ACK" \in m.flags /\ m.ack = w.s.rx_win_low
    BY <1>1, Sends
  <1> HIDE DEF v
  <1>3. Sound(v.s, c, k)
    BY <1>1, <1>2, SoundLike
  <1>4. v.s.rx_win_low = w.s.rx_win_low
    BY <1>2 DEF Like
  <1>5. AckIn(v.s, c, sent \cup v.out)
    BY <1>1, <1>2, <1>4 DEF AckIn
  <1>6. Acknowledges(v.s, c, sent \cup v.out)
    BY <1>5 DEF Acknowledges
  <1> QED
    BY <1>1, <1>2, <1>3, <1>6 DEF In, NearlyIn, v

(* send_ack does so in the states that acknowledge, and sends nothing in   *)
(* the others.                                                             *)
LEMMA SendAckKeeps ==
  ASSUME NEW w, NEW c, NEW k \in Nat, k > 0, NearlyIn(w, c, k), NEW sent
  PROVE  LET v == send_ack(w)
         IN  /\ In(v, c, k, sent) /\ w.out \subseteq v.out
             /\ Like(w.s, v.s, v.s.timers)
             /\ v.s.timers \subseteq w.s.timers
  <1>1. CASE w.s.state \in {"ESTABLISHED", "CLOSE_WAIT", "FIN_WAIT_2"}
    <2>1. send_ack(w) = tcp_socket_send(w, {"ACK"}, w.s.tx_win_low, <<>>)
      BY <1>1 DEF send_ack
    <2>2. w.s.tx_win_low \in Num /\ <<>> \in Seq(Int)
      BY DEF NearlyIn, Worlds, Socket
    <2> DEFINE v == tcp_socket_send(w, {"ACK"}, w.s.tx_win_low, <<>>)
    <2>3. /\ In(v, c, k, sent) /\ w.out \subseteq v.out
          /\ Like(w.s, v.s, w.s.timers \ {"ack"})
      BY <2>2, SendKeeps
    <2> HIDE DEF v
    <2>4. v.s.timers = w.s.timers \ {"ack"}
      BY <2>3 DEF Like
    <2> QED
      BY <2>1, <2>3, <2>4 DEF v
  <1>2. CASE w.s.state \notin {"ESTABLISHED", "CLOSE_WAIT", "FIN_WAIT_2"}
    <2>1. send_ack(w) = w
      BY <1>2 DEF send_ack
    <2>2. In(w, c, k, sent)
      BY <1>2 DEF In, Acknowledges
    <2> QED
      BY <2>1, <2>2 DEF Like
  <1> QED
    BY <1>1, <1>2

(* Closes looks at the state, the list and the time-wait timer only.       *)
LEMMA ClosesSame ==
  ASSUME NEW s, NEW r, NEW c, Closes(s, c), r.state = s.state, r.listed = s.listed,
         s.state = "SYN_RCVD" => r.rx_buffer = s.rx_buffer,
         "time_wait" \in r.timers <=> "time_wait" \in s.timers
  PROVE  Closes(r, c)
  BY Zenon DEF Closes

(* An acknowledgement that was sent, or has its timer, stays valid.        *)
LEMMA AcknowledgesSame ==
  ASSUME NEW s, NEW r, NEW c, NEW sent, NEW more, Acknowledges(s, c, sent), sent \subseteq more,
         r.state = s.state, r.rx_buffer = s.rx_buffer, r.rx_win_low = s.rx_win_low,
         "ack" \in s.timers => "ack" \in r.timers
  PROVE  Acknowledges(r, c, more)
  BY DEF Acknowledges, AckIn

(* The transmit buffer is less than half the range of sequence numbers.    *)
LEMMA TxFits ==
  ASSUME NEW s \in Socket, NEW c, Transmits(s, c)
  PROVE  Len(s.tx_buffer) \in Nat /\ Len(s.tx_buffer) < Modulus \div 2
         /\ s.tx_buffer \in Seq(Int) /\ Len(s.tx_buffer) \in Num
  <1>1. s.tx_buffer \in Seq(Int) /\ Len(s.tx_buffer) \in Nat
    BY LenProperties DEF Socket
  <1>2. Len(s.tx_buffer) <= Bytes(c.x) /\ Bytes(c.x) \in Nat
    BY <1>1, TcpAssumption DEF Transmits, Bytes
  <1>3. Bytes(c.x) < Modulus \div 2
    BY TcpAssumption, Half DEF Bytes
  <1>4. Len(s.tx_buffer) < Modulus \div 2
    BY <1>1, <1>2, <1>3, Half
  <1>5. Len(s.tx_buffer) < Modulus
    BY <1>1, <1>4, Half, Constants
  <1> QED
    BY <1>1, <1>4, <1>5, Constants DEF Num

(* handle_ack drops what was acknowledged, wakes the writer, and keeps or  *)
(* cancels the retransmission timer as what is left requires.              *)
LEMMA HandleAck ==
  ASSUME NEW w, NEW c, NEW k \in Nat, k > 0, NEW sent, In(w, c, k, sent),
         NEW sequence \in Num, w.s.state \in Writable
  PROVE  LET v == handle_ack(w, sequence)
         IN  In(v, c, k, sent) /\ v.s.state = w.s.state /\ v.out = w.out
  <1> DEFINE s == w.s
             acked_len == Diff(sequence, s.tx_win_low)
             s1 == [s EXCEPT !.tx_buffer = SubSeq(@, acked_len + 1, Len(@)),
                             !.tx_win_low = sequence, !.tx_event = TRUE]
             v == handle_ack(w, sequence)
  <1>1. /\ w \in Worlds /\ s \in Socket /\ Balanced(s, k) /\ Sound(s, c, k)
        /\ Acknowledges(s, c, sent \cup w.out) /\ w.remote = Other(HostOf(c.x))
    BY DEF In, NearlyIn, Sound, Worlds
  <1>2. CASE SEQUENCE_LTE(sequence, s.tx_win_low) \/ SEQUENCE_GT(sequence, s.tx_highest_seq)
    <2>1. v = w
      BY <1>2 DEF handle_ack
    <2> QED BY <2>1
  <1>3. CASE /\ ~(SEQUENCE_LTE(sequence, s.tx_win_low) \/ SEQUENCE_GT(sequence, s.tx_highest_seq))
             /\ acked_len > Len(s.tx_buffer)
    <2>1. v = [w EXCEPT !.fault = "acked_len"]
      BY <1>3 DEF handle_ack
    <2>2. v \in Worlds /\ v.s = s /\ v.out = w.out /\ v.remote = w.remote
      <3>1. "acked_len" \in Faults BY DEF Faults
      <3> HIDE DEF v, s, s1
      <3>2. w \in Worlds BY <1>1
      <3>3. v \in Worlds /\ v.s = w.s /\ v.out = w.out /\ v.remote = w.remote
        BY <3>2, <2>1, <3>1, Faulted
      <3> QED
        BY <3>3 DEF s
    <2> HIDE DEF v
    <2> QED
      BY <1>1, <2>2 DEF In, NearlyIn, v
  <1>4. CASE /\ ~(SEQUENCE_LTE(sequence, s.tx_win_low) \/ SEQUENCE_GT(sequence, s.tx_highest_seq))
             /\ ~(acked_len > Len(s.tx_buffer))
    <2> DEFINE n == Len(s.tx_buffer)
               rest == SubSeq(s.tx_buffer, acked_len + 1, n)
               r == IF sequence = s.tx_highest_seq THEN tcp_timer_cancel(s1, "retransmit")
                    ELSE tcp_timer_set(s1, "retransmit")
    <2>1. v = [w EXCEPT !.s = r]
      BY <1>4 DEF handle_ack
    <2>2. s.tx_win_low \in Num /\ s.tx_highest_seq \in Num /\ acked_len \in Num /\ acked_len \in Nat
      <3>1. s.tx_win_low \in Num /\ s.tx_highest_seq \in Num
        BY <1>1 DEF Socket
      <3>2. acked_len \in Num
        BY <3>1, Difference
      <3> QED
        BY <3>1, <3>2, Constants DEF Num
    <2>3. n \in Nat /\ n < Modulus \div 2 /\ s.tx_buffer \in Seq(Int)
      BY <1>1, TxFits DEF Sound
    <2>4. acked_len <= n
      BY <1>4, <2>2, <2>3
    <2>5. rest \in Seq(Int) /\ Len(rest) = n - acked_len
      <3>1. \A i \in acked_len + 1 .. n : s.tx_buffer[i] \in Int
        BY <2>2, <2>3, LenProperties
      <3>2. rest \in Seq(Int) /\ Len(rest) = IF acked_len + 1 <= n THEN n - (acked_len + 1) + 1 ELSE 0
        BY <2>2, <2>3, <3>1, SubSeqProperties
      <3> QED
        BY <2>2, <2>3, <2>4, <3>2
    <2>6. Diff(s.tx_highest_seq, sequence) = Diff(s.tx_highest_seq, s.tx_win_low) - acked_len
          /\ Diff(s.tx_highest_seq, s.tx_win_low) <= n
      <3>1. Diff(s.tx_highest_seq, s.tx_win_low) <= n
        BY <1>1 DEF Sound, Transmits, Outstanding
      <3> HIDE DEF acked_len
      <3>2. Diff(s.tx_highest_seq, sequence) = Diff(s.tx_highest_seq, s.tx_win_low) - Diff(sequence, s.tx_win_low)
        BY <1>4, <2>2, <2>3, <2>4, <3>1, AckedPart DEF acked_len
      <3> QED
        BY <3>1, <3>2 DEF acked_len
    <2> HIDE DEF acked_len, rest
    <2>7. /\ s1 \in Socket /\ s1.ref = s.ref /\ s1.timers = s.timers /\ s1.state = s.state
          /\ s1.rx_buffer = s.rx_buffer /\ s1.rx_win_low = s.rx_win_low
          /\ s1.tx_buffer = rest /\ s1.tx_win_low = sequence /\ s1.tx_highest_seq = s.tx_highest_seq
      BY <1>1, <2>5 DEF Socket, rest
    <2>8. s1.listed = s.listed /\ s1.rx_event = s.rx_event /\ s1.tx_event = TRUE
          /\ s1.connect_event = s.connect_event
      BY <1>1, Zenon DEF Socket
    <2> HIDE DEF s1, r, s
    <2>9. Balanced(s1, k)
      BY <1>1, <2>7, <2>8, BalancedSame
    <2>10. PICK T : /\ Balanced(r, k) /\ Like(s1, r, T)
                    /\ T = IF sequence = s.tx_highest_seq THEN s1.timers \ {"retransmit"}
                           ELSE s1.timers \cup {"retransmit"}
      <3>1. "retransmit" \in Timers BY DEF Timers
      <3> QED
        BY <2>9, <3>1, TimerCancel, TimerSet DEF r
    <2>11. /\ r.timers = T /\ r.state = s.state /\ r.rx_buffer = s.rx_buffer
           /\ r.rx_win_low = s.rx_win_low /\ r.tx_buffer = rest /\ r.tx_win_low = sequence
           /\ r.tx_highest_seq = s.tx_highest_seq
      BY <2>7, <2>10 DEF Like
    <2>12. r.listed = s.listed /\ r.rx_event = s.rx_event /\ r.tx_event = TRUE
           /\ r.connect_event = s.connect_event
      BY <2>8, <2>10, Zenon DEF Like
    <2>13. Events(r)
      BY <1>1, <2>11, <2>12, Zenon DEF Sound, Events
    <2>14. Transmits(r, c)
      <3>1. Outstanding(r) = Diff(s.tx_highest_seq, sequence)
        BY <2>11 DEF Outstanding
      <3>2. Outstanding(r) <= Len(rest)
        <4>0. Diff(s.tx_highest_seq, s.tx_win_low) \in Num
          BY <2>2, Difference
        <4>1. Diff(s.tx_highest_seq, s.tx_win_low) \in Int
          BY <4>0, Constants DEF Num
        <4> QED BY <2>2, <2>3, <2>5, <2>6, <3>1, <4>1
      <3>3. Outstanding(r) # 0 => "retransmit" \in T
        <4>1. sequence = s.tx_highest_seq => Outstanding(r) = 0
          BY <2>2, <3>1, Difference DEF Num
        <4> QED BY <2>10, <4>1
      <3>4. Len(rest) <= n
        BY <2>2, <2>3, <2>5
      <3>5. Transmits(s, c)
        BY <1>1 DEF Sound
      <3>6. Len(rest) <= c.written
        BY <2>3, <2>5, <2>2, <3>4, <3>5 DEF Transmits
      <3> QED
        BY <2>11, <3>2, <3>3, <3>5, <3>6 DEF Transmits
    <2>15. "time_wait" \in r.timers <=> "time_wait" \in s.timers
      BY <2>7, <2>10, <2>11
    <2>16. Closes(r, c)
      BY <1>1, <2>11, <2>12, <2>15, ClosesSame DEF Sound
    <2>17. Acknowledges(r, c, sent \cup w.out)
      <3>1. "ack" \in s.timers => "ack" \in r.timers
        BY <2>7, <2>10, <2>11
      <3> QED
        BY <1>1, <2>11, <3>1, AcknowledgesSame
    <2>18. r \in Socket
      BY <2>10 DEF Balanced
    <2>19. v \in Worlds /\ v.s = r /\ v.out = w.out /\ v.remote = w.remote
      BY <1>1, <2>1, <2>18, Replaced
    <2> HIDE DEF v
    <2> QED
      BY <1>1, <2>10, <2>11, <2>13, <2>14, <2>16, <2>17, <2>19 DEF In, NearlyIn, Sound, v, s
  <1> QED
    BY <1>2, <1>3, <1>4
(* The smaller of two numbers.                                             *)
LEMMA Smaller ==
  ASSUME NEW a \in Int, NEW b \in Int
  PROVE  Least(a, b) <= a /\ Least(a, b) <= b /\ Least(a, b) \in {a, b}
  BY DEF Least

(* What is stored are bytes of the segment, and they fit. *)
LEMMA StoredFits ==
  ASSUME NEW s \in Socket, Len(s.rx_buffer) <= WinSize - 1, NEW part \in Seq(Int)
  PROVE  s.rx_buffer \o Stored(s, part) \in Seq(Int)
         /\ Len(s.rx_buffer \o Stored(s, part)) <= WinSize - 1
  <1> DEFINE n == Least(Len(part), WinSize - 1 - Len(s.rx_buffer))
  <1>1. s.rx_buffer \in Seq(Int) /\ Len(s.rx_buffer) \in Nat /\ Len(part) \in Nat /\ WinSize \in Nat
    BY Constants, LenProperties DEF Socket
  <1>2. n \in Nat /\ n <= Len(part) /\ n <= WinSize - 1 - Len(s.rx_buffer)
    <2>0. PICK m \in Nat : m = Len(s.rx_buffer) /\ m <= WinSize - 1
      BY <1>1
    <2>1. PICK room \in Nat : room = WinSize - 1 - m
      <3>1. WinSize - 1 - m \in Nat
        BY <2>0, Constants
      <3> QED BY <3>1
    <2>2. Least(Len(part), room) <= Len(part) /\ Least(Len(part), room) <= room
          /\ Least(Len(part), room) \in {Len(part), room}
      <3>1. Len(part) \in Int /\ room \in Int BY <1>1
      <3> QED BY <3>1, Smaller
    <2> QED
      BY <1>1, <2>0, <2>1, <2>2
  <1> HIDE DEF n
  <1>3. \A i \in 1 .. n : part[i] \in Int
    BY <1>1, <1>2, LenProperties
  <1>4. SubSeq(part, 1, n) \in Seq(Int) /\ Len(SubSeq(part, 1, n)) = IF 1 <= n THEN n - 1 + 1 ELSE 0
    BY <1>2, <1>3, SubSeqProperties
  <1>5. Stored(s, part) = SubSeq(part, 1, n)
    BY DEF Stored, n
  <1>6. Stored(s, part) \in Seq(Int) /\ Len(Stored(s, part)) = n
    BY <1>2, <1>4, <1>5
  <1>7. s.rx_buffer \o Stored(s, part) \in Seq(Int)
        /\ Len(s.rx_buffer \o Stored(s, part)) = Len(s.rx_buffer) + Len(Stored(s, part))
    BY <1>1, <1>6, ConcatProperties
  <1> QED
    BY <1>1, <1>2, <1>6, <1>7

(* A part of a segment from inside of it. *)
LEMMA PartOf ==
  ASSUME NEW data \in Seq(Int), NEW offset \in Nat, NEW n \in Nat, offset + n <= Len(data)
  PROVE  SubSeq(data, offset + 1, offset + n) \in Seq(Int)
  <1>1. \A i \in offset + 1 .. offset + n : data[i] \in Int
    BY LenProperties
  <1> QED
    BY <1>1, SubSeqProperties

(* Data that begins in the window is stored, wakes the reader and is       *)
(* acknowledged or sets the timer.                                         *)
LEMMA InWindowKeeps ==
  ASSUME NEW w, NEW c, NEW k \in Nat, k > 0, NEW sent, In(w, c, k, sent),
         NEW sequence \in Num, NEW data \in Seq(Int), w.s.state = "ESTABLISHED"
  PROVE  LET v == InWindow(w, data, sequence)
         IN  In(v, c, k, sent) /\ v.s.state = "ESTABLISHED" /\ w.out \subseteq v.out
  <1> DEFINE s == w.s
             offset == Diff(sequence, s.rx_win_low)
             copy_len == Least(Diff(s.rx_win_high, s.rx_win_low), Len(data) - offset)
             full == IF copy_len >= MSS THEN s.rx_full_mss_count + 1 ELSE 0
             low == Add(s.rx_win_low, copy_len)
             at_once == full >= 2 \/ Signed(Diff(low + WinSize, s.rx_win_high)) > WinSize \div 2
             part == SubSeq(data, offset + 1, offset + copy_len)
             count == IF at_once THEN 0 ELSE full
             buffer == s.rx_buffer \o Stored(s, part)
             s1 == [s EXCEPT !.rx_win_low = low, !.rx_event = TRUE, !.rx_buffer = buffer,
                             !.rx_full_mss_count = count]
             v == InWindow(w, data, sequence)
  <1>1. /\ w \in Worlds /\ s \in Socket /\ Balanced(s, k) /\ Sound(s, c, k)
        /\ Acknowledges(s, c, sent \cup w.out) /\ w.remote = Other(HostOf(c.x))
    BY DEF In, NearlyIn, Sound, Worlds
  <1>2. CASE offset >= Len(data)
    <2>1. v = [w EXCEPT !.fault = "offset < len"]
      BY <1>2 DEF InWindow
    <2>2. "offset < len" \in Faults BY DEF Faults
    <2> HIDE DEF v, s
    <2>3. v \in Worlds /\ v.s = w.s /\ v.out = w.out /\ v.remote = w.remote
      BY <1>1, <2>1, <2>2, Faulted
    <2> QED
      BY <1>1, <2>3 DEF In, NearlyIn, v, s
  <1>3. CASE ~(offset >= Len(data))
    <2>1. v = IF at_once THEN send_ack([w EXCEPT !.s = s1])
              ELSE [w EXCEPT !.s = tcp_timer_set(s1, "ack")]
      BY <1>3 DEF InWindow
    <2>2. s.rx_win_low \in Num /\ s.rx_win_high \in Num /\ s.rx_full_mss_count \in Int
      BY <1>1 DEF Socket
    <2>3. offset \in Num /\ Diff(s.rx_win_high, s.rx_win_low) \in Num
      BY <2>2, Difference
    <2>4. offset \in Nat /\ Diff(s.rx_win_high, s.rx_win_low) \in Nat /\ Len(data) \in Nat
          /\ s.rx_win_low \in Int
      BY <2>2, <2>3, Constants, LenProperties DEF Num
    <2> HIDE DEF offset
    <2>5. copy_len \in Nat /\ offset + copy_len <= Len(data)
      BY <1>3, <2>4 DEF Least
    <2> HIDE DEF copy_len
    <2>6. low \in Num
      BY <2>4, <2>5, Numbers
    <2>7. count \in Int
      BY <2>2
    <2>8. part \in Seq(Int)
      BY <2>4, <2>5, PartOf
    <2>9. buffer \in Seq(Int) /\ Len(buffer) <= WinSize - 1
      <3>1. Len(s.rx_buffer) <= WinSize - 1
        BY <1>1 DEF Sound, Transmits
      <3> HIDE DEF s, part
      <3> QED
        BY <1>1, <2>8, <3>1, StoredFits
    <2> HIDE DEF low, count, part, buffer, at_once
    <2>10. /\ s1 \in Socket /\ s1.ref = s.ref /\ s1.timers = s.timers /\ s1.state = s.state
           /\ s1.rx_buffer = buffer
           /\ s1.tx_buffer = s.tx_buffer /\ s1.tx_win_low = s.tx_win_low
           /\ s1.tx_highest_seq = s.tx_highest_seq
      BY <1>1, <2>6, <2>7, <2>9 DEF Socket
    <2>11. s1.listed = s.listed /\ s1.rx_event = TRUE /\ s1.tx_event = s.tx_event
           /\ s1.connect_event = s.connect_event
      BY <1>1, Zenon DEF Socket
    <2>12. s.state = "ESTABLISHED"
      OBVIOUS
    <2> HIDE DEF s1, s
    <2>13. Balanced(s1, k)
      BY <1>1, <2>10, <2>11, BalancedSame
    <2>14. Sound(s1, c, k)
      <3>1. Events(s1)
        BY <1>1, <2>10, <2>11, Zenon DEF Sound, Events
      <3>2. Transmits(s1, c)
        <4>1. Outstanding(s1) = Outstanding(s)
          BY <2>10 DEF Outstanding
        <4> QED BY <1>1, <2>9, <2>10, <4>1 DEF Sound, Transmits
      <3>3. Closes(s1, c)
        BY <1>1, <2>10, <2>11, <2>12, ClosesSame DEF Sound
      <3> QED
        BY <2>13, <3>1, <3>2, <3>3 DEF Sound
    <2>15. CASE at_once
      <3> DEFINE w1 == [w EXCEPT !.s = s1]
      <3>1. w1 \in Worlds /\ w1.s = s1 /\ w1.out = w.out /\ w1.remote = w.remote
        BY <1>1, <2>10, Replaced
      <3>2. v = send_ack(w1)
        BY <2>1, <2>15
      <3> HIDE DEF w1, v
      <3>3. NearlyIn(w1, c, k)
        BY <1>1, <2>14, <3>1 DEF NearlyIn
      <3>4. /\ In(v, c, k, sent) /\ w1.out \subseteq v.out /\ Like(w1.s, v.s, v.s.timers)
        BY <3>2, <3>3, SendAckKeeps
      <3>5. v.s.state = "ESTABLISHED"
        BY <2>10, <2>12, <3>1, <3>4 DEF Like
      <3> QED
        BY <3>1, <3>4, <3>5 DEF v
    <2>16. CASE ~at_once
      <3> DEFINE r == tcp_timer_set(s1, "ack")
      <3>1. Balanced(r, k) /\ Like(s1, r, s1.timers \cup {"ack"})
        <4>1. "ack" \in Timers BY DEF Timers
        <4> QED BY <2>13, <4>1, TimerSet
      <3>2. v = [w EXCEPT !.s = r]
        BY <2>1, <2>16
      <3> HIDE DEF r, v
      <3>3. Sound(r, c, k)
        BY <2>14, <3>1, SoundLike
      <3>4. r.state = "ESTABLISHED" /\ "ack" \in r.timers
        BY <2>10, <2>12, <3>1 DEF Like
      <3>5. v \in Worlds /\ v.s = r /\ v.out = w.out /\ v.remote = w.remote
        <4>1. r \in Socket BY <3>1 DEF Balanced
        <4> QED BY <1>1, <3>2, <4>1, Replaced
      <3>6. Acknowledges(r, c, sent \cup v.out)
        BY <3>4 DEF Acknowledges
      <3> QED
        BY <1>1, <3>3, <3>4, <3>5, <3>6 DEF In, NearlyIn, v
    <2> QED
      BY <2>15, <2>16
  <1> QED
    BY <1>2, <1>3

(* handle_data does so, or acknowledges again.                             *)
LEMMA HandleData ==
  ASSUME NEW w, NEW c, NEW k \in Nat, k > 0, NEW sent, In(w, c, k, sent),
         NEW sequence \in Num, NEW data \in Seq(Int), w.s.state = "ESTABLISHED"
  PROVE  LET v == handle_data(w, data, sequence)
         IN  In(v, c, k, sent) /\ v.s.state = "ESTABLISHED" /\ w.out \subseteq v.out
  <1> DEFINE v == handle_data(w, data, sequence)
  <1>1. CASE v = InWindow(w, data, sequence)
    <2>1. In(v, c, k, sent) /\ v.s.state = "ESTABLISHED" /\ w.out \subseteq v.out
      <3> HIDE DEF v
      <3> QED BY <1>1, InWindowKeeps
    <2> QED BY <2>1
  <1>2. CASE v = send_ack(w)
    <2>1. NearlyIn(w, c, k)
      BY DEF In
    <2>2. In(v, c, k, sent) /\ w.out \subseteq v.out /\ Like(w.s, v.s, v.s.timers)
      BY <1>2, <2>1, SendAckKeeps
    <2> HIDE DEF v
    <2> QED BY <2>2 DEF Like, v
  <1> QED
    BY <1>1, <1>2 DEF handle_data
(* Sent or not, a reset changes nothing else. *)
LEMMA SendResetKeeps ==
  ASSUME NEW w, NEW c, NEW k, NEW sent, In(w, c, k, sent)
  PROVE  In(send_reset(w), c, k, sent)
  <1> DEFINE v == send_reset(w)
  <1>1. Reset(w.remote) \in Segment
    BY Constants DEF In, NearlyIn, Worlds, Reset, tcp_send, Segment, Num
  <1>2. v \in Worlds /\ v.s = w.s /\ v.remote = w.remote /\ w.out \subseteq v.out
    <2>1. w \in Worlds
      BY DEF In, NearlyIn
    <2> QED
      BY <1>1, <2>1 DEF Worlds, send_reset
  <1>3. Acknowledges(v.s, c, sent \cup v.out)
    BY <1>2 DEF In, Acknowledges, AckIn
  <1> QED
    BY <1>2, <1>3 DEF In, NearlyIn

RemoteClosed(s) == [s EXCEPT !.state = "CLOSED"]

(* tcp_remote_close wakes whoever waits and cancels what is to be sent.    *)
LEMMA RemoteClose ==
  ASSUME NEW s, NEW c, NEW k \in Nat, k > 0, Sound(s, c, k)
  PROVE  LET r == tcp_remote_close(s)
         IN  Sound(r, c, k) /\ r.state = "CLOSED" /\ r.listed = s.listed /\ r.rx_buffer = s.rx_buffer
  <1>1. s \in Socket /\ Balanced(s, k)
    BY DEF Sound, Balanced
  <1>2. CASE s.state = "CLOSED"
    <2>1. tcp_remote_close(s) = s
      BY <1>2 DEF tcp_remote_close
    <2> QED
      BY <1>2, <2>1
  <1>3. CASE s.state # "CLOSED"
    <2> DEFINE a == RemoteClosed(s)
               b == tcp_timer_cancel(a, "retransmit")
               d == tcp_timer_cancel(b, "ack")
               r == tcp_wakeup_waiters(d)
    <2>1. tcp_remote_close(s) = r
      BY <1>3 DEF tcp_remote_close, RemoteClosed
    <2>2. a \in Socket /\ a.ref = s.ref /\ a.timers = s.timers /\ a.state = "CLOSED"
          /\ a.rx_buffer = s.rx_buffer /\ a.tx_buffer = s.tx_buffer
      BY <1>1 DEF Socket, RemoteClosed, Open
    <2>3. a.listed = s.listed
      BY <1>1, Zenon DEF Socket, RemoteClosed
    <2>4. Balanced(a, k)
      <3> HIDE DEF a
      <3> QED BY <1>1, <2>2, <2>3, BalancedSame
    <2>5. "retransmit" \in Timers /\ "ack" \in Timers
      BY DEF Timers
    <2>6. Balanced(b, k) /\ Like(a, b, a.timers \ {"retransmit"})
      <3> HIDE DEF a
      <3> QED BY <2>4, <2>5, TimerCancel
    <2>7. Balanced(d, k) /\ Like(b, d, b.timers \ {"ack"})
      <3> HIDE DEF a, b
      <3> QED BY <2>5, <2>6, TimerCancel
    <2> HIDE DEF a, b, d
    <2>8. /\ d \in Socket /\ d.state = "CLOSED" /\ d.timers \subseteq s.timers
          /\ ("time_wait" \in d.timers <=> "time_wait" \in s.timers)
          /\ d.rx_buffer = s.rx_buffer /\ d.tx_buffer = s.tx_buffer
      BY <2>2, <2>6, <2>7 DEF Like, Balanced
    <2>9. d.listed = s.listed
      BY <2>3, <2>6, <2>7, Zenon DEF Like
    <2>10. /\ r \in Socket /\ r.ref = d.ref /\ r.state = "CLOSED" /\ r.timers = d.timers
           /\ r.rx_buffer = s.rx_buffer /\ r.tx_buffer = s.tx_buffer
      BY <2>8 DEF Socket, tcp_wakeup_waiters
    <2>11. r.listed = d.listed /\ r.rx_event /\ r.tx_event
      BY <2>8, Zenon DEF Socket, tcp_wakeup_waiters
    <2> HIDE DEF r
    <2>12. Balanced(r, k)
      BY <2>7, <2>10, <2>11, BalancedSame
    <2>13. Events(r)
      BY <2>10, <2>11 DEF Events
    <2>14. Transmits(r, c)
      BY <2>10 DEF Sound, Transmits, Writable
    <2>15. Closes(r, c)
      <3>1. r.listed = s.listed
        BY <2>9, <2>11, Zenon
      <3>2. "time_wait" \in r.timers <=> "time_wait" \in s.timers
        BY <2>8, <2>10
      <3>3. Closes(s, c)
        BY DEF Sound
      <3> QED
        BY <2>10, <3>1, <3>2, <3>3, Zenon DEF Closes, Open
    <2>16. r.listed = s.listed
      BY <2>9, <2>11, Zenon
    <2> QED
      BY <2>1, <2>10, <2>12, <2>13, <2>14, <2>15, <2>16 DEF Sound
  <1> QED
    BY <1>2, <1>3

(* The reference of the list goes to the caller. *)
LEMMA Removed ==
  ASSUME NEW s, NEW k \in Nat, Balanced(s, k), s.listed
  PROVE  LET a == remove_socket_from_list(s)
         IN  /\ Balanced(a, k + 1) /\ a.timers = s.timers /\ a.state = s.state
             /\ a.rx_buffer = s.rx_buffer /\ a.tx_buffer = s.tx_buffer
             /\ a.listed = FALSE /\ a.rx_event = s.rx_event /\ a.tx_event = s.tx_event
             /\ a.connect_event = s.connect_event
  <1> DEFINE a == remove_socket_from_list(s)
  <1>1. s \in Socket
    BY DEF Balanced
  <1>2. /\ a \in Socket /\ a.ref = s.ref /\ a.timers = s.timers /\ a.state = s.state
        /\ a.rx_buffer = s.rx_buffer /\ a.tx_buffer = s.tx_buffer
    BY <1>1 DEF Socket, remove_socket_from_list
  <1>3. a.listed = FALSE /\ a.rx_event = s.rx_event /\ a.tx_event = s.tx_event
        /\ a.connect_event = s.connect_event
    BY <1>1, Zenon DEF Socket, remove_socket_from_list
  <1> HIDE DEF a
  <1>4. Balanced(a, k + 1)
    <2>1. One(a.listed) = 0 /\ One(s.listed) = 1
      BY <1>3 DEF One
    <2>2. Cardinality(s.timers) \in Nat
      BY Count
    <2>3. s.ref = Cardinality(s.timers) + One(s.listed) + k
      BY Zenon DEF Balanced
    <2>4. a.ref = Cardinality(a.timers) + One(a.listed) + (k + 1)
      <3>1. s.ref = Cardinality(s.timers) + 1 + k
        BY <2>1, <2>3, Zenon
      <3>2. Cardinality(s.timers) + 1 + k = Cardinality(s.timers) + 0 + (k + 1)
        BY <2>2
      <3>3. a.ref = Cardinality(a.timers) + 0 + (k + 1)
        BY <1>2, <3>1, <3>2
      <3> QED
        BY <2>1, <3>3, Zenon
    <2> QED
      BY <1>2, <2>4 DEF Balanced
  <1> QED
    BY <1>2, <1>3, <1>4, Zenon DEF a

(* A closed socket whose remaining holders include the caller leaves the   *)
(* list.                                                                   *)
LEMMA Unlists ==
  ASSUME NEW s, NEW c, NEW k \in Nat, k > 0, Sound(s, c, k), s.listed, c.user = "closed",
         s.state \in {"CLOSED", "TIME_WAIT"},
         s.state = "TIME_WAIT" => "time_wait" \notin s.timers \cup c.due
  PROVE  LET r == dec_socket_ref(remove_socket_from_list(s))
         IN  Sound(r, c, k) /\ r.state = s.state
  <1> DEFINE a == remove_socket_from_list(s)
             r == dec_socket_ref(a)
  <1>1. s \in Socket /\ Balanced(s, k)
    BY DEF Sound, Balanced
  <1>2. /\ Balanced(a, k + 1) /\ a.timers = s.timers /\ a.state = s.state
        /\ a.rx_buffer = s.rx_buffer /\ a.tx_buffer = s.tx_buffer
        /\ a.listed = FALSE /\ a.rx_event = s.rx_event /\ a.tx_event = s.tx_event
        /\ a.connect_event = s.connect_event
    BY <1>1, Removed
  <1> HIDE DEF a
  <1>3. Balanced(r, k) /\ Like(a, r, a.timers)
    <2>1. PICK j \in Nat : j = k + 1 /\ j > 0 /\ j # 1 /\ j - 1 = k
      <3>1. k + 1 \in Nat /\ k + 1 > 0 /\ k + 1 # 1 /\ (k + 1) - 1 = k
        OBVIOUS
      <3> QED BY <3>1
    <2>2. Balanced(a, j)
      BY <1>2, <2>1
    <2> HIDE DEF r
    <2>3. (r = Freed /\ j = 1) \/ (Balanced(r, j - 1) /\ Like(a, r, a.timers))
      BY <2>1, <2>2, Drop DEF r
    <2> QED
      BY <2>1, <2>3
  <1> HIDE DEF r
  <1>4. /\ r.timers = s.timers /\ r.state = s.state
        /\ r.rx_buffer = s.rx_buffer /\ r.tx_buffer = s.tx_buffer
    BY <1>2, <1>3 DEF Like
  <1>5. r.listed = FALSE /\ r.rx_event = s.rx_event /\ r.tx_event = s.tx_event
        /\ r.connect_event = s.connect_event
    BY <1>2, <1>3, Zenon DEF Like
  <1>6. Events(r)
    BY <1>4, <1>5, Zenon DEF Sound, Events
  <1>7. Transmits(r, c)
    BY <1>4 DEF Sound, Transmits, Writable
  <1>8. Closes(r, c)
    <2>1. Closes(s, c)
      BY DEF Sound
    <2> QED BY <1>4, <2>1 DEF Closes
  <1> QED
    BY <1>3, <1>4, <1>6, <1>7, <1>8 DEF Sound, a, r

(* The four states after the user's close that stay in the list. *)
Shut == {"LAST_ACK", "FIN_WAIT_1", "FIN_WAIT_2", "CLOSING"}

(* Once a socket is shut for reading and writing, only its count and its   *)
(* timers matter.                                                          *)
LEMMA ShutMoves ==
  ASSUME NEW s, NEW r, NEW c, NEW k, Sound(s, c, k), Balanced(r, k),
         s.state \in Shut, r.state \in Shut, r.listed = s.listed, r.timers = s.timers,
         r.rx_buffer = s.rx_buffer, r.tx_buffer = s.tx_buffer,
         r.rx_event = s.rx_event, r.tx_event = s.tx_event
  PROVE  Sound(r, c, k)
  <1>1. Events(r)
    BY Zenon DEF Sound, Events, Shut
  <1>2. Transmits(r, c)
    BY DEF Sound, Transmits, Writable, Shut
  <1>3. Closes(r, c)
    BY Zenon DEF Sound, Closes, Shut, Open
  <1> QED
    BY <1>1, <1>2, <1>3 DEF Sound
-----------------------------------------------------------------------------
(* tcp_input, from the lock on. *)

(* Another step up of the receive window. *)
LEMMA LowMoves ==
  ASSUME NEW w, NEW c, NEW k, NearlyIn(w, c, k)
  PROVE  LET v == [w EXCEPT !.s.rx_win_low = Add(@, 1)]
         IN  NearlyIn(v, c, k) /\ v.s.state = w.s.state /\ v.s.timers = w.s.timers
  <1> DEFINE s == w.s
             r == [s EXCEPT !.rx_win_low = Add(s.rx_win_low, 1)]
             v == [w EXCEPT !.s = r]
  <1>1. w \in Worlds /\ s \in Socket /\ Sound(s, c, k) /\ Balanced(s, k)
        /\ w.remote = Other(HostOf(c.x))
    BY DEF NearlyIn, Worlds, Sound
  <1>2. [w EXCEPT !.s.rx_win_low = Add(@, 1)] = v
    OBVIOUS
  <1>3. Add(s.rx_win_low, 1) \in Num
    <2>1. s.rx_win_low \in Int
      BY <1>1, Constants DEF Socket, Num
    <2> QED BY <2>1, Numbers
  <1>4. /\ r \in Socket /\ r.ref = s.ref /\ r.timers = s.timers /\ r.state = s.state
        /\ r.rx_buffer = s.rx_buffer /\ r.tx_buffer = s.tx_buffer
        /\ r.tx_win_low = s.tx_win_low /\ r.tx_highest_seq = s.tx_highest_seq
    BY <1>1, <1>3 DEF Socket
  <1>5. r.listed = s.listed /\ r.rx_event = s.rx_event /\ r.tx_event = s.tx_event
        /\ r.connect_event = s.connect_event
    BY <1>1, Zenon DEF Socket
  <1> HIDE DEF r, s
  <1>6. Balanced(r, k)
    BY <1>1, <1>4, <1>5, BalancedSame
  <1>7. Events(r)
    BY <1>1, <1>4, <1>5, Zenon DEF Sound, Events
  <1>8. Transmits(r, c)
    <2>1. Outstanding(r) = Outstanding(s)
      BY <1>4 DEF Outstanding
    <2> QED BY <1>1, <1>4, <2>1 DEF Sound, Transmits
  <1>9. Closes(r, c)
    BY <1>1, <1>4, <1>5, ClosesSame DEF Sound
  <1>10. v \in Worlds /\ v.s = r /\ v.remote = w.remote
    BY <1>1, <1>4, Replaced
  <1> HIDE DEF v
  <1> QED
    BY <1>1, <1>2, <1>4, <1>6, <1>7, <1>8, <1>9, <1>10 DEF NearlyIn, Sound, s

(* One lemma per state of tcp_input's switch.  SYN_RCVD:                   *)
LEMMA SynRcvdKeeps ==
  ASSUME NEW w, NEW c, NEW k \in Nat, k > 0, NEW sent, In(w, c, k, sent), NEW m \in Segment,
         w.s.state = "SYN_RCVD"
  PROVE  In(in_SYN_RCVD(w, m), c, k, sent)
  <1> DEFINE s == w.s
             r == [s EXCEPT !.tx_highest_seq = s.tx_win_low, !.state = "ESTABLISHED"]
             v == [w EXCEPT !.s = r]
  <1>1. w \in Worlds /\ s \in Socket /\ Sound(s, c, k) /\ Balanced(s, k)
        /\ w.remote = Other(HostOf(c.x))
    BY DEF In, NearlyIn, Worlds, Sound
  <1>2. in_SYN_RCVD(w, m) = send_reset(w) \/ in_SYN_RCVD(w, m) = v
    BY DEF in_SYN_RCVD
  <1>3. /\ r \in Socket /\ r.ref = s.ref /\ r.timers = s.timers /\ r.state = "ESTABLISHED"
        /\ r.rx_buffer = s.rx_buffer /\ r.tx_buffer = s.tx_buffer
        /\ r.tx_win_low = s.tx_win_low /\ r.tx_highest_seq = s.tx_win_low
        /\ r.tx_win_low \in Num
    BY <1>1 DEF Socket, Open
  <1>4. r.listed = s.listed /\ r.rx_event = s.rx_event /\ r.tx_event = s.tx_event
        /\ r.connect_event = s.connect_event
    BY <1>1, Zenon DEF Socket
  <1>0. s.state = "SYN_RCVD" OBVIOUS
  <1> HIDE DEF r, s
  <1>5. Balanced(r, k)
    BY <1>1, <1>3, <1>4, BalancedSame
  <1>6. Events(r)
    BY <1>0, <1>1, <1>3, <1>4, Zenon DEF Sound, Events
  <1>7. Transmits(r, c)
    <2>1. Outstanding(r) = 0
      BY <1>3, Difference DEF Outstanding, Num
    <2>2. Len(r.tx_buffer) \in Nat
      BY <1>3, LenProperties DEF Socket
    <2> QED BY <1>1, <1>3, <2>1, <2>2 DEF Sound, Transmits
  <1>8. Closes(r, c) /\ c.got = <<>> /\ r.rx_buffer = <<>>
    <2>1. Closes(s, c) BY <1>1 DEF Sound
    <2>2. c.got = <<>> /\ s.rx_buffer = <<>>
      BY <1>0, <2>1 DEF Closes
    <2>3. Closes(r, c)
      BY <1>0, <1>3, <1>4, <2>1, Zenon DEF Closes, Open
    <2> QED
      BY <1>3, <2>2, <2>3
  <1>9. v \in Worlds /\ v.s = r /\ v.remote = w.remote /\ v.out = w.out
    BY <1>1, <1>3, Replaced
  <1> HIDE DEF v
  <1>10. In(v, c, k, sent)
    BY <1>1, <1>5, <1>6, <1>7, <1>8, <1>9 DEF In, NearlyIn, Sound, Acknowledges
  <1> QED
    BY <1>2, <1>10, SendResetKeeps

(* SYN_SENT.                                                               *)
LEMMA SynSentKeeps ==
  ASSUME NEW w, NEW c, NEW k \in Nat, k > 0, NEW sent, In(w, c, k, sent), NEW m \in Segment,
         w.s.state = "SYN_SENT"
  PROVE  In(in_SYN_SENT(w, m), c, k, sent)
  <1> DEFINE s == w.s
             low == Add(m.seq, 1)
             high == Add(low, WinSize - 1)
             r == [s EXCEPT !.rx_win_low = low, !.rx_win_high = high, !.tx_win_low = m.ack,
                            !.tx_highest_seq = m.ack, !.state = "ESTABLISHED"]
             v == [w EXCEPT !.s = r]
             w1 == send_ack(v)
             w2 == [w1 EXCEPT !.s.connect_event = TRUE]
  <1>1. w \in Worlds /\ s \in Socket /\ Sound(s, c, k) /\ Balanced(s, k)
        /\ w.remote = Other(HostOf(c.x))
    BY DEF In, NearlyIn, Worlds, Sound
  <1>2. in_SYN_SENT(w, m) = send_reset(w) \/ in_SYN_SENT(w, m) = w2
    BY DEF in_SYN_SENT
  <1>3. low \in Num /\ high \in Num /\ m.ack \in Num
    <2>1. m.seq \in Int /\ m.ack \in Num /\ WinSize - 1 \in Int
      BY Constants DEF Segment, Num
    <2>2. low \in Num
      BY <2>1, Numbers
    <2>3. low \in Int
      BY <2>2, Constants DEF Num
    <2> HIDE DEF low
    <2> QED BY <2>1, <2>2, <2>3, Numbers
  <1> HIDE DEF low, high
  <1>4. /\ r \in Socket /\ r.ref = s.ref /\ r.timers = s.timers /\ r.state = "ESTABLISHED"
        /\ r.rx_buffer = s.rx_buffer /\ r.tx_buffer = s.tx_buffer
        /\ r.tx_win_low = m.ack /\ r.tx_highest_seq = m.ack
    BY <1>1, <1>3 DEF Socket, Open
  <1>5. r.listed = s.listed /\ r.rx_event = s.rx_event /\ r.tx_event = s.tx_event
        /\ r.connect_event = s.connect_event
    BY <1>1, Zenon DEF Socket
  <1>0. s.state = "SYN_SENT" OBVIOUS
  <1> HIDE DEF r, s
  <1>6. Balanced(r, k)
    BY <1>1, <1>4, <1>5, BalancedSame
  <1>7. Events(r)
    BY <1>0, <1>1, <1>4, <1>5, Zenon DEF Sound, Events
  <1>8. Transmits(r, c)
    <2>1. Outstanding(r) = 0
      <3>1. Diff(m.ack, m.ack) = IF m.ack >= m.ack THEN m.ack - m.ack ELSE m.ack - m.ack + Modulus
        BY <1>3, Difference
      <3>2. m.ack \in Int
        BY <1>3 DEF Num
      <3> QED BY <1>4, <3>1, <3>2 DEF Outstanding
    <2>2. Len(r.tx_buffer) \in Nat
      BY <1>4, LenProperties DEF Socket
    <2> QED BY <1>1, <1>4, <2>1, <2>2 DEF Sound, Transmits
  <1>9. Closes(r, c)
    <2>1. Closes(s, c) BY <1>1 DEF Sound
    <2> QED
      BY <1>0, <1>4, <1>5, <2>1, Zenon DEF Closes, Open
  <1>10. v \in Worlds /\ v.s = r /\ v.remote = w.remote /\ v.out = w.out
    BY <1>1, <1>4, Replaced
  <1> HIDE DEF v
  <1>11. NearlyIn(v, c, k)
    BY <1>1, <1>6, <1>7, <1>8, <1>9, <1>10 DEF NearlyIn, Sound
  <1>12. In(w1, c, k, sent) /\ Like(v.s, w1.s, w1.s.timers)
    BY <1>11, SendAckKeeps
  <1> HIDE DEF w1
  <1>13. w1 \in Worlds /\ w1.s \in Socket /\ Sound(w1.s, c, k) /\ Balanced(w1.s, k)
        /\ w1.remote = Other(HostOf(c.x)) /\ Acknowledges(w1.s, c, sent \cup w1.out)
    BY <1>12 DEF In, NearlyIn, Worlds, Sound
  <1>14. w1.s.state = "ESTABLISHED"
    BY <1>4, <1>10, <1>12 DEF Like
  <1> DEFINE q == [w1.s EXCEPT !.connect_event = TRUE]
  <1>15. w2 = [w1 EXCEPT !.s = q]
    OBVIOUS
  <1>16. /\ q \in Socket /\ q.ref = w1.s.ref /\ q.timers = w1.s.timers /\ q.state = w1.s.state
         /\ q.rx_buffer = w1.s.rx_buffer /\ q.tx_buffer = w1.s.tx_buffer
         /\ q.tx_win_low = w1.s.tx_win_low /\ q.tx_highest_seq = w1.s.tx_highest_seq
         /\ q.rx_win_low = w1.s.rx_win_low
    BY <1>13 DEF Socket
  <1>17. q.listed = w1.s.listed /\ q.rx_event = w1.s.rx_event /\ q.tx_event = w1.s.tx_event
    BY <1>13, Zenon DEF Socket
  <1> HIDE DEF q
  <1>18. Balanced(q, k)
    BY <1>13, <1>16, <1>17, BalancedSame
  <1>19. Events(q)
    <2>1. q.state # "SYN_SENT" BY <1>14, <1>16
    <2> QED BY <1>13, <1>16, <1>17, <2>1, Zenon DEF Sound, Events
  <1>20. Transmits(q, c)
    <2>1. Outstanding(q) = Outstanding(w1.s)
      BY <1>16 DEF Outstanding
    <2> QED BY <1>13, <1>16, <2>1 DEF Sound, Transmits
  <1>21. Closes(q, c)
    BY <1>13, <1>16, <1>17, ClosesSame DEF Sound
  <1>22. w2 \in Worlds /\ w2.s = q /\ w2.remote = w1.remote /\ w2.out = w1.out
    <2>1. w1 \in Worlds /\ q \in Socket
      BY <1>13, <1>16, Zenon
    <2> QED BY <1>15, <2>1, Replaced
  <1> HIDE DEF w2
  <1>23. Acknowledges(q, c, sent \cup w2.out)
    BY <1>13, <1>16, <1>22, AcknowledgesSame
  <1>24. In(w2, c, k, sent)
    BY <1>13, <1>18, <1>19, <1>20, <1>21, <1>22, <1>23 DEF In, NearlyIn, Sound
  <1> QED
    BY <1>2, <1>24, SendResetKeeps
(* An ACK in ESTABLISHED or CLOSE_WAIT.                                    *)
LEMMA AckedKeeps ==
  ASSUME NEW w, NEW c, NEW k \in Nat, k > 0, NEW sent, In(w, c, k, sent), NEW m \in Segment,
         w.s.state \in Writable
  PROVE  In(Acked(w, m), c, k, sent) /\ Acked(w, m).s.state = w.s.state
  <1>1. m.ack \in Num
    BY DEF Segment
  <1>2. CASE "ACK" \in m.flags
    <2>1. Acked(w, m) = handle_ack(w, m.ack)
      BY <1>2 DEF Acked
    <2> QED BY <1>1, <2>1, HandleAck
  <1>3. CASE "ACK" \notin m.flags
    <2>1. Acked(w, m) = w
      BY <1>3 DEF Acked
    <2> QED BY <2>1
  <1> QED
    BY <1>2, <1>3

(* ESTABLISHED: reset, acknowledgement, data and FIN.                      *)
LEMMA EstablishedKeeps ==
  ASSUME NEW w, NEW c, NEW k \in Nat, k > 0, NEW sent, In(w, c, k, sent), NEW m \in Segment,
         w.s.state = "ESTABLISHED"
  PROVE  In(in_ESTABLISHED(w, m), c, k, sent)
  <1> DEFINE w1 == Acked(w, m)
             w2 == IF m.data # <<>> THEN handle_data(w1, m.data, m.seq) ELSE w1
             v == [w2 EXCEPT !.s.rx_win_low = Add(@, 1)]
             w3 == send_ack(v)
             w4 == [w3 EXCEPT !.s.state = "CLOSE_WAIT", !.s.rx_event = TRUE]
  <1>1. in_ESTABLISHED(w, m) = w4 \/ in_ESTABLISHED(w, m) = w2
    BY DEF in_ESTABLISHED
  <1>2. In(w1, c, k, sent) /\ w1.s.state = "ESTABLISHED"
    BY AckedKeeps DEF Writable
  <1>3. m.seq \in Num /\ m.data \in Seq(Int)
    BY DEF Segment
  <1> HIDE DEF w1
  <1>4. In(w2, c, k, sent) /\ w2.s.state = "ESTABLISHED"
    <2>1. In(handle_data(w1, m.data, m.seq), c, k, sent)
          /\ handle_data(w1, m.data, m.seq).s.state = "ESTABLISHED"
      BY <1>2, <1>3, HandleData
    <2> QED BY <1>2, <2>1
  <1> HIDE DEF w2
  <1>5. NearlyIn(v, c, k) /\ v.s.state = "ESTABLISHED"
    <2>1. NearlyIn(w2, c, k)
      BY <1>4 DEF In
    <2> QED
      BY <1>4, <2>1, LowMoves
  <1> HIDE DEF v
  <1>6. In(w3, c, k, sent) /\ w3.s.state = "ESTABLISHED"
    <2>1. In(w3, c, k, sent) /\ Like(v.s, w3.s, w3.s.timers)
      BY <1>5, SendAckKeeps
    <2> HIDE DEF w3
    <2> QED
      BY <1>5, <2>1 DEF Like
  <1> HIDE DEF w3
  <1> DEFINE s == w3.s
             r == [s EXCEPT !.state = "CLOSE_WAIT", !.rx_event = TRUE]
  <1>7. w4 = [w3 EXCEPT !.s = r]
    OBVIOUS
  <1>8. w3 \in Worlds /\ s \in Socket /\ Sound(s, c, k) /\ Balanced(s, k)
        /\ w3.remote = Other(HostOf(c.x))
    BY <1>6 DEF In, NearlyIn, Worlds, Sound
  <1>9. /\ r \in Socket /\ r.ref = s.ref /\ r.timers = s.timers /\ r.state = "CLOSE_WAIT"
        /\ r.rx_buffer = s.rx_buffer /\ r.tx_buffer = s.tx_buffer
        /\ r.tx_win_low = s.tx_win_low /\ r.tx_highest_seq = s.tx_highest_seq
    BY <1>8 DEF Socket, Open
  <1>10. r.listed = s.listed /\ r.rx_event = TRUE /\ r.tx_event = s.tx_event
    BY <1>8, Zenon DEF Socket
  <1>0. s.state = "ESTABLISHED"
    BY <1>6
  <1> HIDE DEF s, r
  <1>11. Balanced(r, k)
    BY <1>8, <1>9, <1>10, BalancedSame
  <1>12. Events(r)
    <2>1. Events(s) BY <1>8 DEF Sound
    <2> QED BY <1>9, <1>10, <2>1, Zenon DEF Events
  <1>13. Transmits(r, c)
    <2>1. Outstanding(r) = Outstanding(s)
      BY <1>9 DEF Outstanding
    <2> QED BY <1>0, <1>8, <1>9, <2>1 DEF Sound, Transmits, Writable
  <1>14. Closes(r, c)
    <2>1. Closes(s, c) BY <1>8 DEF Sound
    <2> QED BY <1>0, <1>9, <1>10, <2>1, Zenon DEF Closes, Open
  <1> HIDE DEF w4
  <1>15. w4 \in Worlds /\ w4.s = r /\ w4.remote = w3.remote
    BY <1>7, <1>8, <1>9, Replaced
  <1>16. In(w4, c, k, sent)
    <2>1. NearlyIn(w4, c, k)
      BY <1>8, <1>11, <1>12, <1>13, <1>14, <1>15 DEF NearlyIn, Sound
    <2>2. Acknowledges(r, c, sent \cup w4.out)
      BY <1>9 DEF Acknowledges
    <2> QED BY <1>15, <2>1, <2>2 DEF In
  <1> QED
    BY <1>1, <1>4, <1>16

(* CLOSE_WAIT.                                                             *)
LEMMA CloseWaitKeeps ==
  ASSUME NEW w, NEW c, NEW k \in Nat, k > 0, NEW sent, In(w, c, k, sent), NEW m \in Segment,
         w.s.state = "CLOSE_WAIT"
  PROVE  In(in_CLOSE_WAIT(w, m), c, k, sent)
  <1>1. In(Acked(w, m), c, k, sent)
    BY AckedKeeps DEF Writable
  <1>2. NearlyIn(Acked(w, m), c, k)
    BY <1>1 DEF In
  <1>3. In(send_ack(Acked(w, m)), c, k, sent)
    BY <1>2, SendAckKeeps
  <1> QED
    BY <1>1, <1>3 DEF in_CLOSE_WAIT

(* LAST_ACK: an ACK takes the socket off the list.                         *)
LEMMA LastAckKeeps ==
  ASSUME NEW w, NEW c, NEW k \in Nat, k > 0, NEW sent, In(w, c, k, sent), NEW m \in Segment,
         w.s.state = "LAST_ACK"
  PROVE  In(in_LAST_ACK(w, m), c, k, sent)
  <1> DEFINE q == tcp_remote_close(w.s)
             r == dec_socket_ref(remove_socket_from_list(q))
             v == [w EXCEPT !.s = r]
  <1>1. in_LAST_ACK(w, m) = w \/ in_LAST_ACK(w, m) = v
    BY DEF in_LAST_ACK
  <1>2. w \in Worlds /\ Sound(w.s, c, k) /\ w.remote = Other(HostOf(c.x)) /\ Closes(w.s, c)
    BY DEF In, NearlyIn, Sound
  <1>3. w.s.listed /\ c.user = "closed"
    BY <1>2 DEF Closes, Open
  <1>4. Sound(q, c, k) /\ q.state = "CLOSED" /\ q.listed = w.s.listed
    BY <1>2, RemoteClose
  <1> HIDE DEF q
  <1>5. q.listed
    BY <1>3, <1>4, Zenon
  <1>6. Sound(r, c, k) /\ r.state = "CLOSED"
    BY <1>3, <1>4, <1>5, Unlists
  <1>7. r \in Socket
    BY <1>6 DEF Sound, Balanced
  <1> HIDE DEF r
  <1>8. v \in Worlds /\ v.s = r /\ v.remote = w.remote
    BY <1>2, <1>7, Replaced
  <1> HIDE DEF v
  <1>9. In(v, c, k, sent)
    BY <1>2, <1>6, <1>8 DEF In, NearlyIn, Acknowledges
  <1> QED
    BY <1>1, <1>9

(* The time-wait timer is set here and nowhere else. *)
LEMMA TimeWaitKeeps ==
  ASSUME NEW w, NEW c, NEW k \in Nat, k > 0, NEW sent, NearlyIn(w, c, k), w.s.state \in Shut
  PROVE  In(TimeWait(w), c, k, sent)
  <1> DEFINE s == w.s
             a == [s EXCEPT !.state = "TIME_WAIT"]
             r == tcp_timer_set(a, "time_wait")
             v == [w EXCEPT !.s = r]
  <1>1. TimeWait(w) = v
    BY DEF TimeWait
  <1>2. w \in Worlds /\ s \in Socket /\ Sound(s, c, k) /\ Balanced(s, k)
        /\ w.remote = Other(HostOf(c.x)) /\ s.state \in Shut
    BY DEF NearlyIn, Worlds, Sound
  <1>3. /\ a \in Socket /\ a.ref = s.ref /\ a.timers = s.timers /\ a.state = "TIME_WAIT"
        /\ a.rx_buffer = s.rx_buffer /\ a.tx_buffer = s.tx_buffer
    BY <1>2 DEF Socket
  <1>4. a.listed = s.listed /\ a.rx_event = s.rx_event /\ a.tx_event = s.tx_event
    BY <1>2, Zenon DEF Socket
  <1> HIDE DEF s, a
  <1>5. Balanced(a, k)
    BY <1>2, <1>3, <1>4, BalancedSame
  <1>6. Balanced(r, k) /\ Like(a, r, a.timers \cup {"time_wait"})
    <2>1. "time_wait" \in Timers BY DEF Timers
    <2> QED BY <1>5, <2>1, TimerSet
  <1> HIDE DEF r
  <1>7. /\ r \in Socket /\ r.state = "TIME_WAIT" /\ r.timers = s.timers \cup {"time_wait"}
        /\ r.rx_buffer = s.rx_buffer /\ r.tx_buffer = s.tx_buffer
    BY <1>3, <1>6 DEF Like, Balanced
  <1>8. r.listed = s.listed /\ r.rx_event = s.rx_event /\ r.tx_event = s.tx_event
    BY <1>4, <1>6, Zenon DEF Like
  <1>9. Events(r)
    <2>1. Events(s) BY <1>2 DEF Sound
    <2>2. s.rx_event /\ s.tx_event
      BY <1>2, <2>1 DEF Events, Shut
    <2> QED
      BY <1>7, <1>8, <2>2 DEF Events
  <1>10. Transmits(r, c)
    BY <1>2, <1>7 DEF Sound, Transmits, Writable
  <1>11. Closes(r, c)
    <2>1. Closes(s, c) BY <1>2 DEF Sound
    <2>2. s.listed /\ c.user = "closed" /\ "time_wait" \notin c.due
      BY <1>2, <2>1 DEF Closes, Shut, Open
    <2> QED
      BY <1>7, <1>8, <2>2 DEF Closes
  <1>12. v \in Worlds /\ v.s = r /\ v.remote = w.remote
    BY <1>2, <1>7, Replaced
  <1> HIDE DEF v
  <1> QED
    BY <1>1, <1>2, <1>6, <1>7, <1>9, <1>10, <1>11, <1>12 DEF In, NearlyIn, Sound, Acknowledges

(* FIN_WAIT_2.                                                             *)
LEMMA FinWait2Keeps ==
  ASSUME NEW w, NEW c, NEW k \in Nat, k > 0, NEW sent, In(w, c, k, sent), NEW m \in Segment,
         w.s.state = "FIN_WAIT_2"
  PROVE  In(in_FIN_WAIT_2(w, m), c, k, sent)
  <1> DEFINE v == [w EXCEPT !.s.rx_win_low = Add(@, 1)]
             w1 == send_ack(v)
  <1>1. in_FIN_WAIT_2(w, m) = TimeWait(w1) \/ in_FIN_WAIT_2(w, m) = w
    BY DEF in_FIN_WAIT_2
  <1>2. NearlyIn(w, c, k)
    BY DEF In
  <1>3. NearlyIn(v, c, k) /\ v.s.state = "FIN_WAIT_2"
    BY <1>2, LowMoves
  <1> HIDE DEF v
  <1>4. In(w1, c, k, sent) /\ Like(v.s, w1.s, w1.s.timers)
    BY <1>3, SendAckKeeps
  <1> HIDE DEF w1
  <1>5. NearlyIn(w1, c, k) /\ w1.s.state \in Shut
    BY <1>3, <1>4 DEF In, Like, Shut
  <1>6. In(TimeWait(w1), c, k, sent)
    BY <1>5, TimeWaitKeeps
  <1> QED
    BY <1>1, <1>6

(* From one state after the close to another. *)
LEMMA ShutWorld ==
  ASSUME NEW w, NEW c, NEW k \in Nat, k > 0, NEW sent, NearlyIn(w, c, k), NEW state \in Shut,
         w.s.state \in Shut
  PROVE  LET v == [w EXCEPT !.s.state = state] IN In(v, c, k, sent) /\ v.s.state = state
  <1> DEFINE s == w.s
             r == [s EXCEPT !.state = state]
             v == [w EXCEPT !.s = r]
  <1>1. [w EXCEPT !.s.state = state] = v
    OBVIOUS
  <1>2. w \in Worlds /\ s \in Socket /\ Sound(s, c, k) /\ Balanced(s, k)
        /\ w.remote = Other(HostOf(c.x)) /\ s.state \in Shut
    BY DEF NearlyIn, Worlds, Sound
  <1>3. /\ r \in Socket /\ r.ref = s.ref /\ r.timers = s.timers /\ r.state = state
        /\ r.rx_buffer = s.rx_buffer /\ r.tx_buffer = s.tx_buffer
    BY <1>2 DEF Socket, Shut
  <1>4. r.listed = s.listed /\ r.rx_event = s.rx_event /\ r.tx_event = s.tx_event
    BY <1>2, Zenon DEF Socket
  <1> HIDE DEF s, r
  <1>5. Balanced(r, k)
    BY <1>2, <1>3, <1>4, BalancedSame
  <1>6. Sound(r, c, k)
    BY <1>2, <1>3, <1>4, <1>5, ShutMoves
  <1>7. v \in Worlds /\ v.s = r /\ v.remote = w.remote
    BY <1>2, <1>3, Replaced
  <1>8. r.state # "ESTABLISHED"
    BY <1>3 DEF Shut
  <1> HIDE DEF v
  <1>9. In(v, c, k, sent) /\ v.s.state = state
    BY <1>2, <1>3, <1>6, <1>7, <1>8 DEF In, NearlyIn, Acknowledges
  <1> QED
    BY <1>1, <1>9

(* FIN_WAIT_1.                                                             *)
LEMMA FinWait1Keeps ==
  ASSUME NEW w, NEW c, NEW k \in Nat, k > 0, NEW sent, In(w, c, k, sent), NEW m \in Segment,
         w.s.state = "FIN_WAIT_1"
  PROVE  In(in_FIN_WAIT_1(w, m), c, k, sent)
  <1> DEFINE w1 == [w EXCEPT !.s.state = "FIN_WAIT_2"]
             v == [w EXCEPT !.s.rx_win_low = Add(@, 1)]
             w2 == send_ack(v)
             w3 == [w2 EXCEPT !.s.state = "CLOSING"]
  <1>1. \/ in_FIN_WAIT_1(w, m) = in_FIN_WAIT_2(w1, m)
        \/ in_FIN_WAIT_1(w, m) = w3
        \/ in_FIN_WAIT_1(w, m) = w
    BY DEF in_FIN_WAIT_1
  <1>2. NearlyIn(w, c, k) /\ w.s.state \in Shut /\ "FIN_WAIT_2" \in Shut /\ "CLOSING" \in Shut
    BY DEF In, Shut
  <1>3. In(w1, c, k, sent) /\ w1.s.state = "FIN_WAIT_2"
    BY <1>2, ShutWorld
  <1>4. In(in_FIN_WAIT_2(w1, m), c, k, sent)
    <2> HIDE DEF w1
    <2> QED BY <1>3, FinWait2Keeps
  <1>5. NearlyIn(v, c, k) /\ v.s.state = "FIN_WAIT_1"
    BY <1>2, LowMoves
  <1> HIDE DEF v, w1
  <1>6. In(w2, c, k, sent) /\ Like(v.s, w2.s, w2.s.timers)
    BY <1>5, SendAckKeeps
  <1> HIDE DEF w2
  <1>7. NearlyIn(w2, c, k) /\ w2.s.state \in Shut
    BY <1>5, <1>6 DEF In, Like, Shut
  <1>8. In(w3, c, k, sent)
    BY <1>2, <1>7, ShutWorld
  <1> QED
    BY <1>1, <1>4, <1>8

(* CLOSING.                                                                *)
LEMMA ClosingKeeps ==
  ASSUME NEW w, NEW c, NEW k \in Nat, k > 0, NEW sent, In(w, c, k, sent), NEW m \in Segment,
         w.s.state = "CLOSING"
  PROVE  In(in_CLOSING(w, m), c, k, sent)
  <1>1. NearlyIn(w, c, k) /\ w.s.state \in Shut
    BY DEF In, Shut
  <1>2. In(TimeWait(w), c, k, sent)
    BY <1>1, TimeWaitKeeps
  <1> QED
    BY <1>2 DEF in_CLOSING

(* tcp_input under the lock, in whatever state it finds the socket.        *)
LEMMA HandleKeeps ==
  ASSUME NEW w, NEW c, NEW k \in Nat, k > 0, NEW sent, In(w, c, k, sent), NEW m \in Segment
  PROVE  In(Handle(w, m), c, k, sent)
  <1> DEFINE v == [w EXCEPT !.s = tcp_remote_close(w.s)]
  <1>1. In(v, c, k, sent)
    <2> DEFINE r == tcp_remote_close(w.s)
    <2>1. w \in Worlds /\ Sound(w.s, c, k) /\ w.remote = Other(HostOf(c.x))
      BY DEF In, NearlyIn
    <2>2. Sound(r, c, k) /\ r.state = "CLOSED"
      BY <2>1, RemoteClose
    <2>3. r \in Socket
      BY <2>2 DEF Sound, Balanced
    <2> HIDE DEF r
    <2>4. v \in Worlds /\ v.s = r /\ v.remote = w.remote
      BY <2>1, <2>3, Replaced DEF r
    <2> HIDE DEF v
    <2> QED
      BY <2>1, <2>2, <2>4 DEF In, NearlyIn, Acknowledges
  <1> HIDE DEF v
  <1>2. CASE "RST" \in m.flags
    <2>1. Handle(w, m) = w \/ Handle(w, m) = v
      BY <1>2 DEF Handle, v
    <2> QED BY <1>1, <2>1
  <1>3. CASE "RST" \notin m.flags
    <2>1. CASE w.s.state = "SYN_RCVD"
      <3>1. Handle(w, m) = in_SYN_RCVD(w, m) BY <1>3, <2>1 DEF Handle
      <3> QED BY <2>1, <3>1, SynRcvdKeeps
    <2>2. CASE w.s.state = "SYN_SENT"
      <3>1. Handle(w, m) = in_SYN_SENT(w, m) BY <1>3, <2>2 DEF Handle
      <3> QED BY <2>2, <3>1, SynSentKeeps
    <2>3. CASE w.s.state = "ESTABLISHED"
      <3>1. Handle(w, m) = in_ESTABLISHED(w, m) BY <1>3, <2>3 DEF Handle
      <3> QED BY <2>3, <3>1, EstablishedKeeps
    <2>4. CASE w.s.state = "CLOSE_WAIT"
      <3>1. Handle(w, m) = in_CLOSE_WAIT(w, m) BY <1>3, <2>4 DEF Handle
      <3> QED BY <2>4, <3>1, CloseWaitKeeps
    <2>5. CASE w.s.state = "LAST_ACK"
      <3>1. Handle(w, m) = in_LAST_ACK(w, m) BY <1>3, <2>5 DEF Handle
      <3> QED BY <2>5, <3>1, LastAckKeeps
    <2>6. CASE w.s.state = "FIN_WAIT_1"
      <3>1. Handle(w, m) = in_FIN_WAIT_1(w, m) BY <1>3, <2>6 DEF Handle
      <3> QED BY <2>6, <3>1, FinWait1Keeps
    <2>7. CASE w.s.state = "FIN_WAIT_2"
      <3>1. Handle(w, m) = in_FIN_WAIT_2(w, m) BY <1>3, <2>7 DEF Handle
      <3> QED BY <2>7, <3>1, FinWait2Keeps
    <2>8. CASE w.s.state = "CLOSING"
      <3>1. Handle(w, m) = in_CLOSING(w, m) BY <1>3, <2>8 DEF Handle
      <3> QED BY <2>8, <3>1, ClosingKeeps
    <2>9. CASE w.s.state = "TIME_WAIT"
      <3>1. Handle(w, m) = w BY <1>3, <2>9 DEF Handle
      <3> QED BY <3>1
    <2>10. CASE w.s.state \notin Shut \cup {"SYN_RCVD", "SYN_SENT", "ESTABLISHED", "CLOSE_WAIT", "TIME_WAIT"}
      <3>1. Handle(w, m) = send_reset(w) BY <1>3, <2>10 DEF Handle, Shut
      <3> QED BY <3>1, SendResetKeeps
    <2> QED
      BY <2>1, <2>2, <2>3, <2>4, <2>5, <2>6, <2>7, <2>8, <2>9, <2>10 DEF Shut
  <1> QED
    BY <1>2, <1>3
-----------------------------------------------------------------------------
(* Writing, the timers and tcp_close. *)

(* Where the segments of tcp_write_pending_data begin.                     *)
LEMMA Offsets ==
  ASSUME NEW i \in Nat
  PROVE  i * MSS \in Nat
  BY Constants

(* tcp_write_pending_data sends only what is in the buffer, and arms the   *)
(* retransmission timer if it sent anything.                               *)
LEMMA WritePendingKeeps ==
  ASSUME NEW w, NEW c, NEW k \in Nat, k > 0, NEW sent, In(w, c, k, sent), w.s.state \in Writable
  PROVE  In(tcp_write_pending_data(w), c, k, sent)
  <1> DEFINE s == w.s
             n == Len(s.tx_buffer)
             first == Outstanding(s)
             pending == Diff(n, first)
             Chunk(offset) ==
               tcp_send(w.remote, {"ACK"}, Add(s.tx_highest_seq, offset), s.rx_win_low,
                        SubSeq(s.tx_buffer, first + offset + 1, first + Least(offset + MSS, pending)))
             chunks == {Chunk(i * MSS) : i \in 0 .. (pending - 1) \div MSS}
             a == [s EXCEPT !.rx_win_high = RxWinHigh(s),
                            !.tx_highest_seq = Add(s.tx_highest_seq, pending)]
             b == tcp_timer_cancel(a, "ack")
             r == tcp_timer_set(b, "retransmit")
             v == [w EXCEPT !.s = r, !.out = w.out \cup chunks]
  <1>1. tcp_write_pending_data(w) = IF pending = 0 THEN w ELSE v
    BY DEF tcp_write_pending_data
  <1>2. w \in Worlds /\ s \in Socket /\ Sound(s, c, k) /\ Balanced(s, k)
        /\ w.remote = Other(HostOf(c.x)) /\ s.state \in Writable /\ w.remote \in Hosts
        /\ w.out \subseteq Segment
    BY DEF In, NearlyIn, Worlds, Sound
  <1>3. s.tx_highest_seq \in Num /\ s.tx_win_low \in Num /\ s.rx_win_low \in Num
    BY <1>2 DEF Socket
  <1>4. n \in Nat /\ n \in Num /\ s.tx_buffer \in Seq(Int)
    BY <1>2, TxFits DEF Sound
  <1>5. first <= n /\ first \in Num
    <2>1. first <= n
      BY <1>2 DEF Sound, Transmits
    <2>2. first \in Num
      BY <1>3, Difference DEF Outstanding
    <2> QED BY <2>1, <2>2
  <1>6. pending = n - first /\ pending \in Nat /\ first \in Nat
        /\ Diff(Add(s.tx_highest_seq, pending), s.tx_win_low) = n
    <2>1. first = Diff(s.tx_highest_seq, s.tx_win_low)
      BY DEF Outstanding
    <2> HIDE DEF first, s, n
    <2>2. Diff(n, first) = n - first /\ Diff(Add(s.tx_highest_seq, n - first), s.tx_win_low) = n
      <3> DEFINE high == s.tx_highest_seq
                 low == s.tx_win_low
      <3>1. high \in Num /\ low \in Num /\ n \in Num /\ Diff(high, low) <= n
        BY <1>3, <1>4, <1>5, <2>1
      <3> HIDE DEF high, low
      <3>2. /\ Diff(n, Diff(high, low)) = n - Diff(high, low)
            /\ Diff(Add(high, n - Diff(high, low)), low) = n
        BY <3>1, AllSent
      <3> QED
        BY <2>1, <3>2 DEF high, low
    <2>3. first \in Nat
      BY <1>5 DEF Num
    <2>4. n - first \in Nat
      BY <1>4, <1>5, <2>3
    <2> QED
      BY <2>2, <2>3, <2>4
  <1>7. Add(s.tx_highest_seq, pending) \in Num
    <2>1. s.tx_highest_seq \in Int BY <1>3 DEF Num
    <2> HIDE DEF pending
    <2> QED BY <1>6, <2>1, Numbers
  <1> HIDE DEF pending, first, n
  <1>8. CASE pending # 0
    <2>1. ASSUME NEW offset \in Nat
          PROVE  /\ Chunk(offset) \in Segment /\ Chunk(offset).to = w.remote
                 /\ "ACK" \in Chunk(offset).flags /\ Chunk(offset).ack = s.rx_win_low
      <3> DEFINE last == first + Least(offset + MSS, pending)
                 data == SubSeq(s.tx_buffer, first + offset + 1, last)
      <3>1. last \in Int /\ last <= n /\ first + offset + 1 \in Int /\ first + offset + 1 >= 1
        <4>1. offset + MSS \in Int /\ pending \in Int
          BY <1>6, Constants
        <4>2. Least(offset + MSS, pending) <= pending
              /\ Least(offset + MSS, pending) \in {offset + MSS, pending}
          BY <4>1, Smaller
        <4> QED BY <1>4, <1>6, <4>1, <4>2
      <3>2. \A i \in first + offset + 1 .. last : s.tx_buffer[i] \in Int
        <4> HIDE DEF last
        <4> QED BY <1>4, <1>6, <3>1, LenProperties DEF n
      <3>3. data \in Seq(Int)
        <4> HIDE DEF last
        <4> QED BY <3>1, <3>2, SubSeqProperties
      <3>4. Add(s.tx_highest_seq, offset) \in Num
        <4>1. s.tx_highest_seq \in Int BY <1>3 DEF Num
        <4> QED BY <4>1, Numbers
      <3>5. Chunk(offset) = tcp_send(w.remote, {"ACK"}, Add(s.tx_highest_seq, offset), s.rx_win_low, data)
        OBVIOUS
      <3> HIDE DEF data
      <3> QED
        BY <1>2, <1>3, <3>3, <3>4, <3>5 DEF tcp_send, Segment
    <2> HIDE DEF Chunk
    <2>2. chunks \subseteq Segment
      <3>1. ASSUME NEW i \in 0 .. (pending - 1) \div MSS PROVE Chunk(i * MSS) \in Segment
        <4>1. i \in Nat OBVIOUS
        <4>2. i * MSS \in Nat BY <4>1, Offsets
        <4> QED BY <4>2, <2>1
      <3> QED BY <3>1
    <2>3. Chunk(0 * MSS) \in chunks
      <3>1. (pending - 1) \div MSS \in Int /\ (pending - 1) \div MSS >= 0
        BY <1>6, <1>8, Constants
      <3>2. 0 \in 0 .. (pending - 1) \div MSS
        BY <3>1
      <3> QED BY <3>2
    <2>4. Chunk(0 * MSS).to = w.remote /\ "ACK" \in Chunk(0 * MSS).flags
          /\ Chunk(0 * MSS).ack = s.rx_win_low
      <3>1. 0 * MSS \in Nat BY Offsets
      <3> QED BY <2>1, <3>1
    <2> HIDE DEF chunks
    <2>5. /\ a \in Socket /\ a.ref = s.ref /\ a.timers = s.timers /\ a.state = s.state
          /\ a.rx_buffer = s.rx_buffer /\ a.tx_buffer = s.tx_buffer
          /\ a.tx_win_low = s.tx_win_low /\ a.rx_win_low = s.rx_win_low
          /\ a.tx_highest_seq = Add(s.tx_highest_seq, pending)
      BY <1>2, <1>7, EdgeIsNum DEF Socket
    <2>6. a.listed = s.listed /\ a.rx_event = s.rx_event /\ a.tx_event = s.tx_event
          /\ a.connect_event = s.connect_event
      BY <1>2, Zenon DEF Socket
    <2> HIDE DEF s, a
    <2>7. Balanced(a, k)
      BY <1>2, <2>5, <2>6, BalancedSame
    <2>8. "ack" \in Timers /\ "retransmit" \in Timers
      BY DEF Timers
    <2>9. Balanced(b, k) /\ Like(a, b, a.timers \ {"ack"})
      BY <2>7, <2>8, TimerCancel
    <2> HIDE DEF b
    <2>10. Balanced(r, k) /\ Like(b, r, b.timers \cup {"retransmit"})
      BY <2>8, <2>9, TimerSet
    <2> HIDE DEF r
    <2>11. /\ r \in Socket /\ r.timers = (s.timers \ {"ack"}) \cup {"retransmit"}
           /\ r.state = s.state /\ r.rx_buffer = s.rx_buffer /\ r.tx_buffer = s.tx_buffer
           /\ r.tx_win_low = s.tx_win_low /\ r.rx_win_low = s.rx_win_low
           /\ r.tx_highest_seq = Add(s.tx_highest_seq, pending)
      BY <2>5, <2>9, <2>10 DEF Like, Balanced
    <2>12. r.listed = s.listed /\ r.rx_event = s.rx_event /\ r.tx_event = s.tx_event
           /\ r.connect_event = s.connect_event
      BY <2>6, <2>9, <2>10, Zenon DEF Like
    <2>13. Events(r)
      BY <1>2, <2>11, <2>12, Zenon DEF Sound, Events
    <2>14. Transmits(r, c)
      <3>1. Outstanding(r) = n
        BY <1>6, <2>11 DEF Outstanding
      <3>2. Len(r.tx_buffer) = n
        BY <2>11 DEF n
      <3> QED BY <1>2, <1>4, <2>11, <3>1, <3>2 DEF Sound, Transmits
    <2>15. Closes(r, c)
      <3>1. "time_wait" \in r.timers <=> "time_wait" \in s.timers
        BY <2>11
      <3> QED BY <1>2, <2>11, <2>12, <3>1, ClosesSame DEF Sound
    <2>16. v \in Worlds /\ v.s = r /\ v.remote = w.remote /\ v.out = w.out \cup chunks
      BY <1>2, <2>2, <2>11 DEF Worlds
    <2> HIDE DEF v
    <2>17. AckIn(r, c, sent \cup v.out)
      BY <1>2, <2>3, <2>4, <2>11, <2>16 DEF AckIn
    <2>18. NearlyIn(v, c, k)
      BY <1>2, <2>10, <2>13, <2>14, <2>15, <2>16 DEF NearlyIn, Sound
    <2>19. In(v, c, k, sent)
      BY <2>16, <2>17, <2>18 DEF In, Acknowledges
    <2> QED
      BY <1>1, <1>8, <2>19
  <1>9. CASE pending = 0
    BY <1>1, <1>9
  <1> QED
    BY <1>8, <1>9

(* The step ends by dropping a reference. *)
LEMMA Release ==
  ASSUME NEW s, NEW c, NEW k \in Nat, k > 0, NEW sent, Sound(s, c, k), Acknowledges(s, c, sent)
  PROVE  LET r == dec_socket_ref(s)
         IN  \/ r = Freed /\ k = 1 /\ c.user = "closed"
             \/ Sound(r, c, k - 1) /\ Acknowledges(r, c, sent)
  <1> DEFINE r == dec_socket_ref(s)
  <1>1. Balanced(s, k) /\ Closes(s, c)
    BY DEF Sound
  <1>2. \/ r = Freed /\ k = 1 /\ ~s.listed /\ s.timers = {}
        \/ Balanced(r, k - 1) /\ Like(s, r, s.timers)
    BY <1>1, Drop
  <1> HIDE DEF r
  <1>3. CASE r = Freed /\ k = 1 /\ ~s.listed /\ s.timers = {}
    BY <1>1, <1>3 DEF Closes, r
  <1>4. CASE Balanced(r, k - 1) /\ Like(s, r, s.timers)
    <2>1. Sound(r, c, k - 1)
      BY <1>4, SoundLike
    <2>2. Acknowledges(r, c, sent)
      <3>1. r.state = s.state /\ r.rx_buffer = s.rx_buffer /\ r.rx_win_low = s.rx_win_low
            /\ r.timers = s.timers
        BY <1>4 DEF Like
      <3> QED BY <3>1, AcknowledgesSame
    <2> QED BY <2>1, <2>2 DEF r
  <1> QED
    BY <1>2, <1>3, <1>4

(* The context after a callback: the timer is not due any more. *)
Over(c, d, t) ==
  /\ c.due = {t} /\ d.due = {}
  /\ d.x = c.x /\ d.got = c.got /\ d.written = c.written /\ d.user = c.user

(* The callback of the acknowledgement timer sends what it is due for.     *)
LEMMA AckTimeout ==
  ASSUME NEW w, NEW c, NEW d, NEW k \in Nat, k > 0, NEW sent, In(w, c, k, sent), Over(c, d, "ack")
  PROVE  In(send_ack(w), d, k, sent)
  <1>1. w \in Worlds /\ w.remote = Other(HostOf(c.x)) /\ Sound(w.s, c, k)
    BY DEF In, NearlyIn
  <1>2. Transmits(w.s, d)
    BY <1>1 DEF Sound, Transmits, Over
  <1>3. Closes(w.s, d)
    BY <1>1 DEF Sound, Closes, Over
  <1>4. NearlyIn(w, d, k)
    BY <1>1, <1>2, <1>3 DEF NearlyIn, Sound, Over
  <1> QED
    BY <1>4, SendAckKeeps

(* The callback of the retransmission timer sets it again as long as       *)
(* anything is in flight.                                                  *)
LEMMA RetransmitTimeout ==
  ASSUME NEW w, NEW c, NEW d, NEW k \in Nat, k > 0, NEW sent, In(w, c, k, sent),
         Over(c, d, "retransmit")
  PROVE  In(handle_retransmit_timeout(w), d, k, sent)
  <1> DEFINE s == w.s
  <1>1. w \in Worlds /\ w.remote = Other(HostOf(c.x)) /\ Sound(s, c, k) /\ s \in Socket
        /\ Acknowledges(s, c, sent \cup w.out)
    BY DEF In, NearlyIn, Worlds
  <1>2. ASSUME NEW r, Sound(r, c, k),
               r.state \in Writable /\ Outstanding(r) # 0 => "retransmit" \in r.timers
        PROVE  Sound(r, d, k)
    <2>1. Transmits(r, d)
      BY <1>2 DEF Sound, Transmits, Over
    <2>2. Closes(r, d)
      BY <1>2 DEF Sound, Closes, Over
    <2> QED BY <1>2, <2>1, <2>2 DEF Sound
  <1>3. ASSUME NEW r, NEW more, Acknowledges(r, c, more)
        PROVE  Acknowledges(r, d, more)
    BY <1>3 DEF Acknowledges, AckIn, Over
  <1>4. CASE ~(s.state \in Writable /\ Outstanding(s) # 0)
    <2>1. handle_retransmit_timeout(w) = w
      BY <1>4 DEF handle_retransmit_timeout, Writable
    <2>2. Sound(s, d, k) /\ Acknowledges(s, d, sent \cup w.out)
      BY <1>1, <1>2, <1>3, <1>4
    <2> QED
      BY <1>1, <2>1, <2>2 DEF In, NearlyIn, Over
  <1>5. CASE s.state \in Writable /\ Outstanding(s) # 0
    <2> DEFINE data == SubSeq(s.tx_buffer, 1, Least(MSS, Outstanding(s)))
               v == tcp_socket_send(w, {"ACK"}, s.tx_win_low, data)
               r == tcp_timer_set(v.s, "retransmit")
               u == [v EXCEPT !.s = r]
    <2>1. handle_retransmit_timeout(w) = u
      BY <1>5 DEF handle_retransmit_timeout, tcp_retransmit, Writable
    <2>2. s.tx_win_low \in Num /\ s.tx_highest_seq \in Num
      BY <1>1 DEF Socket
    <2>3. data \in Seq(Int)
      <3>1. Outstanding(s) \in Num /\ Outstanding(s) <= Len(s.tx_buffer)
            /\ s.tx_buffer \in Seq(Int) /\ Len(s.tx_buffer) \in Nat
        BY <1>1, <1>5, <2>2, Difference, LenProperties DEF Sound, Transmits, Outstanding, Socket
      <3>2. Outstanding(s) \in Int
        BY <3>1 DEF Num
      <3>3. Least(MSS, Outstanding(s)) \in Int /\ Least(MSS, Outstanding(s)) <= Outstanding(s)
        BY <3>2, Constants, Smaller
      <3>4. \A i \in 1 .. Least(MSS, Outstanding(s)) : s.tx_buffer[i] \in Int
        BY <3>1, <3>2, <3>3, LenProperties
      <3> QED
        BY <3>3, <3>4, SubSeqProperties
    <2> HIDE DEF data
    <2>4. NearlyIn(w, c, k)
      BY DEF In
    <2>5. In(v, c, k, sent) /\ Like(s, v.s, s.timers \ {"ack"})
      BY <2>2, <2>3, <2>4, SendKeeps
    <2> HIDE DEF v, s
    <2>6. v \in Worlds /\ v.remote = Other(HostOf(c.x)) /\ Sound(v.s, c, k) /\ Balanced(v.s, k)
          /\ Acknowledges(v.s, c, sent \cup v.out)
      BY <2>5 DEF In, NearlyIn, Sound
    <2>7. Balanced(r, k) /\ Like(v.s, r, v.s.timers \cup {"retransmit"})
      <3>1. "retransmit" \in Timers BY DEF Timers
      <3> QED BY <2>6, <3>1, TimerSet
    <2> HIDE DEF r
    <2>8. Sound(r, c, k)
      BY <2>6, <2>7, SoundLike
    <2>9. "retransmit" \in r.timers
      BY <2>7 DEF Like
    <2>10. Sound(r, d, k)
      BY <1>2, <2>8, <2>9
    <2>11. r \in Socket
      BY <2>7 DEF Balanced
    <2> HIDE DEF u
    <2>12. u \in Worlds /\ u.s = r /\ u.out = v.out /\ u.remote = v.remote
      BY <2>6, <2>11, Replaced DEF u
    <2>13. Acknowledges(r, c, sent \cup u.out)
      <3>1. r.state = v.s.state /\ r.rx_buffer = v.s.rx_buffer /\ r.rx_win_low = v.s.rx_win_low
            /\ r.timers = v.s.timers \cup {"retransmit"}
        BY <2>7 DEF Like
      <3> QED BY <2>6, <2>12, <3>1, AcknowledgesSame
    <2>14. Acknowledges(r, d, sent \cup u.out)
      BY <1>3, <2>13
    <2> QED
      BY <2>1, <2>6, <2>10, <2>12, <2>14 DEF In, NearlyIn, Over
  <1> QED
    BY <1>4, <1>5

(* The callback of the time-wait timer finds a socket in TIME_WAIT in the  *)
(* list, and takes it out.                                                 *)
LEMMA TimeWaitTimeout ==
  ASSUME NEW w, NEW c, NEW d, NEW k \in Nat, k > 0, NEW sent, In(w, c, k, sent),
         Over(c, d, "time_wait")
  PROVE  In(handle_time_wait_timeout(w), d, k, sent)
  <1> DEFINE s == w.s
             r == dec_socket_ref(remove_socket_from_list(s))
             v == handle_time_wait_timeout(w)
  <1>1. w \in Worlds /\ w.remote = Other(HostOf(c.x)) /\ Sound(s, c, k) /\ s \in Socket
        /\ Acknowledges(s, c, sent \cup w.out)
    BY DEF In, NearlyIn, Worlds
  <1>2. Sound(s, d, k)
    <2>1. Transmits(s, d)
      BY <1>1 DEF Sound, Transmits, Over
    <2>2. Closes(s, d)
      BY <1>1 DEF Sound, Closes, Over
    <2> QED BY <1>1, <2>1, <2>2 DEF Sound
  <1>3. CASE s.state # "TIME_WAIT"
    <2>1. v = [w EXCEPT !.fault = "state == STATE_TIME_WAIT"]
      BY <1>3 DEF handle_time_wait_timeout
    <2>2. "state == STATE_TIME_WAIT" \in Faults BY DEF Faults
    <2> HIDE DEF v, s
    <2>3. v \in Worlds /\ v.s = w.s /\ v.out = w.out /\ v.remote = w.remote
      BY <1>1, <2>1, <2>2, Faulted
    <2>4. Acknowledges(s, d, sent \cup w.out)
      BY <1>1 DEF Acknowledges, AckIn, Over
    <2> QED
      BY <1>1, <1>2, <2>3, <2>4 DEF In, NearlyIn, Over, s, v
  <1>4. CASE s.state = "TIME_WAIT"
    <2>1. v = [w EXCEPT !.s = r]
      BY <1>4 DEF handle_time_wait_timeout
    <2>2. s.listed /\ d.user = "closed" /\ "time_wait" \notin s.timers \cup d.due
      BY <1>1, <1>4 DEF Sound, Closes, Over, Open
    <2> HIDE DEF s
    <2>3. Sound(r, d, k) /\ r.state = "TIME_WAIT"
      BY <1>2, <1>4, <2>2, Unlists
    <2>4. r \in Socket
      BY <2>3 DEF Sound, Balanced
    <2> HIDE DEF r, v
    <2>5. v \in Worlds /\ v.s = r /\ v.remote = w.remote
      BY <1>1, <2>1, <2>4, Replaced
    <2> QED
      BY <1>1, <2>3, <2>5 DEF In, NearlyIn, Acknowledges, Over, v
  <1> QED
    BY <1>3, <1>4

(* The beginning of a step under the lock.                                 *)
LEMMA NewWorld ==
  ASSUME NEW x, NEW s \in Socket
  PROVE  LET w == World(x, s)
         IN  w \in Worlds /\ w.s = s /\ w.remote = Other(HostOf(x)) /\ w.out = {}
  BY DEF World, Worlds, Other, Hosts, Faults

(* One more holds the socket. *)
LEMMA Holds ==
  ASSUME NEW s, NEW c, NEW k \in Nat, NEW sent, Sound(s, c, k), Acknowledges(s, c, sent)
  PROVE  LET r == inc_socket_ref(s)
         IN  Sound(r, c, k + 1) /\ Acknowledges(r, c, sent) /\ Like(s, r, s.timers)
  <1> DEFINE r == inc_socket_ref(s)
  <1>1. Balanced(s, k)
    BY DEF Sound
  <1>2. s \in Socket /\ s.timers \in SUBSET Timers /\ s.ref \in Int
        /\ s.ref = Cardinality(s.timers) + One(s.listed) + k
        /\ Cardinality(s.timers) \in Nat /\ One(s.listed) \in Nat
    BY <1>1, Count
  <1>3. r = [s EXCEPT !.ref = s.ref + 1]
    BY DEF inc_socket_ref
  <1>4. r \in Socket /\ r.ref = s.ref + 1 /\ Like(s, r, s.timers)
    BY <1>2, <1>3, OtherCount
  <1> HIDE DEF r
  <1>5. One(r.listed) = One(s.listed) /\ r.timers = s.timers
    BY <1>4, Zenon DEF Like
  <1>6. r.ref = Cardinality(r.timers) + One(r.listed) + (k + 1)
    BY <1>2, <1>4, <1>5
  <1>7. Balanced(r, k + 1)
    BY <1>4, <1>6 DEF Balanced
  <1>8. Sound(r, c, k + 1)
    BY <1>4, <1>7, SoundLike
  <1>9. Acknowledges(r, c, sent)
    <2>1. r.state = s.state /\ r.rx_buffer = s.rx_buffer /\ r.rx_win_low = s.rx_win_low
          /\ r.timers = s.timers
      BY <1>4 DEF Like
    <2> QED BY <2>1, AcknowledgesSame
  <1> QED
    BY <1>4, <1>8, <1>9 DEF r

(* The context after the user's close. *)
Handed(c, d) ==
  /\ c.user # "none" /\ d.user = "closed"
  /\ d.x = c.x /\ d.got = c.got /\ d.written = c.written /\ d.due = c.due

(* Taking the handle away leaves a sound socket sound.                     *)
LEMMA HandedSound ==
  ASSUME NEW s, NEW c, NEW d, NEW k, Sound(s, c, k), Handed(c, d)
  PROVE  Sound(s, d, k)
  <1>1. Transmits(s, d)
    BY DEF Sound, Transmits, Handed
  <1>2. Closes(s, d)
    BY DEF Sound, Closes, Handed
  <1> QED
    BY <1>1, <1>2 DEF Sound

(* A socket that everybody is told of is in order in every state in which  *)
(* nothing has to be sent.                                                 *)
LEMMA Woken ==
  ASSUME NEW s, NEW c, NEW k \in Nat, NEW f, NEW sent, Transmits(s, c), Balanced(f, k), Closes(f, c),
         f.rx_buffer = s.rx_buffer, f.tx_buffer = s.tx_buffer,
         f.state \notin Writable \cup {"SYN_SENT"}
  PROVE  LET g == tcp_wakeup_waiters(f) IN Sound(g, c, k) /\ Acknowledges(g, c, sent)
  <1> DEFINE g == tcp_wakeup_waiters(f)
  <1>1. f \in Socket
    BY DEF Balanced
  <1>2. g \in Socket /\ g.ref = f.ref /\ g.timers = f.timers /\ g.state = f.state
        /\ g.rx_buffer = f.rx_buffer /\ g.tx_buffer = f.tx_buffer
    BY <1>1 DEF tcp_wakeup_waiters, Socket
  <1>3. g.listed = f.listed /\ g.rx_event = TRUE /\ g.tx_event = TRUE
    BY <1>1, Zenon DEF tcp_wakeup_waiters, Socket
  <1> HIDE DEF g
  <1>4. Balanced(g, k)
    BY <1>2, <1>3, BalancedSame
  <1>5. Events(g)
    BY <1>2, <1>3 DEF Events
  <1>6. Transmits(g, c)
    BY <1>2 DEF Transmits
  <1>7. Closes(g, c)
    BY <1>2, <1>3, ClosesSame
  <1>8. Acknowledges(g, c, sent)
    BY <1>2 DEF Acknowledges, Writable
  <1> QED
    BY <1>4, <1>5, <1>6, <1>7, <1>8 DEF Sound, g

(* tcp_close of a socket that is not connected.                            *)
LEMMA ClosedKeeps ==
  ASSUME NEW w \in Worlds, NEW c, NEW k \in Nat, NEW sent, k > 0, Sound(w.s, c, k), w.s.listed,
         c.user = "closed", w.s.state \in {"CLOSED", "LISTEN"}
  PROVE  LET v == Closed(w)
             g == tcp_wakeup_waiters(v.s)
         IN  /\ v.out = w.out /\ v.fault = w.fault /\ Sound(g, c, k) /\ Acknowledges(g, c, sent)
             /\ v.s \in Socket /\ v.s.state = "CLOSED" /\ v.s.rx_buffer = w.s.rx_buffer
  <1> DEFINE s == w.s
             a == remove_socket_from_list(s)
             b == tcp_timer_cancel(a, "ack")
             e == tcp_timer_cancel(b, "retransmit")
             f == RemoteClosed(e)
             r == dec_socket_ref(f)
             v == Closed(w)
  <1>1. v = [w EXCEPT !.s = r]
    BY DEF Closed, RemoteClosed
  <1>2. Balanced(s, k) /\ Transmits(s, c) /\ Closes(s, c)
    BY DEF Sound
  <1>3. PICK j \in Nat : j = k + 1 /\ j > 0 /\ j # 1 /\ j - 1 = k
    <2>1. k + 1 \in Nat /\ k + 1 > 0 /\ k + 1 # 1 /\ (k + 1) - 1 = k
      OBVIOUS
    <2> QED BY <2>1
  <1>4. /\ Balanced(a, j) /\ a.timers = s.timers /\ a.listed = FALSE
        /\ a.rx_buffer = s.rx_buffer /\ a.tx_buffer = s.tx_buffer
    BY <1>2, <1>3, Removed
  <1>5. "retransmit" \in Timers /\ "ack" \in Timers
    BY DEF Timers
  <1> HIDE DEF a
  <1>6. Balanced(b, j) /\ Like(a, b, a.timers \ {"ack"})
    BY <1>3, <1>4, <1>5, TimerCancel
  <1> HIDE DEF b
  <1>7. Balanced(e, j) /\ Like(b, e, b.timers \ {"retransmit"})
    BY <1>3, <1>5, <1>6, TimerCancel
  <1> HIDE DEF e
  <1>8. e \in Socket
    BY <1>7 DEF Balanced
  <1>9. /\ f \in Socket /\ f.ref = e.ref /\ f.timers = e.timers /\ f.state = "CLOSED"
        /\ f.rx_buffer = e.rx_buffer /\ f.tx_buffer = e.tx_buffer
    BY <1>8 DEF Socket, RemoteClosed, Open
  <1>10. f.listed = e.listed
    BY <1>8, Zenon DEF Socket, RemoteClosed
  <1> HIDE DEF f
  <1>11. Balanced(f, j)
    BY <1>7, <1>9, <1>10, BalancedSame
  <1>12. Balanced(r, k) /\ Like(f, r, f.timers)
    <2> HIDE DEF r
    <2>1. (r = Freed /\ j = 1) \/ (Balanced(r, j - 1) /\ Like(f, r, f.timers))
      BY <1>3, <1>11, Drop DEF r
    <2> QED
      BY <1>3, <2>1
  <1> HIDE DEF r
  <1>13. /\ r.state = "CLOSED" /\ r.timers = (s.timers \ {"ack"}) \ {"retransmit"}
         /\ r.rx_buffer = s.rx_buffer /\ r.tx_buffer = s.tx_buffer
    BY <1>4, <1>6, <1>7, <1>9, <1>12 DEF Like
  <1>14. r.listed = FALSE
    BY <1>4, <1>6, <1>7, <1>10, <1>12, Zenon DEF Like
  <1>15. Closes(r, c)
    BY <1>2, <1>13, <1>14 DEF Closes
  <1>16. r \in Socket /\ v.s = r /\ v.out = w.out /\ v.fault = w.fault
    BY <1>1, <1>12 DEF Balanced, Worlds
  <1>17. r.state \notin Writable \cup {"SYN_SENT"}
    BY <1>13 DEF Writable
  <1> HIDE DEF v, s
  <1>18. LET g == tcp_wakeup_waiters(r) IN Sound(g, c, k) /\ Acknowledges(g, c, sent)
    BY <1>2, <1>12, <1>13, <1>15, <1>17, Woken
  <1> QED
    BY <1>13, <1>16, <1>18 DEF v, s

(* tcp_close of a connection: what waits is woken although the FIN has not *)
(* been acknowledged.                                                      *)
LEMMA SendFinKeeps ==
  ASSUME NEW w \in Worlds, NEW c, NEW k \in Nat, NEW sent, k > 0, Sound(w.s, c, k),
         c.user = "closed", w.s.state \in {"SYN_RCVD", "ESTABLISHED", "CLOSE_WAIT"},
         NEW state \in {"FIN_WAIT_1", "LAST_ACK"}
  PROVE  LET v == SendFin(w, state)
             g == tcp_wakeup_waiters(v.s)
         IN  v \in Worlds /\ Sound(g, c, k) /\ Acknowledges(g, c, sent)
  <1> DEFINE s == w.s
             a == [s EXCEPT !.state = state]
             u == [w EXCEPT !.s = a]
             t == tcp_socket_send(u, {"ACK", "FIN"}, s.tx_win_low, <<>>)
             f == [t.s EXCEPT !.tx_win_low = Add(t.s.tx_win_low, 1)]
             v == SendFin(w, state)
  <1>1. s \in Socket /\ Balanced(s, k) /\ Transmits(s, c) /\ Closes(s, c)
    BY DEF Sound, Worlds
  <1>2. [w EXCEPT !.s.state = state] = u
    BY DEF Worlds
  <1>3. v = [t EXCEPT !.s.tx_win_low = Add(@, 1)]
    BY <1>2 DEF SendFin
  <1>4. /\ a \in Socket /\ a.ref = s.ref /\ a.timers = s.timers /\ a.state = state
        /\ a.rx_buffer = s.rx_buffer /\ a.tx_buffer = s.tx_buffer
        /\ s.tx_win_low \in Num
    BY <1>1 DEF Socket
  <1>5. a.listed = s.listed
    BY <1>1, Zenon DEF Socket
  <1> HIDE DEF a
  <1>6. Balanced(a, k)
    BY <1>1, <1>4, <1>5, BalancedSame
  <1>7. u \in Worlds /\ u.s = a
    BY <1>4, Replaced
  <1> HIDE DEF u
  <1>8. t \in Worlds /\ Balanced(t.s, k) /\ Like(a, t.s, a.timers \ {"ack"})
    <2>1. {"ACK", "FIN"} \in SUBSET {"SYN", "ACK", "FIN", "RST"} /\ "ACK" \in {"ACK", "FIN"}
          /\ <<>> \in Seq(Int)
      OBVIOUS
    <2> QED
      BY <1>4, <1>6, <1>7, <2>1, Sends
  <1> HIDE DEF t, s
  <1>9. t.s \in Socket /\ t.s.tx_win_low \in Int /\ Add(t.s.tx_win_low, 1) \in Num
    <2>1. t.s \in Socket /\ t.s.tx_win_low \in Int
      BY <1>8 DEF Balanced, Socket, Num
    <2> QED BY <2>1, Numbers
  <1>10. /\ f \in Socket /\ f.ref = t.s.ref /\ f.timers = t.s.timers /\ f.state = t.s.state
         /\ f.rx_buffer = t.s.rx_buffer /\ f.tx_buffer = t.s.tx_buffer
    BY <1>9 DEF Socket
  <1>11. f.listed = t.s.listed
    BY <1>9, Zenon DEF Socket
  <1>12. v \in Worlds /\ v.s = f
    <2>1. v = [t EXCEPT !.s = f]
      BY <1>3, <1>8 DEF Worlds
    <2> HIDE DEF f, v
    <2> QED BY <1>8, <1>10, <2>1, Replaced
  <1> HIDE DEF f, v
  <1>13. Balanced(f, k)
    BY <1>8, <1>10, <1>11, BalancedSame
  <1>14. /\ f.state = state /\ f.timers = s.timers \ {"ack"}
         /\ f.rx_buffer = s.rx_buffer /\ f.tx_buffer = s.tx_buffer
    BY <1>4, <1>8, <1>10 DEF Like
  <1>15. f.listed = s.listed
    BY <1>5, <1>8, <1>11, Zenon DEF Like
  <1>16. Closes(f, c)
    <2>1. s.state \in {"SYN_RCVD", "ESTABLISHED", "CLOSE_WAIT"}
      BY DEF s
    <2>2. s.listed /\ "time_wait" \notin s.timers \cup c.due
      BY <1>1, <2>1 DEF Closes
    <2> QED BY <1>14, <1>15, <2>2 DEF Closes
  <1>17. f.state \notin Writable \cup {"SYN_SENT"}
    BY <1>14 DEF Writable
  <1>18. LET g == tcp_wakeup_waiters(f) IN Sound(g, c, k) /\ Acknowledges(g, c, sent)
    BY <1>1, <1>13, <1>14, <1>16, <1>17, Woken
  <1> QED
    BY <1>12, <1>18 DEF v

(* What tcp_close does under the lock, before it wakes and lets go. *)
Closing(w) ==
  IF w.s.state \in {"CLOSED", "LISTEN"} THEN Closed(w)
  ELSE IF w.s.state \in {"SYN_RCVD", "ESTABLISHED"} THEN SendFin(w, "FIN_WAIT_1")
  ELSE IF w.s.state = "CLOSE_WAIT" THEN SendFin(w, "LAST_ACK")
  ELSE [w EXCEPT !.fault = "lock kept"]

(* A socket is left with its holders, or freed by the last one. *)
Left(r, c, k, sent) ==
  \/ r = Freed /\ k = 0 /\ c.user = "closed"
  \/ Sound(r, c, k) /\ Acknowledges(r, c, sent)

(* What was acknowledged stays so when more is sent.                       *)
LEMMA MoreSent ==
  ASSUME NEW s, NEW c, NEW sent, NEW more, Acknowledges(s, c, sent), sent \subseteq more
  PROVE  Acknowledges(s, c, more)
  BY DEF Acknowledges, AckIn

(* tcp_close in every state, the references it takes and gives back        *)
(* included.                                                               *)
LEMMA CloseKeeps ==
  ASSUME NEW s, NEW c, NEW d, NEW k \in Nat, NEW sent, Sound(s, c, k), Acknowledges(s, c, sent),
         s.listed, Handed(c, d)
  PROVE  LET v == Closing(World(c.x, inc_socket_ref(s)))
             r == IF v.fault # "none" THEN dec_socket_ref(inc_socket_ref(s))
                  ELSE dec_socket_ref(tcp_wakeup_waiters(v.s))
         IN  v.out \subseteq Segment /\ Left(r, d, k, sent \cup v.out)
  <1> DEFINE t == inc_socket_ref(s)
             w == World(c.x, t)
             v == Closing(w)
             g == tcp_wakeup_waiters(v.s)
  <1>1. Sound(t, c, k + 1) /\ Acknowledges(t, c, sent) /\ Like(s, t, s.timers)
    BY Holds
  <1> HIDE DEF t
  <1>2. t \in Socket /\ t.listed
    <2>1. t \in Socket
      BY <1>1 DEF Sound, Balanced
    <2>2. t.listed
      BY <1>1, Zenon DEF Like
    <2> QED BY <2>1, <2>2
  <1>3. Sound(t, d, k + 1)
    BY <1>1, HandedSound
  <1>4. Acknowledges(t, d, sent)
    BY <1>1 DEF Acknowledges, AckIn, Handed
  <1>5. w \in Worlds /\ w.s = t /\ w.out = {}
    BY <1>2, NewWorld
  <1> HIDE DEF w
  <1>6. PICK j \in Nat : j = k + 1 /\ j > 0 /\ j - 1 = k /\ (j = 1 => k = 0)
    <2>1. k + 1 \in Nat /\ k + 1 > 0 /\ (k + 1) - 1 = k /\ (k + 1 = 1 => k = 0)
      OBVIOUS
    <2> QED BY <2>1
  <1>7. d.user = "closed"
    BY DEF Handed
  <1>8. \/ v.out \subseteq Segment /\ v.fault # "none"
        \/ v.out \subseteq Segment /\ \A more : Sound(g, d, j) /\ Acknowledges(g, d, more)
    <2>1. CASE t.state \in {"CLOSED", "LISTEN"}
      <3>1. v = Closed(w)
        BY <1>5, <2>1 DEF Closing
      <3>2. v.out = w.out /\ \A more : Sound(g, d, j) /\ Acknowledges(g, d, more)
        BY <1>2, <1>3, <1>5, <1>6, <1>7, <2>1, <3>1, ClosedKeeps
      <3> QED BY <1>5, <3>2
    <2>2. CASE t.state \in {"SYN_RCVD", "ESTABLISHED", "CLOSE_WAIT"}
      <3>1. PICK state \in {"FIN_WAIT_1", "LAST_ACK"} : v = SendFin(w, state)
        BY <1>5, <2>2 DEF Closing
      <3>2. v \in Worlds /\ \A more : Sound(g, d, j) /\ Acknowledges(g, d, more)
        BY <1>3, <1>5, <1>6, <1>7, <2>2, <3>1, SendFinKeeps
      <3> HIDE DEF v
      <3>3. v.out \subseteq Segment
        BY <3>2 DEF Worlds
      <3> QED BY <3>2, <3>3
    <2>3. CASE t.state \notin {"CLOSED", "LISTEN", "SYN_RCVD", "ESTABLISHED", "CLOSE_WAIT"}
      <3>1. v = [w EXCEPT !.fault = "lock kept"]
        BY <1>5, <2>3 DEF Closing
      <3>2. v.fault = "lock kept" /\ v.out = {}
        BY <1>5, <3>1 DEF Worlds
      <3> QED BY <3>2
    <2> QED BY <2>1, <2>2, <2>3
  <1> HIDE DEF v, g
  <1>9. v.out \subseteq Segment
    BY <1>8
  <1>10. Left(dec_socket_ref(t), d, k, sent \cup v.out)
    <2>1. Acknowledges(t, d, sent \cup v.out)
      BY <1>4, MoreSent
    <2>2. LET r == dec_socket_ref(t)
          IN  \/ r = Freed /\ j = 1 /\ d.user = "closed"
              \/ Sound(r, d, j - 1) /\ Acknowledges(r, d, sent \cup v.out)
      BY <1>3, <1>6, <2>1, Release
    <2> QED BY <1>6, <2>2 DEF Left
  <1>11. v.fault = "none" => Left(dec_socket_ref(g), d, k, sent \cup v.out)
    <2> SUFFICES ASSUME v.fault = "none" PROVE Left(dec_socket_ref(g), d, k, sent \cup v.out)
      OBVIOUS
    <2>1. Sound(g, d, j) /\ Acknowledges(g, d, sent \cup v.out)
      BY <1>8
    <2>2. LET r == dec_socket_ref(g)
          IN  \/ r = Freed /\ j = 1 /\ d.user = "closed"
              \/ Sound(r, d, j - 1) /\ Acknowledges(r, d, sent \cup v.out)
      BY <1>6, <2>1, Release
    <2> QED BY <1>6, <2>2 DEF Left
  <1> QED
    BY <1>9, <1>10, <1>11 DEF v, g, w, t

(* A socket as it is made. *)
LEMMA Fresh ==
  ASSUME NEW s \in Socket, NEW c, NEW sent, s.ref = 1, s.listed, s.timers = {},
         s.rx_buffer = <<>>, s.tx_buffer = <<>>,
         ~s.rx_event, s.tx_event, ~s.connect_event,
         \/ s.state = "LISTEN" /\ c.x = Listener
         \/ s.state = "SYN_SENT" /\ c.x = Client /\ c.user = "none"
         \/ s.state = "SYN_RCVD",
         c.got = <<>>, c.due = {}, c.user # "closed", c.written \in Nat, c.written <= Bytes(c.x)
  PROVE  Sound(s, c, 0) /\ Acknowledges(s, c, sent)
  <1>1. Balanced(s, 0)
    <2>1. Cardinality(s.timers) = 0
      BY FS_EmptySet
    <2>2. One(s.listed) = 1
      BY DEF One
    <2>3. 1 = 0 + 1 + 0
      OBVIOUS
    <2>4. s.ref = Cardinality(s.timers) + One(s.listed) + 0
      BY <2>1, <2>2, <2>3, Zenon
    <2> QED BY <2>4, Zenon DEF Balanced
  <1>2. Events(s)
    BY DEF Events
  <1>3. Transmits(s, c)
    <2>1. Len(s.rx_buffer) = 0 /\ Len(s.tx_buffer) = 0
      OBVIOUS
    <2> QED BY <2>1, Constants DEF Transmits, Writable
  <1>4. Closes(s, c)
    BY DEF Closes, Open
  <1>5. Acknowledges(s, c, sent)
    BY DEF Acknowledges
  <1> QED
    BY <1>1, <1>2, <1>3, <1>4, <1>5 DEF Sound

(* dec_socket_ref of one holder frees the socket if that was the last.     *)
LEMMA LetsGo ==
  ASSUME NEW s, NEW c, NEW k \in Nat, k > 0, NEW sent, Sound(s, c, k), Acknowledges(s, c, sent)
  PROVE  Left(dec_socket_ref(s), c, k - 1, sent)
  <1>1. k = 1 => k - 1 = 0
    OBVIOUS
  <1>2. LET r == dec_socket_ref(s)
        IN  \/ r = Freed /\ k = 1 /\ c.user = "closed"
            \/ Sound(r, c, k - 1) /\ Acknowledges(r, c, sent)
    BY Release
  <1> QED
    BY <1>1, <1>2 DEF Left

(* The reader has taken n bytes; with the window open again it says so. *)
Taken(s, n) ==
  [s EXCEPT !.rx_buffer = SubSeq(@, n + 1, Len(@)),
            !.rx_event = ~(s.state = "ESTABLISHED" /\ n = Len(s.rx_buffer))]

(* tcp_read of n bytes, with or without a window update.                   *)
LEMMA ReadKeeps ==
  ASSUME NEW s, NEW c, NEW d, NEW k \in Nat, k > 0, NEW sent,
         Sound(s, c, k), Acknowledges(s, c, sent), NEW n \in 1 .. Len(s.rx_buffer),
         d.x = c.x, d.written = c.written, d.due = c.due, d.user = c.user
  PROVE  LET w == World(c.x, Taken(s, n))
         IN  In(w, d, k, sent) /\ In(send_ack(w), d, k, sent)
  <1> DEFINE t == Taken(s, n)
             rest == SubSeq(s.rx_buffer, n + 1, Len(s.rx_buffer))
             w == World(c.x, t)
  <1>1. s \in Socket /\ Balanced(s, k) /\ Transmits(s, c) /\ Closes(s, c) /\ Events(s)
    BY DEF Sound, Balanced
  <1>2. s.rx_buffer \in Seq(Int) /\ Len(s.rx_buffer) \in Nat
    BY <1>1, LenProperties DEF Socket
  <1>3. n \in Nat /\ n >= 1 /\ n <= Len(s.rx_buffer)
    BY <1>2
  <1>4. rest \in Seq(Int) /\ Len(rest) = Len(s.rx_buffer) - n
    <2>1. \A i \in n + 1 .. Len(s.rx_buffer) : s.rx_buffer[i] \in Int
      BY <1>2, <1>3, LenProperties
    <2>2. rest \in Seq(Int)
          /\ Len(rest) = IF n + 1 <= Len(s.rx_buffer) THEN Len(s.rx_buffer) - (n + 1) + 1 ELSE 0
      BY <1>2, <1>3, <2>1, SubSeqProperties
    <2> QED BY <1>2, <1>3, <2>2
  <1>5. s.rx_buffer # <<>>
    BY <1>2, <1>3
  <1> HIDE DEF rest
  <1>6. /\ t \in Socket /\ t.ref = s.ref /\ t.timers = s.timers /\ t.state = s.state
        /\ t.rx_buffer = rest /\ t.tx_buffer = s.tx_buffer /\ t.rx_win_low = s.rx_win_low
        /\ t.tx_win_low = s.tx_win_low /\ t.tx_highest_seq = s.tx_highest_seq
    BY <1>1, <1>4 DEF Taken, Socket, rest
  <1>7. /\ t.listed = s.listed /\ t.tx_event = s.tx_event /\ t.connect_event = s.connect_event
        /\ t.rx_event = ~(s.state = "ESTABLISHED" /\ n = Len(s.rx_buffer))
    BY <1>1, Zenon DEF Taken, Socket
  <1> HIDE DEF t
  <1>8. Balanced(t, k)
    BY <1>1, <1>6, <1>7, BalancedSame
  <1>9. Events(t)
    <2>1. n = Len(s.rx_buffer) => rest = <<>>
      BY <1>2, <1>4, EmptySeq
    <2> QED
      BY <1>1, <1>6, <1>7, <2>1, Zenon DEF Events
  <1>10. Transmits(t, d)
    <2>1. Outstanding(t) = Outstanding(s)
      BY <1>6 DEF Outstanding
    <2>2. Len(rest) <= WinSize - 1
      BY <1>1, <1>2, <1>3, <1>4, Constants DEF Transmits
    <2> QED BY <1>1, <1>6, <2>1, <2>2 DEF Transmits
  <1>11. Closes(t, d)
    <2>1. s.state # "SYN_RCVD"
      BY <1>1, <1>5 DEF Closes
    <2>2. Closes(t, c)
      BY <1>1, <1>6, <1>7, <2>1, ClosesSame
    <2> QED BY <1>6, <2>1, <2>2 DEF Closes
  <1>12. Acknowledges(t, d, sent)
    BY <1>5, <1>6 DEF Acknowledges, AckIn
  <1>13. w \in Worlds /\ w.s = t /\ w.remote = Other(HostOf(c.x)) /\ w.out = {}
    BY <1>6, NewWorld
  <1> HIDE DEF w
  <1>14. NearlyIn(w, d, k)
    BY <1>8, <1>9, <1>10, <1>11, <1>13 DEF NearlyIn, Sound
  <1>15. In(w, d, k, sent)
    BY <1>12, <1>13, <1>14 DEF In
  <1>16. In(send_ack(w), d, k, sent)
    BY <1>14, SendAckKeeps
  <1> QED
    BY <1>15, <1>16 DEF w, t

(* A reader that found nothing waits again. *)
LEMMA ReadWaits ==
  ASSUME NEW s, NEW c, NEW k \in Nat, NEW sent, Sound(s, c, k), Acknowledges(s, c, sent),
         s.rx_buffer = <<>>, s.state = "ESTABLISHED"
  PROVE  LET t == [s EXCEPT !.rx_event = FALSE]
         IN  Sound(t, c, k) /\ Acknowledges(t, c, sent)
  <1> DEFINE t == [s EXCEPT !.rx_event = FALSE]
  <1>1. s \in Socket /\ Balanced(s, k) /\ Transmits(s, c) /\ Closes(s, c) /\ Events(s)
    BY DEF Sound, Balanced
  <1>2. /\ t \in Socket /\ t.ref = s.ref /\ t.timers = s.timers /\ t.state = s.state
        /\ t.rx_buffer = s.rx_buffer /\ t.tx_buffer = s.tx_buffer /\ t.rx_win_low = s.rx_win_low
        /\ t.tx_win_low = s.tx_win_low /\ t.tx_highest_seq = s.tx_highest_seq
    BY <1>1 DEF Socket
  <1>3. t.listed = s.listed /\ t.tx_event = s.tx_event /\ t.connect_event = s.connect_event
    BY <1>1, Zenon DEF Socket
  <1> HIDE DEF t
  <1>4. Balanced(t, k)
    BY <1>1, <1>2, <1>3, BalancedSame
  <1>5. Events(t)
    BY <1>1, <1>2, <1>3, Zenon DEF Events
  <1>6. Transmits(t, c)
    <2>1. Outstanding(t) = Outstanding(s)
      BY <1>2 DEF Outstanding
    <2> QED BY <1>1, <1>2, <2>1 DEF Transmits
  <1>7. Closes(t, c)
    BY <1>1, <1>2, <1>3, ClosesSame
  <1>8. Acknowledges(t, c, sent)
    BY <1>2, AcknowledgesSame
  <1> QED
    BY <1>4, <1>5, <1>6, <1>7, <1>8 DEF Sound, t

(* The writer has put n bytes into the buffer. *)
Filled(s, first, n) ==
  LET buffer == s.tx_buffer \o [i \in 1 .. n |-> first + i]
  IN  [s EXCEPT !.tx_buffer = buffer, !.tx_event = @ /\ Len(buffer) # TxSize]

(* tcp_write of n bytes that fit.                                          *)
LEMMA WriteKeeps ==
  ASSUME NEW s, NEW c, NEW d, NEW k \in Nat, k > 0, NEW sent,
         Sound(s, c, k), Acknowledges(s, c, sent), s.tx_event, s.state \in Writable,
         NEW n \in Nat, c.written + n <= Bytes(c.x),
         d.x = c.x, d.written = c.written + n, d.due = c.due, d.user = c.user, d.got = c.got
  PROVE  LET w == World(c.x, Filled(s, c.written, n))
         IN  In(w, d, k, sent) /\ In(tcp_write_pending_data(w), d, k, sent)
  <1> DEFINE more == [i \in 1 .. n |-> c.written + i]
             buffer == s.tx_buffer \o more
             t == Filled(s, c.written, n)
             w == World(c.x, t)
  <1>1. s \in Socket /\ Balanced(s, k) /\ Transmits(s, c) /\ Closes(s, c) /\ Events(s)
    BY DEF Sound, Balanced
  <1>2. s.tx_buffer \in Seq(Int) /\ Len(s.tx_buffer) \in Nat
    BY <1>1, LenProperties DEF Socket
  <1>3. c.written \in Nat /\ Len(s.tx_buffer) <= c.written
    BY <1>1 DEF Transmits
  <1>4. more \in Seq(Int) /\ Len(more) = n
    <2>1. \A i \in 1 .. n : c.written + i \in Int
      BY <1>3
    <2> QED BY <2>1
  <1> HIDE DEF more
  <1>5. buffer \in Seq(Int) /\ Len(buffer) = Len(s.tx_buffer) + n
    BY <1>2, <1>4, ConcatProperties
  <1>6. t = [s EXCEPT !.tx_buffer = buffer, !.tx_event = s.tx_event /\ Len(buffer) # TxSize]
    BY DEF Filled, more
  <1> HIDE DEF buffer, t
  <1>7. /\ t \in Socket /\ t.ref = s.ref /\ t.timers = s.timers /\ t.state = s.state
        /\ t.rx_buffer = s.rx_buffer /\ t.tx_buffer = buffer /\ t.rx_win_low = s.rx_win_low
        /\ t.tx_win_low = s.tx_win_low /\ t.tx_highest_seq = s.tx_highest_seq
    BY <1>1, <1>5, <1>6 DEF Socket
  <1>8. /\ t.listed = s.listed /\ t.rx_event = s.rx_event /\ t.connect_event = s.connect_event
        /\ t.tx_event = (s.tx_event /\ Len(buffer) # TxSize)
    BY <1>1, <1>6, Zenon DEF Socket
  <1>9. Balanced(t, k)
    BY <1>1, <1>7, <1>8, BalancedSame
  <1>10. Events(t)
    BY <1>1, <1>7, <1>8, Zenon DEF Events, Writable
  <1>11. Transmits(t, d)
    <2>1. Outstanding(t) = Outstanding(s) /\ Outstanding(s) <= Len(s.tx_buffer)
      BY <1>1, <1>7 DEF Outstanding, Transmits
    <2>2. Outstanding(s) \in Num
      BY <1>1, Difference DEF Outstanding, Socket
    <2>3. Outstanding(t) <= Len(buffer)
      <3>1. Outstanding(s) \in Int
        BY <2>2 DEF Num
      <3> QED BY <1>2, <1>5, <2>1, <3>1
    <2>4. Len(buffer) <= d.written /\ d.written \in Nat /\ d.written <= Bytes(d.x)
      BY <1>2, <1>3, <1>5
    <2> QED
      BY <1>1, <1>7, <2>1, <2>3, <2>4 DEF Transmits
  <1>12. Closes(t, d)
    <2>1. Closes(t, c)
      BY <1>1, <1>7, <1>8, ClosesSame
    <2> QED BY <2>1 DEF Closes
  <1>13. Acknowledges(t, d, sent)
    BY <1>7 DEF Acknowledges, AckIn
  <1>14. w \in Worlds /\ w.s = t /\ w.remote = Other(HostOf(c.x)) /\ w.out = {}
    BY <1>7, NewWorld
  <1> HIDE DEF w
  <1>15. In(w, d, k, sent)
    BY <1>9, <1>10, <1>11, <1>12, <1>13, <1>14 DEF In, NearlyIn, Sound
  <1> QED
    BY <1>7, <1>14, <1>15, WritePendingKeeps DEF w, t

(* A timer that leaves the list becomes the one whose callback is due. *)
LEMMA FiresKeeps ==
  ASSUME NEW s, NEW c, NEW d, NEW k \in Nat, NEW sent, Sound(s, c, k), Acknowledges(s, c, sent),
         NEW t \in s.timers, c.due = {}, d.due = {t},
         d.x = c.x, d.written = c.written, d.user = c.user, d.got = c.got
  PROVE  LET r == [s EXCEPT !.timers = @ \ {t}]
         IN  Sound(r, d, k + 1) /\ Acknowledges(r, d, sent)
  <1> DEFINE r == [s EXCEPT !.timers = s.timers \ {t}]
  <1>1. s \in Socket /\ Balanced(s, k) /\ Transmits(s, c) /\ Closes(s, c) /\ Events(s)
    BY DEF Sound, Balanced
  <1>2. /\ r \in Socket /\ r.ref = s.ref /\ r.timers = s.timers \ {t} /\ r.state = s.state
        /\ r.rx_buffer = s.rx_buffer /\ r.tx_buffer = s.tx_buffer /\ r.rx_win_low = s.rx_win_low
        /\ r.tx_win_low = s.tx_win_low /\ r.tx_highest_seq = s.tx_highest_seq
    BY <1>1 DEF Socket
  <1>3. r.listed = s.listed /\ r.tx_event = s.tx_event /\ r.connect_event = s.connect_event
        /\ r.rx_event = s.rx_event
    BY <1>1, Zenon DEF Socket
  <1> HIDE DEF r
  <1>4. Balanced(r, k + 1)
    <2>1. s.timers \in SUBSET Timers /\ Cardinality(s.timers) \in Nat /\ One(s.listed) \in Nat
          /\ s.ref = Cardinality(s.timers) + One(s.listed) + k
      BY <1>1, Count
    <2>2. Cardinality(r.timers) = Cardinality(s.timers) - 1
      BY <1>2, <2>1, TimerSets
    <2>3. One(r.listed) = One(s.listed)
      BY <1>3, Zenon
    <2>4. r.ref = Cardinality(r.timers) + One(r.listed) + (k + 1)
      BY <1>2, <2>1, <2>2, <2>3
    <2> QED BY <1>2, <2>4 DEF Balanced
  <1>5. Events(r)
    BY <1>1, <1>2, <1>3, Zenon DEF Events
  <1>6. Transmits(r, d)
    <2>1. Outstanding(r) = Outstanding(s)
      BY <1>2 DEF Outstanding
    <2> QED BY <1>1, <1>2, <2>1 DEF Transmits
  <1>7. Closes(r, d)
    <2>1. r.listed <=> s.listed
      BY <1>3
    <2>2. "time_wait" \in r.timers \cup d.due <=> "time_wait" \in s.timers \cup c.due
      BY <1>2
    <2>3. "time_wait" \notin r.timers \cap d.due
      BY <1>2
    <2> QED BY <1>1, <1>2, <2>1, <2>2, <2>3 DEF Closes
  <1>8. Acknowledges(r, d, sent)
    BY <1>2 DEF Acknowledges, AckIn
  <1> QED
    BY <1>4, <1>5, <1>6, <1>7, <1>8 DEF Sound, r
-----------------------------------------------------------------------------
(* Steps of the system. *)

(* Sockets before their allocation and after they were freed.              *)
LEMMA Records ==
  /\ Unallocated \in Socket /\ Unallocated.state = "NONE" /\ Unallocated.listed = FALSE
  /\ Unallocated.connect_event = FALSE /\ Unallocated.timers = {}
  /\ Freed \in Socket /\ Freed.state = "FREED" /\ Freed.listed = FALSE
  /\ Freed.timers = {}
  <1>1. 0 \in Num
    BY Constants DEF Num
  <1>2. Unallocated \in Socket /\ Unallocated.state = "NONE" /\ Unallocated.timers = {}
    BY <1>1 DEF Unallocated, Socket
  <1>3. Unallocated.listed = FALSE /\ Unallocated.connect_event = FALSE
    BY Zenon DEF Unallocated
  <1>4. Freed \in Socket /\ Freed.state = "FREED" /\ Freed.timers = {}
    BY <1>2 DEF Freed, Socket, Unallocated
  <1>5. Freed.listed = FALSE
    BY <1>2, <1>3, Zenon DEF Freed, Socket
  <1> QED
    BY <1>2, <1>3, <1>4, <1>5

(* The holders are a number.                                               *)
LEMMA OthersNat ==
  ASSUME NEW x
  PROVE  Others(x) \in Nat
  BY DEF Others, One

(* Whoever has, holds or finds a socket has one that is in use. *)
LEMMA Present ==
  ASSUME NEW x \in Sockets, SocketInv(x),
         \/ Others(x) > 0
         \/ user[x] = "open"
         \/ sock[x].listed
         \/ sock[x].timers # {}
         \/ sock[x].state \notin {"NONE", "FREED"}
  PROVE  Sound(sock[x], Context(x), Others(x)) /\ Acknowledges(sock[x], Context(x), net)
  <1>1. SUFFICES ASSUME Absent(x) PROVE FALSE
    BY DEF SocketInv
  <1>2. sock[x] \in {Unallocated, Freed} /\ user[x] # "open" /\ Others(x) = 0
    BY <1>1 DEF Absent
  <1>3. ~sock[x].listed /\ sock[x].timers = {} /\ sock[x].state \in {"NONE", "FREED"}
    BY <1>2, Records
  <1> QED
    BY <1>2, <1>3

(* The parts of a context.                                                 *)
LEMMA ContextIs ==
  ASSUME NEW x
  PROVE  LET c == Context(x)
         IN  c.x = x /\ c.got = got[x] /\ c.written = written[x] /\ c.due = Due(x) /\ c.user = user[x]
  BY DEF Context

(* At most one callback of a host is due.                                  *)
LEMMA DueIs ==
  ASSUME NEW x
  PROVE  /\ firing[HostOf(x)].socket # x => Due(x) = {}
         /\ \A t \in Timers : firing[HostOf(x)] = [socket |-> x, timer |-> t] => Due(x) = {t}
  <1>1. ASSUME firing[HostOf(x)].socket # x PROVE Due(x) = {}
    BY <1>1 DEF Due
  <1>2. ASSUME NEW t \in Timers, firing[HostOf(x)] = [socket |-> x, timer |-> t]
        PROVE  Due(x) = {t}
    BY <1>2 DEF Due
  <1> QED
    BY <1>1, <1>2

(* A step leaves all of socket y alone. *)
Same(y) ==
  /\ sock'[y] = sock[y] /\ user'[y] = user[y] /\ got'[y] = got[y] /\ written'[y] = written[y]
  /\ Due(y)' = Due(y) /\ Others(y)' = Others(y)

(* The other sockets: nobody else's step changes what they promise, since  *)
(* segments are only added.                                                *)
LEMMA Untouched ==
  ASSUME NEW y \in Sockets, SocketInv(y), Same(y), net \subseteq net'
  PROVE  SocketInv(y)'
  <1>1. Context(y)' = Context(y)
    BY DEF Context, Same
  <1>2. CASE Absent(y)
    <2>1. Absent(y)'
      BY <1>2 DEF Absent, Same
    <2> QED BY <2>1 DEF SocketInv
  <1>3. CASE Sound(sock[y], Context(y), Others(y)) /\ Acknowledges(sock[y], Context(y), net)
    <2>1. Sound(sock'[y], Context(y)', Others(y)')
      BY <1>1, <1>3 DEF Same
    <2>2. Acknowledges(sock[y], Context(y), net')
      BY <1>3, MoreSent
    <2>3. Acknowledges(sock'[y], Context(y)', net')
      BY <1>1, <2>2 DEF Same
    <2> QED BY <2>1, <2>3 DEF SocketInv
  <1> QED
    BY <1>2, <1>3 DEF SocketInv

(* A step at socket x ... *)
LEMMA Touched ==
  ASSUME NEW x \in Sockets, Left(sock'[x], Context(x)', Others(x)', net')
  PROVE  SocketInv(x)' /\ sock'[x] \in Socket /\ sock'[x].state # "NONE"
  <1>1. CASE sock'[x] = Freed /\ Others(x)' = 0 /\ Context(x)'.user = "closed"
    <2>1. user'[x] = "closed"
      BY <1>1 DEF Context
    <2>2. SocketInv(x)'
      BY <1>1, <2>1 DEF SocketInv, Absent
    <2> QED BY <1>1, <2>2, Records
  <1>2. CASE Sound(sock'[x], Context(x)', Others(x)') /\ Acknowledges(sock'[x], Context(x)', net')
    <2>1. SocketInv(x)'
      BY <1>2 DEF SocketInv
    <2>2. sock'[x] \in Socket /\ sock'[x].state # "NONE"
      BY <1>2 DEF Sound, Balanced, Closes
    <2> QED BY <2>1, <2>2
  <1> QED
    BY <1>1, <1>2 DEF Left

(* ... and nowhere else. *)
LEMMA StepAt ==
  ASSUME TcpIndInv, NEW x \in Sockets, \A y \in Sockets \ {x} : Same(y), net \subseteq net',
         Left(sock'[x], Context(x)', Others(x)', net')
  PROVE  /\ \A y \in Sockets : SocketInv(y)'
         /\ sock'[x] \in Socket /\ sock'[x].state # "NONE"
  BY Touched, Untouched DEF TcpIndInv

(* Before anything is opened.                                              *)
LEMMA Initially == Init => TcpIndInv
  <1> SUFFICES ASSUME Init PROVE TcpIndInv
    OBVIOUS
  <1>1. \A x : HostOf(x) \in Hosts
    BY DEF HostOf, Hosts
  <1>2. TcpTypeOK
    <2>1. sock \in [Sockets -> Socket]
      BY Records DEF Init
    <2>2. \A h \in Hosts : input[h] = Idle /\ firing[h] = Idle
      BY DEF Init
    <2>3. DOMAIN input = Hosts /\ DOMAIN firing = Hosts /\ accepting \in BOOLEAN
          /\ reading \in [Sockets -> BOOLEAN] /\ writing \in [Sockets -> Nat]
          /\ written \in [Sockets -> Nat] /\ accepted \in {NULL, Accepted}
          /\ net \subseteq Segment
      BY DEF Init
    <2>4. user \in [Sockets -> {"none", "open", "closed"}]
      BY DEF Init
    <2>5. got \in [Sockets -> Seq(Int)]
      BY DEF Init
    <2> QED
      BY <2>1, <2>2, <2>3, <2>4, <2>5 DEF TcpTypeOK
  <1>3. CallersOK
    <2>1. \A x \in Sockets : Bytes(x) \in Nat
      BY TcpAssumption DEF Bytes
    <2> QED
      BY <2>1, Constants DEF Init, CallersOK, Sockets
  <1>4. ASSUME NEW x \in Sockets PROVE SocketInv(x)
    <2>1. input[HostOf(x)].socket # x /\ firing[HostOf(x)].socket # x
      BY <1>1, Constants DEF Init, Idle
    <2>2. ~reading[x] /\ ~(writing[x] > 0) /\ ~accepting
      BY DEF Init
    <2>3. Others(x) = 0
      BY <2>1, <2>2 DEF Others, One
    <2> QED
      BY <2>3 DEF Init, SocketInv, Absent
  <1> QED
    BY <1>2, <1>3, <1>4 DEF TcpIndInv

(* tcp_read takes its reference.                                           *)
LEMMA Read ==
  ASSUME TcpIndInv, NEW x \in Sockets, tcp_read(x)
  PROVE  TcpIndInv'
  <1>1. TcpTypeOK /\ CallersOK /\ SocketInv(x)
    BY DEF TcpIndInv
  <1>2. /\ x # Listener /\ user[x] = "open" /\ ~reading[x]
        /\ sock' = [sock EXCEPT ![x] = inc_socket_ref(sock[x])]
        /\ reading' = [reading EXCEPT ![x] = TRUE]
        /\ UNCHANGED <<accepted, net, input, firing, user, accepting, writing, written, got>>
    BY DEF tcp_read
  <1>3. sock'[x] = inc_socket_ref(sock[x]) /\ reading'[x] = TRUE
        /\ \A y \in Sockets \ {x} : sock'[y] = sock[y] /\ reading'[y] = reading[y]
    BY <1>1, <1>2 DEF TcpTypeOK
  <1>4. Others(x)' = Others(x) + 1
    BY <1>2, <1>3 DEF Others, One
  <1>5. \A y \in Sockets \ {x} : Same(y)
    BY <1>2, <1>3 DEF Same, Due, Others
  <1>6. Context(x)' = Context(x)
    BY <1>2 DEF Context, Due
  <1>7. Left(sock'[x], Context(x)', Others(x)', net')
    <2>1. Sound(sock[x], Context(x), Others(x)) /\ Acknowledges(sock[x], Context(x), net)
      BY <1>1, <1>2, Present
    <2>2. Sound(sock'[x], Context(x), Others(x) + 1) /\ Acknowledges(sock'[x], Context(x), net)
      BY <1>3, <2>1, Holds, OthersNat
    <2> QED BY <1>2, <1>4, <1>6, <2>2 DEF Left
  <1>8. /\ \A y \in Sockets : SocketInv(y)'
        /\ sock'[x] \in Socket /\ sock'[x].state # "NONE"
    BY <1>2, <1>5, <1>7, StepAt
  <1>9. TcpTypeOK'
    BY <1>1, <1>2, <1>8 DEF TcpTypeOK
  <1>10. CallersOK'
    BY <1>1, <1>2, <1>3, <1>8 DEF CallersOK
  <1> QED
    BY <1>8, <1>9, <1>10 DEF TcpIndInv

(* tcp_write takes its reference.                                          *)
LEMMA Write ==
  ASSUME TcpIndInv, NEW x \in Sockets, NEW len \in 1 .. Bytes(x), tcp_write(x, len)
  PROVE  TcpIndInv'
  <1>1. TcpTypeOK /\ CallersOK /\ SocketInv(x)
    BY DEF TcpIndInv
  <1>2. /\ x # Listener /\ user[x] = "open" /\ writing[x] = 0 /\ written[x] + len <= Bytes(x)
        /\ sock' = [sock EXCEPT ![x] = inc_socket_ref(sock[x])]
        /\ writing' = [writing EXCEPT ![x] = len]
        /\ UNCHANGED <<accepted, net, input, firing, user, accepting, reading, written, got>>
    BY DEF tcp_write
  <1>3. sock'[x] = inc_socket_ref(sock[x]) /\ writing'[x] = len /\ len \in Nat /\ len > 0
        /\ \A y \in Sockets \ {x} : sock'[y] = sock[y] /\ writing'[y] = writing[y]
    BY <1>1, <1>2 DEF TcpTypeOK
  <1>4. Others(x)' = Others(x) + 1
    BY <1>2, <1>3 DEF Others, One
  <1>5. \A y \in Sockets \ {x} : Same(y)
    BY <1>2, <1>3 DEF Same, Due, Others
  <1>6. Context(x)' = Context(x)
    BY <1>2 DEF Context, Due
  <1>7. Left(sock'[x], Context(x)', Others(x)', net')
    <2>1. Sound(sock[x], Context(x), Others(x)) /\ Acknowledges(sock[x], Context(x), net)
      BY <1>1, <1>2, Present
    <2>2. Sound(sock'[x], Context(x), Others(x) + 1) /\ Acknowledges(sock'[x], Context(x), net)
      BY <1>3, <2>1, Holds, OthersNat
    <2> QED BY <1>2, <1>4, <1>6, <2>2 DEF Left
  <1>8. /\ \A y \in Sockets : SocketInv(y)'
        /\ sock'[x] \in Socket /\ sock'[x].state # "NONE"
    BY <1>2, <1>5, <1>7, StepAt
  <1>9. TcpTypeOK'
    BY <1>1, <1>2, <1>3, <1>8 DEF TcpTypeOK
  <1>10. CallersOK'
    BY <1>1, <1>2, <1>3, <1>8 DEF CallersOK
  <1> QED
    BY <1>8, <1>9, <1>10 DEF TcpIndInv

(* tcp_accept takes its reference.                                         *)
LEMMA Accept ==
  ASSUME TcpIndInv, tcp_accept
  PROVE  TcpIndInv'
  <1> DEFINE x == Listener
  <1>0. x \in Sockets
    BY DEF Sockets
  <1>1. TcpTypeOK /\ CallersOK /\ SocketInv(x)
    BY <1>0 DEF TcpIndInv
  <1>2. /\ user[x] = "open" /\ ~accepting /\ accepting' = TRUE
        /\ sock' = [sock EXCEPT ![x] = inc_socket_ref(sock[x])]
        /\ UNCHANGED <<accepted, net, input, firing, user, reading, writing, written, got>>
    BY DEF tcp_accept
  <1>3. sock'[x] = inc_socket_ref(sock[x])
        /\ \A y \in Sockets \ {x} : sock'[y] = sock[y]
    BY <1>0, <1>1, <1>2 DEF TcpTypeOK
  <1>4. Others(x)' = Others(x) + 1
    BY <1>2 DEF Others, One
  <1>5. \A y \in Sockets \ {x} : Same(y)
    BY <1>2, <1>3 DEF Same, Due, Others
  <1>6. Context(x)' = Context(x)
    BY <1>2 DEF Context, Due
  <1>7. Left(sock'[x], Context(x)', Others(x)', net')
    <2>1. Sound(sock[x], Context(x), Others(x)) /\ Acknowledges(sock[x], Context(x), net)
      BY <1>0, <1>1, <1>2, Present
    <2>2. Sound(sock'[x], Context(x), Others(x) + 1) /\ Acknowledges(sock'[x], Context(x), net)
      BY <1>3, <2>1, Holds, OthersNat
    <2> QED BY <1>2, <1>4, <1>6, <2>2 DEF Left
  <1>8. /\ \A y \in Sockets : SocketInv(y)'
        /\ sock'[x] \in Socket /\ sock'[x].state # "NONE"
    BY <1>0, <1>2, <1>5, <1>7, StepAt
  <1>9. TcpTypeOK'
    BY <1>0, <1>1, <1>2, <1>8 DEF TcpTypeOK
  <1>10. CallersOK'
    BY <1>1, <1>2, <1>3, <1>8, Constants DEF CallersOK, Sockets
  <1> QED
    BY <1>8, <1>9, <1>10 DEF TcpIndInv

(* The socket found for a segment is in the list of the segment's host. *)
LEMMA Found ==
  ASSUME NEW h, lookup_socket(h) # NULL
  PROVE  /\ lookup_socket(h) \in Sockets /\ HostOf(lookup_socket(h)) = h
         /\ sock[lookup_socket(h)].listed
  <1>1. CASE Connected(h) # {}
    <2>1. lookup_socket(h) \in Connected(h)
      BY <1>1 DEF lookup_socket
    <2> QED BY <2>1 DEF Connected
  <1>2. CASE Connected(h) = {}
    <2>1. lookup_socket(h) = Listener /\ h = "server" /\ sock[Listener].listed
      BY <1>2 DEF lookup_socket
    <2> QED BY <2>1, Constants DEF HostOf, Sockets
  <1> QED BY <1>1, <1>2

(* tcp_input looks the socket up and takes its reference.                  *)
LEMMA Input ==
  ASSUME TcpIndInv, NEW m \in net, tcp_input(m)
  PROVE  TcpIndInv'
  <1> DEFINE h == m.to
  <1>1. TcpTypeOK /\ CallersOK
    BY DEF TcpIndInv
  <1>2. m \in Segment /\ h \in Hosts
    BY <1>1 DEF TcpTypeOK, Segment
  <1>3. input[h] = Idle
        /\ UNCHANGED <<accepted, firing, user, accepting, reading, writing, written, got>>
    BY DEF tcp_input, Calls
  <1>4. CASE lookup_socket(h) = NULL
    <2>1. net' = net \cup {Reset(Other(h))} /\ sock' = sock /\ input' = input
      BY <1>4 DEF tcp_input
    <2>2. Reset(Other(h)) \in Segment
      <3>1. 0 \in Num /\ <<>> \in Seq(Int)
        BY Constants DEF Num
      <3> QED BY <3>1 DEF Reset, tcp_send, Segment, Other, Hosts
    <2>3. TcpTypeOK'
      BY <1>1, <1>3, <2>1, <2>2 DEF TcpTypeOK
    <2>4. CallersOK'
      BY <1>1, <1>3, <2>1 DEF CallersOK
    <2>5. ASSUME NEW y \in Sockets PROVE SocketInv(y)'
      <3>1. Same(y)
        BY <1>3, <2>1 DEF Same, Due, Others
      <3> QED BY <2>1, <3>1, Untouched DEF TcpIndInv
    <2> QED BY <2>3, <2>4, <2>5 DEF TcpIndInv
  <1>5. CASE lookup_socket(h) # NULL
    <2>1. PICK x \in Sockets : x = lookup_socket(h) /\ HostOf(x) = h /\ sock[x].listed
      BY <1>5, Found
    <2>2. /\ sock' = [sock EXCEPT ![x] = inc_socket_ref(sock[x])] /\ net' = net
          /\ input' = [input EXCEPT ![h] = [socket |-> x, segment |-> m]]
      BY <1>5, <2>1 DEF tcp_input
    <2> HIDE DEF h
    <2>3. sock'[x] = inc_socket_ref(sock[x])
          /\ \A y \in Sockets \ {x} : sock'[y] = sock[y]
      BY <1>1, <2>1, <2>2 DEF TcpTypeOK
    <2>4. input'[h] = [socket |-> x, segment |-> m] /\ input'[h].socket = x
          /\ \A g \in Hosts \ {h} : input'[g] = input[g]
      BY <1>1, <1>2, <2>2 DEF TcpTypeOK
    <2>5. \A y \in Sockets : input[h].socket # y
      BY <1>3, Constants DEF Idle
    <2>6. Others(x)' = Others(x) + 1
      BY <1>3, <2>1, <2>4, <2>5 DEF Others, One
    <2>7. ASSUME NEW y \in Sockets \ {x} PROVE Same(y)
      <3>1. HostOf(y) \in Hosts
        BY DEF HostOf, Hosts
      <3>2. input'[HostOf(y)].socket = y <=> input[HostOf(y)].socket = y
        BY <2>4, <2>5, <3>1
      <3>3. Others(y)' = Others(y)
        BY <1>3, <3>2 DEF Others, One
      <3> QED BY <1>3, <2>3, <3>3 DEF Same, Due
    <2>8. Context(x)' = Context(x)
      BY <1>3 DEF Context, Due
    <2>9. Left(sock'[x], Context(x)', Others(x)', net')
      <3>1. Sound(sock[x], Context(x), Others(x)) /\ Acknowledges(sock[x], Context(x), net)
        BY <2>1, Present DEF TcpIndInv
      <3>2. Sound(sock'[x], Context(x), Others(x) + 1) /\ Acknowledges(sock'[x], Context(x), net)
        BY <2>3, <3>1, Holds, OthersNat
      <3> QED BY <2>2, <2>6, <2>8, <3>2 DEF Left
    <2>10. /\ \A y \in Sockets : SocketInv(y)'
           /\ sock'[x] \in Socket /\ sock'[x].state # "NONE"
      BY <2>1, <2>2, <2>7, <2>9, StepAt
    <2>11. TcpTypeOK'
      <3>1. \A g \in Hosts :
              \/ input'[g] = Idle
              \/ input'[g] \in [socket : Sockets, segment : Segment] /\ HostOf(input'[g].socket) = g
        <4>1. [socket |-> x, segment |-> m] \in [socket : Sockets, segment : Segment]
          BY <1>2
        <4>2. HostOf(input'[h].socket) = h
          BY <2>1, <2>4
        <4> QED BY <1>1, <2>4, <4>1, <4>2 DEF TcpTypeOK
      <3>2. sock' \in [Sockets -> Socket] /\ DOMAIN input' = Hosts
        BY <1>1, <2>2, <2>10 DEF TcpTypeOK
      <3> QED BY <1>1, <1>3, <2>2, <3>1, <3>2 DEF TcpTypeOK
    <2>12. CallersOK'
      <3>1. accepted = Accepted => sock'[Accepted].state # "NONE"
        BY <1>1, <2>3, <2>10 DEF CallersOK, Sockets
      <3> QED BY <1>1, <1>3, <3>1 DEF CallersOK
    <2> QED BY <2>10, <2>11, <2>12 DEF TcpIndInv
  <1> QED
    BY <1>4, <1>5

(* The reference of a timer goes to its callback.                          *)
LEMMA TimerWork ==
  ASSUME TcpIndInv, NEW x \in Sockets, NEW t \in Timers, net_timer_work_routine(x, t)
  PROVE  TcpIndInv'
  <1> DEFINE h == HostOf(x)
             f == [socket |-> x, timer |-> t]
  <1>1. TcpTypeOK /\ CallersOK /\ h \in Hosts
    BY DEF TcpIndInv, HostOf, Hosts
  <1>2. /\ firing[h] = Idle /\ t \in sock[x].timers
        /\ sock' = [sock EXCEPT ![x].timers = @ \ {t}]
        /\ firing' = [firing EXCEPT ![h] = f]
        /\ UNCHANGED <<accepted, net, input, user, accepting, reading, writing, written, got>>
    BY DEF net_timer_work_routine, Calls
  <1>3. sock'[x] = [sock[x] EXCEPT !.timers = @ \ {t}]
        /\ \A y \in Sockets \ {x} : sock'[y] = sock[y]
    BY <1>1, <1>2 DEF TcpTypeOK
  <1>4. firing'[h] = f /\ f.socket = x /\ \A g \in Hosts \ {h} : firing'[g] = firing[g]
    BY <1>1, <1>2 DEF TcpTypeOK
  <1>5. \A y \in Sockets : firing[h].socket # y
    BY <1>2, Constants DEF Idle
  <1>6. Others(x)' = Others(x) + 1
    BY <1>2, <1>4, <1>5 DEF Others, One
  <1>7. ASSUME NEW y \in Sockets \ {x} PROVE Same(y)
    <2>1. HostOf(y) \in Hosts
      BY DEF HostOf, Hosts
    <2>2. firing'[HostOf(y)].socket = y <=> firing[HostOf(y)].socket = y
      BY <1>4, <1>5, <2>1
    <2>3. Others(y)' = Others(y)
      BY <1>2, <2>2 DEF Others, One
    <2>4. Due(y)' = Due(y)
      <3>1. CASE HostOf(y) = h
        <4>1. firing'[HostOf(y)].socket # y /\ firing[HostOf(y)].socket # y
          BY <1>4, <1>5, <3>1
        <4> QED BY <4>1 DEF Due
      <3>2. CASE HostOf(y) # h
        BY <1>4, <2>1, <3>2 DEF Due
      <3> QED BY <3>1, <3>2
    <2> QED BY <1>2, <1>3, <2>3, <2>4 DEF Same
  <1>8. Due(x) = {} /\ Due(x)' = {t}
    <2>1. Due(x) = {}
      BY <1>5, DueIs
    <2>2. Due(x)' = {t}
      BY <1>4 DEF Due
    <2> QED BY <2>1, <2>2
  <1>9. Left(sock'[x], Context(x)', Others(x)', net')
    <2> DEFINE c == Context(x)
               d == Context(x)'
    <2>1. /\ c.due = {} /\ d.due = {t} /\ d.x = c.x /\ d.written = c.written
          /\ d.user = c.user /\ d.got = c.got
      BY <1>2, <1>8 DEF Context
    <2>2. Sound(sock[x], c, Others(x)) /\ Acknowledges(sock[x], c, net)
      BY <1>2, Present DEF TcpIndInv
    <2> HIDE DEF c, d
    <2>3. Sound(sock'[x], d, Others(x) + 1) /\ Acknowledges(sock'[x], d, net)
      BY <1>2, <1>3, <2>1, <2>2, FiresKeeps, OthersNat
    <2> QED BY <1>2, <1>6, <2>3 DEF Left, d
  <1>10. /\ \A y \in Sockets : SocketInv(y)'
         /\ sock'[x] \in Socket /\ sock'[x].state # "NONE"
    BY <1>2, <1>7, <1>9, StepAt
  <1>11. TcpTypeOK'
    <2>1. \A g \in Hosts :
            \/ firing'[g] = Idle
            \/ firing'[g] \in [socket : Sockets, timer : Timers] /\ HostOf(firing'[g].socket) = g
      <3>1. f \in [socket : Sockets, timer : Timers] /\ HostOf(f.socket) = h
        OBVIOUS
      <3> HIDE DEF f
      <3> QED BY <1>1, <1>4, <3>1 DEF TcpTypeOK
    <2>2. sock' \in [Sockets -> Socket] /\ DOMAIN firing' = Hosts
      <3>1. sock' = [sock EXCEPT ![x] = sock'[x]]
        BY <1>1, <1>2, <1>3 DEF TcpTypeOK
      <3> QED BY <1>1, <1>2, <1>10, <3>1 DEF TcpTypeOK
    <2> QED BY <1>1, <1>2, <2>1, <2>2 DEF TcpTypeOK
  <1>12. CallersOK'
    <2>1. accepted = Accepted => sock'[Accepted].state # "NONE"
      BY <1>1, <1>3, <1>10 DEF CallersOK, Sockets
    <2> QED BY <1>1, <1>2, <2>1 DEF CallersOK
  <1> QED
    BY <1>10, <1>11, <1>12 DEF TcpIndInv

(* The callback of a timer, and the reference it gives back.               *)
LEMMA CallbackStep ==
  ASSUME TcpIndInv, NEW h \in Hosts, Callback(h)
  PROVE  TcpIndInv'
  <1>1. TcpTypeOK /\ CallersOK
    BY DEF TcpIndInv
  <1>2. PICK x \in Sockets, t \in Timers : firing[h] = [socket |-> x, timer |-> t] /\ HostOf(x) = h
    <2>1. firing[h] \in [socket : Sockets, timer : Timers] /\ HostOf(firing[h].socket) = h
      BY <1>1 DEF TcpTypeOK, Callback
    <2>2. firing[h] = [socket |-> firing[h].socket, timer |-> firing[h].timer]
          /\ firing[h].socket \in Sockets /\ firing[h].timer \in Timers
      BY <2>1
    <2> QED BY <2>1, <2>2
  <1>3. firing[h].socket = x /\ firing[h].timer = t
    BY <1>2
  <1> DEFINE w0 == World(x, sock[x])
             w == CASE t = "ack"        -> send_ack(w0)
                    [] t = "retransmit" -> handle_retransmit_timeout(w0)
                    [] t = "time_wait"  -> handle_time_wait_timeout(w0)
  <1>4. /\ sock' = [sock EXCEPT ![x] = dec_socket_ref(w.s)] /\ net' = net \cup w.out
        /\ firing' = [firing EXCEPT ![h] = Idle]
        /\ UNCHANGED <<accepted, input, user, accepting, reading, writing, written, got>>
    BY <1>3 DEF Callback, Calls
  <1>5. sock'[x] = dec_socket_ref(w.s)
        /\ \A y \in Sockets \ {x} : sock'[y] = sock[y]
    <2> HIDE DEF w
    <2> QED BY <1>1, <1>4 DEF TcpTypeOK
  <1>6. firing'[h] = Idle /\ \A g \in Hosts \ {h} : firing'[g] = firing[g]
    BY <1>1, <1>4 DEF TcpTypeOK
  <1>7. \A y \in Sockets : firing'[h].socket # y
    BY <1>6, Constants DEF Idle
  <1>8. Others(x)' = Others(x) - 1 /\ Others(x) > 0
    BY <1>2, <1>3, <1>4, <1>7 DEF Others, One
  <1>9. ASSUME NEW y \in Sockets \ {x} PROVE Same(y)
    <2>1. HostOf(y) \in Hosts
      BY DEF HostOf, Hosts
    <2>2. firing'[HostOf(y)].socket = y <=> firing[HostOf(y)].socket = y
      BY <1>3, <1>6, <1>7, <2>1
    <2>3. Others(y)' = Others(y)
      BY <1>4, <2>2 DEF Others, One
    <2>4. Due(y)' = Due(y)
      <3>1. CASE HostOf(y) = h
        <4>1. firing'[HostOf(y)].socket # y /\ firing[HostOf(y)].socket # y
          BY <1>3, <1>7, <3>1
        <4> QED BY <4>1 DEF Due
      <3>2. CASE HostOf(y) # h
        BY <1>6, <2>1, <3>2 DEF Due
      <3> QED BY <3>1, <3>2
    <2> QED BY <1>4, <1>5, <2>3, <2>4 DEF Same
  <1>10. Due(x) = {t} /\ Due(x)' = {}
    <2>1. Due(x) = {t}
      BY <1>2, DueIs
    <2>2. firing'[HostOf(x)].socket # x
      BY <1>2, <1>7
    <2>3. Due(x)' = {}
      BY <2>2 DEF Due
    <2> QED BY <2>1, <2>3
  <1>11. w.out \subseteq Segment /\ Left(sock'[x], Context(x)', Others(x)', net')
    <2> DEFINE c == Context(x)
               d == Context(x)'
               k == Others(x)
    <2>1. Over(c, d, t) /\ c.x = x
      BY <1>4, <1>10 DEF Context, Over
    <2>2. Sound(sock[x], c, k) /\ Acknowledges(sock[x], c, net)
      BY <1>8, Present DEF TcpIndInv
    <2>3. k \in Nat /\ k > 0
      BY <1>8, OthersNat
    <2>4. In(w0, c, k, net)
      <3>1. sock[x] \in Socket
        BY <1>1 DEF TcpTypeOK
      <3>2. w0 \in Worlds /\ w0.s = sock[x] /\ w0.remote = Other(HostOf(x)) /\ w0.out = {}
        BY <3>1, NewWorld
      <3>3. net \cup w0.out = net
        BY <3>2
      <3> HIDE DEF w0, k
      <3> QED BY <2>1, <2>2, <3>2, <3>3 DEF In, NearlyIn
    <2> HIDE DEF c, d, k, w0
    <2>5. In(w, d, k, net)
      <3>1. CASE t = "ack"
        <4>1. w = send_ack(w0)
          BY <3>1
        <4> QED BY <2>1, <2>3, <2>4, <3>1, <4>1, AckTimeout
      <3>2. CASE t = "retransmit"
        <4>1. w = handle_retransmit_timeout(w0)
          BY <3>2
        <4> QED BY <2>1, <2>3, <2>4, <3>2, <4>1, RetransmitTimeout
      <3>3. CASE t = "time_wait"
        <4>1. w = handle_time_wait_timeout(w0)
          BY <3>3
        <4> QED BY <2>1, <2>3, <2>4, <3>3, <4>1, TimeWaitTimeout
      <3> QED BY <3>1, <3>2, <3>3 DEF Timers
    <2> HIDE DEF w
    <2>6. Sound(w.s, d, k) /\ Acknowledges(w.s, d, net') /\ w.out \subseteq Segment
      BY <1>4, <2>5 DEF In, NearlyIn, Worlds
    <2>7. Left(dec_socket_ref(w.s), d, k - 1, net')
      BY <2>3, <2>6, LetsGo
    <2> QED BY <1>5, <1>8, <2>6, <2>7 DEF d, k
  <1> HIDE DEF w
  <1>12. /\ \A y \in Sockets : SocketInv(y)'
         /\ sock'[x] \in Socket /\ sock'[x].state # "NONE"
    BY <1>4, <1>9, <1>11, StepAt
  <1>13. TcpTypeOK'
    <2>1. \A g \in Hosts :
            \/ firing'[g] = Idle
            \/ firing'[g] \in [socket : Sockets, timer : Timers] /\ HostOf(firing'[g].socket) = g
      BY <1>1, <1>6 DEF TcpTypeOK
    <2>2. sock' \in [Sockets -> Socket] /\ DOMAIN firing' = Hosts /\ net' \subseteq Segment
      BY <1>1, <1>4, <1>5, <1>11, <1>12 DEF TcpTypeOK
    <2> QED BY <1>1, <1>4, <2>1, <2>2 DEF TcpTypeOK
  <1>14. CallersOK'
    <2>1. accepted = Accepted => sock'[Accepted].state # "NONE"
      BY <1>1, <1>5, <1>12 DEF CallersOK, Sockets
    <2> QED BY <1>1, <1>4, <2>1 DEF CallersOK
  <1> QED
    BY <1>12, <1>13, <1>14 DEF TcpIndInv

(* The lock is taken on a socket in good order. *)
LEMMA Locked ==
  ASSUME NEW x, NEW s, NEW k, NEW sent, Sound(s, Context(x), k), Acknowledges(s, Context(x), sent)
  PROVE  In(World(x, s), Context(x), k, sent)
  <1> DEFINE w == World(x, s)
             c == Context(x)
  <1>1. s \in Socket
    BY DEF Sound, Balanced
  <1>2. w \in Worlds /\ w.s = s /\ w.remote = Other(HostOf(x)) /\ w.out = {}
    BY <1>1, NewWorld
  <1>3. sent \cup w.out = sent /\ c.x = x
    BY <1>2, ContextIs
  <1> HIDE DEF w, c
  <1> QED
    BY <1>2, <1>3 DEF In, NearlyIn, w, c

(* tcp_input under the lock, and the reference it gives back.              *)
LEMMA InputHandles ==
  ASSUME TcpIndInv, NEW h \in Hosts, tcp_input_handles(h)
  PROVE  TcpIndInv'
  <1>1. TcpTypeOK /\ CallersOK
    BY DEF TcpIndInv
  <1>2. PICK x \in Sockets, m \in Segment :
          input[h].socket = x /\ input[h].segment = m /\ HostOf(x) = h
    <2>1. input[h] \in [socket : Sockets, segment : Segment] /\ HostOf(input[h].socket) = h
      BY <1>1 DEF TcpTypeOK, tcp_input_handles
    <2>2. input[h].socket \in Sockets /\ input[h].segment \in Segment
      BY <2>1
    <2> QED BY <2>1, <2>2
  <1> DEFINE w0 == World(x, sock[x])
  <1>3. PICK w : /\ w \in {w0, Handle(w0, m)}
                 /\ sock' = [sock EXCEPT ![x] = dec_socket_ref(w.s)] /\ net' = net \cup w.out
    <2> DEFINE v == IF x = Listener /\ sock[x].state = "LISTEN" /\ "SYN" \in m.flags
                    THEN w0 ELSE Handle(w0, m)
    <2>1. sock' = [sock EXCEPT ![x] = dec_socket_ref(v.s)] /\ net' = net \cup v.out
      BY <1>2 DEF tcp_input_handles
    <2>2. v \in {w0, Handle(w0, m)}
      BY Zenon
    <2> HIDE DEF v
    <2> QED BY <2>1, <2>2
  <1>4. /\ input' = [input EXCEPT ![h] = Idle]
        /\ UNCHANGED <<accepted, firing, user, accepting, reading, writing, written, got>>
    BY DEF tcp_input_handles, Calls
  <1> HIDE DEF w0
  <1>5. sock'[x] = dec_socket_ref(w.s)
        /\ \A y \in Sockets \ {x} : sock'[y] = sock[y]
    BY <1>1, <1>3 DEF TcpTypeOK
  <1>6. input'[h] = Idle /\ \A g \in Hosts \ {h} : input'[g] = input[g]
    BY <1>1, <1>4 DEF TcpTypeOK
  <1>7. \A y \in Sockets : input'[h].socket # y
    BY <1>6, Constants DEF Idle
  <1>8. Others(x)' = Others(x) - 1 /\ Others(x) > 0
    BY <1>2, <1>4, <1>7 DEF Others, One
  <1>9. ASSUME NEW y \in Sockets \ {x} PROVE Same(y)
    <2>1. HostOf(y) \in Hosts
      BY DEF HostOf, Hosts
    <2>2. input'[HostOf(y)].socket = y <=> input[HostOf(y)].socket = y
      BY <1>2, <1>6, <1>7, <2>1
    <2>3. Others(y)' = Others(y)
      BY <1>4, <2>2 DEF Others, One
    <2> QED BY <1>4, <1>5, <2>3 DEF Same, Due
  <1>10. Context(x)' = Context(x)
    BY <1>4 DEF Context, Due
  <1>11. w.out \subseteq Segment /\ Left(sock'[x], Context(x)', Others(x)', net')
    <2> DEFINE c == Context(x)
               k == Others(x)
    <2>1. Sound(sock[x], c, k) /\ Acknowledges(sock[x], c, net)
      BY <1>8, Present DEF TcpIndInv
    <2>2. k \in Nat /\ k > 0
      BY <1>8, OthersNat
    <2>3. In(w0, c, k, net)
      BY <2>1, Locked DEF w0
    <2> HIDE DEF c, k
    <2>4. In(w, c, k, net)
      BY <1>3, <2>2, <2>3, HandleKeeps
    <2>5. Sound(w.s, c, k) /\ Acknowledges(w.s, c, net') /\ w.out \subseteq Segment
      BY <1>3, <2>4 DEF In, NearlyIn, Worlds
    <2>6. Left(dec_socket_ref(w.s), c, k - 1, net')
      BY <2>2, <2>5, LetsGo
    <2> QED BY <1>5, <1>8, <1>10, <2>5, <2>6 DEF c, k
  <1>12. /\ \A y \in Sockets : SocketInv(y)'
         /\ sock'[x] \in Socket /\ sock'[x].state # "NONE"
    BY <1>3, <1>9, <1>11, StepAt
  <1>13. TcpTypeOK'
    <2>1. \A g \in Hosts :
            \/ input'[g] = Idle
            \/ input'[g] \in [socket : Sockets, segment : Segment] /\ HostOf(input'[g].socket) = g
      BY <1>1, <1>6 DEF TcpTypeOK
    <2>2. sock' \in [Sockets -> Socket] /\ DOMAIN input' = Hosts /\ net' \subseteq Segment
      BY <1>1, <1>3, <1>4, <1>5, <1>11, <1>12 DEF TcpTypeOK
    <2> QED BY <1>1, <1>4, <2>1, <2>2 DEF TcpTypeOK
  <1>14. CallersOK'
    <2>1. accepted = Accepted => sock'[Accepted].state # "NONE"
      BY <1>1, <1>5, <1>12 DEF CallersOK, Sockets
    <2> QED BY <1>1, <1>4, <2>1 DEF CallersOK
  <1> QED
    BY <1>12, <1>13, <1>14 DEF TcpIndInv

(* The reader after its event.                                             *)
LEMMA ReadRuns ==
  ASSUME TcpIndInv, NEW x \in Sockets, tcp_read_runs(x)
  PROVE  TcpIndInv'
  <1> DEFINE s == sock[x]
             c == Context(x)
             d == Context(x)'
             k == Others(x)
  <1>1. TcpTypeOK /\ CallersOK
    BY DEF TcpIndInv
  <1>2. /\ reading[x]
        /\ UNCHANGED <<accepted, input, firing, user, accepting, writing, written>>
    BY DEF tcp_read_runs
  <1>3. k \in Nat /\ k > 0
    BY <1>2, OthersNat DEF Others, One
  <1>4. Sound(s, c, k) /\ Acknowledges(s, c, net)
    BY <1>3, Present DEF TcpIndInv
  <1>5. c.x = x /\ d.x = x /\ d.written = c.written /\ d.due = c.due /\ d.user = c.user
    BY <1>2 DEF Context, Due
  <1>6. \/ \E n \in 1 .. Len(s.rx_buffer) :
             LET w == World(x, Taken(s, n))
             IN  \E v \in {w, send_ack(w)} :
                   /\ got' = [got EXCEPT ![x] = @ \o SubSeq(s.rx_buffer, 1, n)]
                   /\ sock' = [sock EXCEPT ![x] = dec_socket_ref(v.s)]
                   /\ net' = net \cup v.out
                   /\ reading' = [reading EXCEPT ![x] = FALSE]
        \/ /\ sock' = [sock EXCEPT ![x] = dec_socket_ref(@)]
           /\ reading' = [reading EXCEPT ![x] = FALSE]
           /\ UNCHANGED <<net, got>>
        \/ /\ s.rx_buffer = <<>> /\ s.state = "ESTABLISHED"
           /\ sock' = [sock EXCEPT ![x].rx_event = FALSE]
           /\ UNCHANGED <<net, reading, got>>
    BY DEF tcp_read_runs, Taken
  <1>7. /\ sock' = [sock EXCEPT ![x] = sock'[x]]
        /\ reading' \in [Sockets -> BOOLEAN] /\ \A y \in Sockets \ {x} : reading'[y] = reading[y]
        /\ Left(sock'[x], d, IF reading'[x] THEN k ELSE k - 1, net')
        /\ net \subseteq net' /\ net' \subseteq Segment
        /\ got' \in [Sockets -> Seq(Int)] /\ \A y \in Sockets \ {x} : got'[y] = got[y]
    <2>1. CASE \E n \in 1 .. Len(s.rx_buffer) :
                 LET w == World(x, Taken(s, n))
                 IN  \E v \in {w, send_ack(w)} :
                       /\ got' = [got EXCEPT ![x] = @ \o SubSeq(s.rx_buffer, 1, n)]
                       /\ sock' = [sock EXCEPT ![x] = dec_socket_ref(v.s)]
                       /\ net' = net \cup v.out
                       /\ reading' = [reading EXCEPT ![x] = FALSE]
      <3>0. PICK n \in 1 .. Len(s.rx_buffer) :
              LET w == World(x, Taken(s, n))
              IN  \E v \in {w, send_ack(w)} :
                    /\ got' = [got EXCEPT ![x] = @ \o SubSeq(s.rx_buffer, 1, n)]
                    /\ sock' = [sock EXCEPT ![x] = dec_socket_ref(v.s)]
                    /\ net' = net \cup v.out
                    /\ reading' = [reading EXCEPT ![x] = FALSE]
        BY <2>1
      <3>1. PICK v \in {World(x, Taken(s, n)), send_ack(World(x, Taken(s, n)))} :
              /\ got' = [got EXCEPT ![x] = @ \o SubSeq(s.rx_buffer, 1, n)]
              /\ sock' = [sock EXCEPT ![x] = dec_socket_ref(v.s)]
              /\ net' = net \cup v.out
              /\ reading' = [reading EXCEPT ![x] = FALSE]
        BY <3>0
      <3>2. In(v, d, k, net)
        <4> HIDE DEF c, d, k, s
        <4> QED BY <1>3, <1>4, <1>5, <3>1, ReadKeeps
      <3>3. Sound(v.s, d, k) /\ Acknowledges(v.s, d, net') /\ v.out \subseteq Segment
        BY <3>1, <3>2 DEF In, NearlyIn, Worlds
      <3>4. Left(dec_socket_ref(v.s), d, k - 1, net')
        <4> HIDE DEF d, k
        <4> QED BY <1>3, <3>3, LetsGo
      <3>5. got' \in [Sockets -> Seq(Int)] /\ \A y \in Sockets \ {x} : got'[y] = got[y]
        <4>1. s.rx_buffer \in Seq(Int) /\ Len(s.rx_buffer) \in Nat
          BY <1>1, LenProperties DEF TcpTypeOK, Socket
        <4>2. SubSeq(s.rx_buffer, 1, n) \in Seq(Int)
          <5>1. n \in Nat /\ n <= Len(s.rx_buffer)
            BY <4>1
          <5>2. \A i \in 1 .. n : s.rx_buffer[i] \in Int
            BY <4>1, <5>1, LenProperties
          <5> QED BY <5>1, <5>2, SubSeqProperties
        <4>3. got[x] \o SubSeq(s.rx_buffer, 1, n) \in Seq(Int)
          BY <1>1, <4>2, ConcatProperties DEF TcpTypeOK
        <4> QED BY <1>1, <3>1, <4>3 DEF TcpTypeOK
      <3>6. sock'[x] = dec_socket_ref(v.s) /\ ~reading'[x]
        BY <1>1, <3>1 DEF TcpTypeOK
      <3>7. Left(sock'[x], d, IF reading'[x] THEN k ELSE k - 1, net')
        BY <3>4, <3>6, Zenon
      <3> QED BY <1>1, <3>1, <3>3, <3>5, <3>6, <3>7 DEF TcpTypeOK
    <2>2. CASE /\ sock' = [sock EXCEPT ![x] = dec_socket_ref(@)]
               /\ reading' = [reading EXCEPT ![x] = FALSE]
               /\ UNCHANGED <<net, got>>
      <3>1. d = c
        BY <1>2, <2>2 DEF Context, Due
      <3>2. Left(dec_socket_ref(s), d, k - 1, net')
        <4> HIDE DEF c, d, k, s
        <4> QED BY <1>3, <1>4, <2>2, <3>1, LetsGo
      <3>3. sock'[x] = dec_socket_ref(s) /\ ~reading'[x]
        BY <1>1, <2>2 DEF TcpTypeOK
      <3>4. Left(sock'[x], d, IF reading'[x] THEN k ELSE k - 1, net')
        BY <3>2, <3>3, Zenon
      <3> QED BY <1>1, <2>2, <3>3, <3>4 DEF TcpTypeOK
    <2>3. CASE /\ s.rx_buffer = <<>> /\ s.state = "ESTABLISHED"
               /\ sock' = [sock EXCEPT ![x].rx_event = FALSE]
               /\ UNCHANGED <<net, reading, got>>
      <3>1. d = c
        BY <1>2, <2>3 DEF Context, Due
      <3>2. Left([s EXCEPT !.rx_event = FALSE], d, k, net')
        <4> HIDE DEF c, d, k, s
        <4> QED BY <1>3, <1>4, <2>3, <3>1, ReadWaits DEF Left
      <3>3. sock'[x] = [s EXCEPT !.rx_event = FALSE] /\ reading'[x]
        BY <1>1, <1>2, <2>3 DEF TcpTypeOK
      <3>4. Left(sock'[x], d, IF reading'[x] THEN k ELSE k - 1, net')
        BY <3>2, <3>3, Zenon
      <3>5. sock' = [sock EXCEPT ![x] = sock'[x]]
        BY <1>1, <2>3, <3>3 DEF TcpTypeOK
      <3> QED BY <1>1, <2>3, <3>4, <3>5 DEF TcpTypeOK
    <2> QED BY <1>6, <2>1, <2>2, <2>3
  <1>8. \A y \in Sockets \ {x} : sock'[y] = sock[y]
    BY <1>1, <1>7 DEF TcpTypeOK
  <1>9. Others(x)' = IF reading'[x] THEN k ELSE k - 1
    BY <1>2 DEF Others, One
  <1>10. \A y \in Sockets \ {x} : Same(y)
    BY <1>2, <1>7, <1>8 DEF Same, Due, Others
  <1>11. /\ \A y \in Sockets : SocketInv(y)'
         /\ sock'[x] \in Socket /\ sock'[x].state # "NONE"
    <2>1. Left(sock'[x], Context(x)', Others(x)', net')
      BY <1>7, <1>9, Zenon
    <2> QED BY <1>7, <1>10, <2>1, StepAt
  <1>12. TcpTypeOK'
    BY <1>1, <1>2, <1>7, <1>8, <1>11 DEF TcpTypeOK
  <1>13. CallersOK'
    <2>1. accepted = Accepted => sock'[Accepted].state # "NONE"
      BY <1>1, <1>8, <1>11 DEF CallersOK, Sockets
    <2>2. \A y \in Sockets : reading'[y] => reading[y]
      BY <1>2, <1>7
    <2> QED BY <1>1, <1>2, <2>1, <2>2 DEF CallersOK
  <1> QED
    BY <1>11, <1>12, <1>13 DEF TcpIndInv

(* The writer after its event.                                             *)
LEMMA WriteRuns ==
  ASSUME TcpIndInv, NEW x \in Sockets, tcp_write_runs(x)
  PROVE  TcpIndInv'
  <1> DEFINE s == sock[x]
             c == Context(x)
             d == Context(x)'
             k == Others(x)
             to_copy == Least(TxSize - Len(s.tx_buffer), writing[x])
             w == tcp_write_pending_data(World(x, Filled(s, written[x], to_copy)))
  <1>1. TcpTypeOK /\ CallersOK
    BY DEF TcpIndInv
  <1>2. /\ writing[x] > 0 /\ s.tx_event
        /\ UNCHANGED <<accepted, input, firing, user, accepting, reading, got>>
    BY DEF tcp_write_runs
  <1>3. k \in Nat /\ k > 0 /\ writing[x] \in Nat /\ written[x] \in Nat
    BY <1>1, <1>2, OthersNat DEF Others, One, TcpTypeOK
  <1>4. Sound(s, c, k) /\ Acknowledges(s, c, net)
    BY <1>3, Present DEF TcpIndInv
  <1>5. /\ c.x = x /\ d.x = x /\ d.got = c.got /\ d.due = c.due /\ d.user = c.user
        /\ c.written = written[x] /\ d.written = written'[x]
    BY <1>2 DEF Context, Due
  <1>6. \/ /\ sock' = [sock EXCEPT ![x] = dec_socket_ref(@)]
           /\ writing' = [writing EXCEPT ![x] = 0]
           /\ UNCHANGED <<net, written>>
        \/ /\ s.state \in Writable /\ to_copy > 0
           /\ writing' = [writing EXCEPT ![x] = @ - to_copy]
           /\ written' = [written EXCEPT ![x] = @ + to_copy]
           /\ sock' = [sock EXCEPT ![x] = IF to_copy = writing[x] THEN dec_socket_ref(w.s) ELSE w.s]
           /\ net' = net \cup w.out
    BY DEF tcp_write_runs, Filled, Writable
  <1>7. /\ sock' = [sock EXCEPT ![x] = sock'[x]]
        /\ writing' \in [Sockets -> Nat] /\ written' \in [Sockets -> Nat]
        /\ written'[x] + writing'[x] <= Bytes(x)
        /\ \A y \in Sockets \ {x} : writing'[y] = writing[y] /\ written'[y] = written[y]
        /\ Left(sock'[x], d, IF writing'[x] > 0 THEN k ELSE k - 1, net')
        /\ net \subseteq net' /\ net' \subseteq Segment
    <2>1. CASE /\ sock' = [sock EXCEPT ![x] = dec_socket_ref(@)]
               /\ writing' = [writing EXCEPT ![x] = 0]
               /\ UNCHANGED <<net, written>>
      <3>1. d = c
        BY <1>2, <2>1 DEF Context, Due
      <3>2. Left(dec_socket_ref(s), d, k - 1, net')
        <4> HIDE DEF c, d, k, s
        <4> QED BY <1>3, <1>4, <2>1, <3>1, LetsGo
      <3>3. sock'[x] = dec_socket_ref(s) /\ writing'[x] = 0
        BY <1>1, <2>1 DEF TcpTypeOK
      <3>4. Left(sock'[x], d, IF writing'[x] > 0 THEN k ELSE k - 1, net')
        <4>1. ~(writing'[x] > 0)
          BY <3>3
        <4> QED BY <3>2, <3>3, <4>1, Zenon
      <3>5. written[x] + 0 <= Bytes(x)
        <4>1. Bytes(x) \in Nat /\ written[x] + writing[x] <= Bytes(x)
          BY <1>1, TcpAssumption DEF CallersOK, Bytes
        <4> QED BY <1>3, <4>1
      <3> QED BY <1>1, <2>1, <3>3, <3>4, <3>5 DEF TcpTypeOK
    <2>2. CASE /\ s.state \in Writable /\ to_copy > 0
               /\ writing' = [writing EXCEPT ![x] = @ - to_copy]
               /\ written' = [written EXCEPT ![x] = @ + to_copy]
               /\ sock' = [sock EXCEPT ![x] = IF to_copy = writing[x] THEN dec_socket_ref(w.s) ELSE w.s]
               /\ net' = net \cup w.out
      <3>1. PICK n \in Nat : n = to_copy /\ n <= writing[x] /\ n > 0
        <4>1. Len(s.tx_buffer) \in Nat
          BY <1>1, LenProperties DEF TcpTypeOK, Socket
        <4>2. TxSize - Len(s.tx_buffer) \in Int
          BY <4>1, Constants
        <4>3. to_copy <= writing[x] /\ to_copy \in {TxSize - Len(s.tx_buffer), writing[x]}
          BY <1>3, <4>2, Smaller
        <4> QED BY <1>3, <2>2, <4>2, <4>3
      <3>2. written[x] + writing[x] <= Bytes(x) /\ Bytes(x) \in Nat
        BY <1>1, TcpAssumption DEF CallersOK, Bytes
      <3>3. written'[x] = written[x] + n /\ writing'[x] = writing[x] - n
        BY <1>1, <2>2, <3>1 DEF TcpTypeOK
      <3>4. /\ written[x] + n <= Bytes(x) /\ writing[x] - n \in Nat
            /\ (writing[x] - n) + (written[x] + n) <= Bytes(x)
            /\ (writing[x] - n > 0 <=> n # writing[x])
        BY <1>3, <3>1, <3>2
      <3>5. In(w, d, k, net)
        <4>1. c.written + n <= Bytes(c.x) /\ d.written = c.written + n
          BY <1>5, <3>3, <3>4
        <4>2. w = tcp_write_pending_data(World(c.x, Filled(s, c.written, n)))
          BY <1>5, <3>1
        <4>3. s.state \in Writable
          BY <2>2
        <4> HIDE DEF c, d, k, s, w
        <4> QED BY <1>2, <1>3, <1>4, <1>5, <4>1, <4>2, <4>3, WriteKeeps DEF s
      <3> HIDE DEF w
      <3>6. Sound(w.s, d, k) /\ Acknowledges(w.s, d, net') /\ w.out \subseteq Segment
        BY <2>2, <3>5 DEF In, NearlyIn, Worlds
      <3>7. Left(dec_socket_ref(w.s), d, k - 1, net') /\ Left(w.s, d, k, net')
        <4> HIDE DEF d, k
        <4> QED BY <1>3, <3>6, LetsGo DEF Left
      <3>8. sock'[x] = IF writing'[x] > 0 THEN w.s ELSE dec_socket_ref(w.s)
        BY <1>1, <2>2, <3>1, <3>3, <3>4 DEF TcpTypeOK
      <3>9. Left(sock'[x], d, IF writing'[x] > 0 THEN k ELSE k - 1, net')
        BY <3>7, <3>8, Zenon
      <3>10. written'[x] + writing'[x] <= Bytes(x)
        BY <1>3, <3>1, <3>3, <3>4
      <3>11. writing' \in [Sockets -> Nat] /\ written' \in [Sockets -> Nat]
             /\ \A y \in Sockets \ {x} : writing'[y] = writing[y] /\ written'[y] = written[y]
        <4>1. writing[x] - n \in Nat /\ written[x] + n \in Nat
          BY <1>3, <3>4
        <4>2. writing' = [writing EXCEPT ![x] = writing[x] - n]
              /\ written' = [written EXCEPT ![x] = written[x] + n]
          BY <2>2, <3>1
        <4> QED BY <1>1, <4>1, <4>2 DEF TcpTypeOK
      <3>12. sock' = [sock EXCEPT ![x] = sock'[x]]
        BY <1>1, <2>2 DEF TcpTypeOK
      <3> QED BY <1>1, <2>2, <3>6, <3>9, <3>10, <3>11, <3>12 DEF TcpTypeOK
    <2> QED BY <1>6, <2>1, <2>2
  <1>8. \A y \in Sockets \ {x} : sock'[y] = sock[y]
    BY <1>1, <1>7 DEF TcpTypeOK
  <1>9. Others(x)' = IF writing'[x] > 0 THEN k ELSE k - 1
    BY <1>2 DEF Others, One
  <1>10. \A y \in Sockets \ {x} : Same(y)
    BY <1>2, <1>7, <1>8 DEF Same, Due, Others
  <1>11. /\ \A y \in Sockets : SocketInv(y)'
         /\ sock'[x] \in Socket /\ sock'[x].state # "NONE"
    <2>1. Left(sock'[x], Context(x)', Others(x)', net')
      BY <1>7, <1>9, Zenon
    <2> QED BY <1>7, <1>10, <2>1, StepAt
  <1>12. TcpTypeOK'
    BY <1>1, <1>2, <1>7, <1>11 DEF TcpTypeOK
  <1>13. CallersOK'
    <2>1. accepted = Accepted => sock'[Accepted].state # "NONE"
      BY <1>1, <1>8, <1>11 DEF CallersOK, Sockets
    <2>2. \A y \in Sockets : writing'[y] > 0 => writing[y] > 0
      BY <1>2, <1>7
    <2>3. \A y \in Sockets : written'[y] + writing'[y] <= Bytes(y)
      BY <1>1, <1>7 DEF CallersOK
    <2> QED BY <1>1, <1>2, <2>1, <2>2, <2>3 DEF CallersOK
  <1> QED
    BY <1>11, <1>12, <1>13 DEF TcpIndInv

(* tcp_close.                                                              *)
LEMMA Close ==
  ASSUME TcpIndInv, NEW x \in Sockets, tcp_close(x)
  PROVE  TcpIndInv'
  <1> DEFINE s == sock[x]
             c == Context(x)
             d == Context(x)'
             k == Others(x)
             v == Closing(World(x, inc_socket_ref(s)))
             r == IF v.fault # "none" THEN dec_socket_ref(inc_socket_ref(s))
                  ELSE dec_socket_ref(tcp_wakeup_waiters(v.s))
  <1>1. TcpTypeOK /\ CallersOK /\ s \in Socket
    BY DEF TcpIndInv, TcpTypeOK
  <1>2. /\ user[x] # "none" /\ s.listed
        /\ user' = [user EXCEPT ![x] = "closed"]
        /\ UNCHANGED <<accepted, input, firing, accepting, reading, writing, written, got>>
    BY DEF tcp_close
  <1>3. sock' = [sock EXCEPT ![x] = r] /\ net' = net \cup v.out
    <2>1. World(x, inc_socket_ref(s)).s = inc_socket_ref(s)
      BY DEF World
    <2> DEFINE t == inc_socket_ref(s)
               w == World(x, t)
               e == IF t.state \in {"CLOSED", "LISTEN"} THEN Closed(w)
                    ELSE IF t.state \in {"SYN_RCVD", "ESTABLISHED"} THEN SendFin(w, "FIN_WAIT_1")
                    ELSE IF t.state = "CLOSE_WAIT" THEN SendFin(w, "LAST_ACK")
                    ELSE [w EXCEPT !.fault = "lock kept"]
    <2>2. v = e
      BY <2>1 DEF Closing
    <2>3. /\ sock' = [sock EXCEPT ![x] = IF e.fault # "none" THEN dec_socket_ref(t)
                                        ELSE dec_socket_ref(tcp_wakeup_waiters(e.s))]
          /\ net' = net \cup e.out
      BY Zenon DEF tcp_close
    <2> HIDE DEF v, e
    <2> QED BY <2>2, <2>3
  <1>4. Sound(s, c, k) /\ Acknowledges(s, c, net) /\ k \in Nat
    BY <1>2, Present, OthersNat DEF TcpIndInv
  <1>5. user'[x] = "closed" /\ \A y \in Sockets \ {x} : user'[y] = user[y]
    BY <1>1, <1>2 DEF TcpTypeOK
  <1>6. Handed(c, d) /\ c.x = x
    BY <1>2, <1>5 DEF Handed, Context, Due
  <1>7. v.out \subseteq Segment /\ Left(r, d, k, net')
    <2>1. v = Closing(World(c.x, inc_socket_ref(s)))
      BY <1>6
    <2>2. v.out \subseteq Segment /\ Left(r, d, k, net \cup v.out)
      <3> HIDE DEF c, d, k, s, v
      <3> QED BY <1>2, <1>4, <1>6, <2>1, CloseKeeps DEF s
    <2> QED BY <1>3, <2>2
  <1> HIDE DEF v, r
  <1>8. sock'[x] = r /\ \A y \in Sockets \ {x} : sock'[y] = sock[y]
    BY <1>1, <1>3 DEF TcpTypeOK
  <1>9. Others(x)' = k
    BY <1>2 DEF Others
  <1>10. \A y \in Sockets \ {x} : Same(y)
    BY <1>2, <1>5, <1>8 DEF Same, Due, Others
  <1>11. /\ \A y \in Sockets : SocketInv(y)'
         /\ sock'[x] \in Socket /\ sock'[x].state # "NONE"
    <2>1. Left(sock'[x], Context(x)', Others(x)', net')
      BY <1>7, <1>8, <1>9
    <2> QED BY <1>3, <1>10, <2>1, StepAt
  <1>12. TcpTypeOK'
    BY <1>1, <1>2, <1>3, <1>7, <1>8, <1>11 DEF TcpTypeOK
  <1>13. CallersOK'
    <2>1. accepted = Accepted => sock'[Accepted].state # "NONE" /\ user'[Accepted] = "none"
      BY <1>1, <1>2, <1>5, <1>8 DEF CallersOK, Sockets
    <2>2. \A y \in Sockets : user[y] # "none" => user'[y] # "none"
      BY <1>5
    <2> QED BY <1>1, <1>2, <2>1, <2>2 DEF CallersOK, Sockets
  <1> QED
    BY <1>11, <1>12, <1>13 DEF TcpIndInv

(* A new socket, with nothing in it and nobody told. *)
New(s) ==
  /\ s \in Socket /\ s.ref = 1 /\ s.timers = {} /\ s.rx_buffer = <<>> /\ s.tx_buffer = <<>>
  /\ s.rx_event = FALSE /\ s.tx_event = TRUE /\ s.connect_event = FALSE

(* What create_tcp_socket returns.                                         *)
LEMMA Created ==
  ASSUME NEW iss \in Num
  PROVE  New(create_tcp_socket(iss))
  <1> DEFINE s == create_tcp_socket(iss)
  <1>1. Unallocated \in Socket /\ Unallocated.timers = {}
    BY Records
  <1>2. Unallocated.rx_buffer = <<>> /\ Unallocated.tx_buffer = <<>>
    BY DEF Unallocated
  <1>3. Unallocated.rx_event = FALSE /\ Unallocated.connect_event = FALSE
    BY Zenon DEF Unallocated
  <1>4. s \in Socket /\ s.ref = 1 /\ s.timers = {} /\ s.rx_buffer = <<>> /\ s.tx_buffer = <<>>
    <2>1. s \in Socket
      <3> DEFINE q == [[Unallocated EXCEPT !.state = "CLOSED"] EXCEPT !.ref = 1]
                 r == [q EXCEPT !.tx_win_low = iss, !.tx_highest_seq = iss]
      <3>1. q \in Socket
        <4>1. [Unallocated EXCEPT !.state = "CLOSED"] \in Socket
          BY <1>1 DEF Socket, Open
        <4>2. 1 \in Int
          OBVIOUS
        <4> QED BY <4>1, <4>2, OtherCount, Zenon
      <3>2. s = [r EXCEPT !.tx_event = TRUE]
        BY DEF create_tcp_socket
      <3> HIDE DEF q
      <3>3. r \in Socket
        BY <3>1 DEF Socket
      <3> HIDE DEF r
      <3>4. [r EXCEPT !.tx_event = TRUE] \in Socket
        BY <3>3 DEF Socket
      <3> QED BY <3>2, <3>4
    <2>2. s.ref = 1 /\ s.timers = {} /\ s.rx_buffer = <<>> /\ s.tx_buffer = <<>>
      BY <1>1, <1>2 DEF create_tcp_socket, Socket
    <2> QED BY <2>1, <2>2
  <1>5. s.rx_event = FALSE /\ s.tx_event = TRUE /\ s.connect_event = FALSE
    BY <1>1, <1>3, Zenon DEF create_tcp_socket, Socket
  <1> QED BY <1>4, <1>5 DEF New

(* The same in the list. *)
Made(state, iss) == [create_tcp_socket(iss) EXCEPT !.state = state, !.listed = TRUE]

(* The same, in the list and in the state of its use.                      *)
LEMMA MadeSocket ==
  ASSUME NEW state \in {"LISTEN", "SYN_SENT", "SYN_RCVD"}, NEW iss \in Num
  PROVE  LET s == Made(state, iss) IN New(s) /\ s.state = state /\ s.listed = TRUE
  <1> DEFINE r == create_tcp_socket(iss)
             s == [r EXCEPT !.state = state, !.listed = TRUE]
  <1>1. New(r)
    BY Created
  <1> HIDE DEF r
  <1>2. /\ s \in Socket /\ s.state = state /\ s.ref = 1 /\ s.timers = {}
        /\ s.rx_buffer = <<>> /\ s.tx_buffer = <<>>
    BY <1>1 DEF New, Socket, Open
  <1>3. s.listed = TRUE /\ s.rx_event = FALSE /\ s.tx_event = TRUE /\ s.connect_event = FALSE
    BY <1>1, Zenon DEF New, Socket
  <1> QED BY <1>2, <1>3 DEF New, Made, r

(* A socket that was not allocated yet. *)
LEMMA Vacant ==
  ASSUME NEW x \in Sockets, SocketInv(x), sock[x].state = "NONE"
  PROVE  user[x] = "none" /\ got[x] = <<>> /\ Others(x) = 0 /\ Due(x) = {}
  <1>1. Absent(x)
    BY DEF SocketInv, Sound, Closes
  <1>2. user[x] = "none" /\ got[x] = <<>> /\ Others(x) = 0
    BY <1>1, Records DEF Absent
  <1>3. firing[HostOf(x)].socket # x
    BY <1>2 DEF Others, One
  <1>4. Due(x) = {}
    BY <1>3, DueIs
  <1> QED BY <1>2, <1>4

(* tcp_connect.                                                            *)
LEMMA Connect ==
  ASSUME TcpIndInv, tcp_connect
  PROVE  TcpIndInv'
  <1> DEFINE x == Client
  <1>1. TcpTypeOK /\ CallersOK /\ x \in Sockets /\ SocketInv(x)
    BY DEF TcpIndInv, Sockets
  <1>2. sock[x].state = "NONE"
        /\ UNCHANGED <<accepted, input, firing, user, accepting, reading, writing, written, got>>
    BY DEF tcp_connect, Calls
  <1>3. PICK iss \in InitialSeqs :
          /\ sock' = [sock EXCEPT ![x] = [create_tcp_socket(iss) EXCEPT
                                            !.state = "SYN_SENT", !.listed = TRUE]]
          /\ net' = net \cup {tcp_send("server", {"SYN"}, iss, 0, <<>>)}
    BY DEF tcp_connect
  <1>4. iss \in Num /\ 0 \in Num
    BY TcpAssumption, Constants DEF Num
  <1> DEFINE s == Made("SYN_SENT", iss)
  <1>5. sock' = [sock EXCEPT ![x] = s]
    BY <1>3 DEF Made
  <1>6. sock'[x] = s /\ \A y \in Sockets \ {x} : sock'[y] = sock[y]
    BY <1>1, <1>5 DEF TcpTypeOK
  <1>7. net \subseteq net' /\ net' \subseteq Segment
    <2>1. tcp_send("server", {"SYN"}, iss, 0, <<>>) \in Segment
      BY <1>4 DEF tcp_send, Segment, Hosts
    <2> QED BY <1>1, <1>3, <2>1 DEF TcpTypeOK
  <1>8. user[x] = "none" /\ got[x] = <<>> /\ Others(x) = 0 /\ Due(x) = {}
    BY <1>1, <1>2, Vacant
  <1>9. Others(x)' = 0
    BY <1>2, <1>8 DEF Others
  <1>10. Sound(s, Context(x)', 0) /\ Acknowledges(s, Context(x)', net')
    <2> DEFINE d == Context(x)'
    <2>1. d.x = Client /\ d.user = "none" /\ d.got = <<>> /\ d.due = {} /\ d.written = written[x]
      BY <1>2, <1>8 DEF Context, Due
    <2>2. written[x] \in Nat /\ written[x] <= Bytes(x)
      <3>1. written[x] \in Nat /\ writing[x] \in Nat /\ written[x] + writing[x] <= Bytes(x)
            /\ Bytes(x) \in Nat
        BY <1>1, TcpAssumption DEF TcpTypeOK, CallersOK, Bytes
      <3> QED BY <3>1
    <2>3. New(s) /\ s.state = "SYN_SENT" /\ s.listed = TRUE
      BY <1>4, MadeSocket
    <2> HIDE DEF d, s
    <2>4. Sound(s, d, 0) /\ Acknowledges(s, d, net')
      BY <2>1, <2>2, <2>3, Fresh DEF New
    <2> QED BY <2>4 DEF d
  <1> HIDE DEF s
  <1>11. \A y \in Sockets \ {x} : Same(y)
    BY <1>2, <1>6 DEF Same, Due, Others
  <1>12. /\ \A y \in Sockets : SocketInv(y)'
         /\ sock'[x] \in Socket /\ sock'[x].state # "NONE"
    <2>1. Left(sock'[x], Context(x)', Others(x)', net')
      BY <1>6, <1>9, <1>10 DEF Left
    <2> QED BY <1>1, <1>7, <1>11, <2>1, StepAt
  <1>13. TcpTypeOK'
    BY <1>1, <1>2, <1>5, <1>6, <1>7, <1>12 DEF TcpTypeOK
  <1>14. CallersOK'
    <2>1. accepted = Accepted => sock'[Accepted].state # "NONE"
      BY <1>1, <1>6, <1>12 DEF CallersOK, Sockets
    <2> QED BY <1>1, <1>2, <2>1 DEF CallersOK
  <1> QED
    BY <1>12, <1>13, <1>14 DEF TcpIndInv

(* tcp_open_listen.                                                        *)
LEMMA OpenListen ==
  ASSUME TcpIndInv, tcp_open_listen
  PROVE  TcpIndInv'
  <1> DEFINE x == Listener
             s == Made("LISTEN", 0)
  <1>1. TcpTypeOK /\ CallersOK /\ x \in Sockets /\ SocketInv(x)
    BY DEF TcpIndInv, Sockets
  <1>2. /\ sock[x].state = "NONE" /\ user' = [user EXCEPT ![x] = "open"]
        /\ UNCHANGED <<accepted, net, input, firing, accepting, reading, writing, written, got>>
    BY DEF tcp_open_listen
  <1>3. sock' = [sock EXCEPT ![x] = s]
    BY DEF tcp_open_listen, Made
  <1>4. 0 \in Num
    BY Constants DEF Num
  <1>5. /\ sock'[x] = s /\ user'[x] = "open"
        /\ \A y \in Sockets \ {x} : sock'[y] = sock[y] /\ user'[y] = user[y]
    BY <1>1, <1>2, <1>3 DEF TcpTypeOK
  <1>6. got[x] = <<>> /\ Others(x) = 0 /\ Due(x) = {}
    BY <1>1, <1>2, Vacant
  <1>7. Others(x)' = 0
    BY <1>2, <1>6 DEF Others
  <1>8. Sound(s, Context(x)', 0) /\ Acknowledges(s, Context(x)', net')
    <2> DEFINE d == Context(x)'
    <2>1. d.x = Listener /\ d.user = "open" /\ d.got = <<>> /\ d.due = {} /\ d.written = written[x]
      BY <1>2, <1>5, <1>6 DEF Context, Due
    <2>2. written[x] \in Nat /\ written[x] <= Bytes(x)
      <3>1. written[x] \in Nat /\ writing[x] \in Nat /\ written[x] + writing[x] <= Bytes(x)
            /\ Bytes(x) \in Nat
        BY <1>1, TcpAssumption DEF TcpTypeOK, CallersOK, Bytes
      <3> QED BY <3>1
    <2>3. New(s) /\ s.state = "LISTEN" /\ s.listed = TRUE
      BY <1>4, MadeSocket
    <2> HIDE DEF d, s
    <2>4. Sound(s, d, 0) /\ Acknowledges(s, d, net')
      BY <2>1, <2>2, <2>3, Fresh DEF New
    <2> QED BY <2>4 DEF d
  <1> HIDE DEF s
  <1>9. \A y \in Sockets \ {x} : Same(y)
    BY <1>2, <1>5 DEF Same, Due, Others
  <1>10. /\ \A y \in Sockets : SocketInv(y)'
         /\ sock'[x] \in Socket /\ sock'[x].state # "NONE"
    <2>1. Left(sock'[x], Context(x)', Others(x)', net')
      BY <1>5, <1>7, <1>8 DEF Left
    <2> QED BY <1>1, <1>2, <1>9, <2>1, StepAt
  <1>11. TcpTypeOK'
    BY <1>1, <1>2, <1>3, <1>5, <1>10 DEF TcpTypeOK
  <1>12. CallersOK'
    <2>1. accepted = Accepted => sock'[Accepted].state # "NONE" /\ user'[Accepted] = "none"
      BY <1>1, <1>5, Constants DEF CallersOK, Sockets
    <2>2. \A y \in Sockets : user[y] # "none" => user'[y] # "none"
      BY <1>5
    <2> QED BY <1>1, <1>2, <2>1, <2>2 DEF CallersOK, Sockets
  <1> QED
    BY <1>10, <1>11, <1>12 DEF TcpIndInv

(* The handle is handed out: the socket is past SYN_SENT and in the list. *)
LEMMA HandedOut ==
  ASSUME NEW s, NEW c, NEW d, NEW k, NEW sent, Sound(s, c, k), Acknowledges(s, c, sent),
         c.user = "none", d.user = "open", s.state # "SYN_SENT",
         d.x = c.x, d.got = c.got, d.written = c.written, d.due = c.due
  PROVE  Sound(s, d, k) /\ Acknowledges(s, d, sent)
  <1>1. Transmits(s, d)
    BY DEF Sound, Transmits
  <1>2. Closes(s, d)
    BY DEF Sound, Closes
  <1>3. Acknowledges(s, d, sent)
    BY DEF Acknowledges, AckIn
  <1> QED
    BY <1>1, <1>2, <1>3 DEF Sound

(* The end of tcp_connect: the caller has the handle, with and without an  *)
(* error.                                                                  *)
LEMMA ConnectReturns ==
  ASSUME TcpIndInv, tcp_connect_returns
  PROVE  TcpIndInv'
  <1> DEFINE x == Client
             c == Context(x)
             d == Context(x)'
  <1>1. TcpTypeOK /\ CallersOK /\ x \in Sockets /\ SocketInv(x)
    BY DEF TcpIndInv, Sockets
  <1>2. /\ user[x] = "none" /\ sock[x].connect_event /\ user' = [user EXCEPT ![x] = "open"]
        /\ UNCHANGED <<sock, accepted, net, input, firing, accepting, reading, writing, written, got>>
    BY DEF tcp_connect_returns, connvars
  <1>3. user'[x] = "open" /\ \A y \in Sockets \ {x} : user'[y] = user[y]
    BY <1>1, <1>2 DEF TcpTypeOK
  <1>4. Sound(sock[x], c, Others(x)) /\ Acknowledges(sock[x], c, net)
    <2>1. ~Absent(x)
      BY <1>2, Records DEF Absent
    <2> QED BY <1>1, <2>1 DEF SocketInv
  <1>5. sock[x].state # "SYN_SENT"
    BY <1>2, <1>4 DEF Sound, Events
  <1>6. c.user = "none" /\ d.user = "open" /\ d.x = c.x /\ d.got = c.got
        /\ d.written = c.written /\ d.due = c.due
    BY <1>2, <1>3 DEF Context, Due
  <1>7. Sound(sock[x], d, Others(x)) /\ Acknowledges(sock[x], d, net)
    <2> HIDE DEF c, d
    <2> QED BY <1>4, <1>5, <1>6, HandedOut
  <1>8. Others(x)' = Others(x)
    BY <1>2 DEF Others
  <1>9. \A y \in Sockets \ {x} : Same(y)
    BY <1>2, <1>3 DEF Same, Due, Others
  <1>10. /\ \A y \in Sockets : SocketInv(y)'
         /\ sock'[x] \in Socket /\ sock'[x].state # "NONE"
    <2>1. Left(sock'[x], Context(x)', Others(x)', net')
      BY <1>2, <1>7, <1>8 DEF Left
    <2> QED BY <1>1, <1>2, <1>9, <2>1, StepAt
  <1>11. TcpTypeOK'
    BY <1>1, <1>2, <1>3 DEF TcpTypeOK
  <1>12. CallersOK'
    <2>1. accepted = Accepted => sock'[Accepted].state # "NONE" /\ user'[Accepted] = "none"
      BY <1>1, <1>2, <1>3, Constants DEF CallersOK, Sockets
    <2>2. \A y \in Sockets : user[y] # "none" => user'[y] # "none"
      BY <1>3
    <2> QED BY <1>1, <1>2, <2>1, <2>2 DEF CallersOK, Sockets
  <1> QED
    BY <1>10, <1>11, <1>12 DEF TcpIndInv

(* The end of tcp_accept: the caller has the new socket's handle.          *)
LEMMA AcceptReturns ==
  ASSUME TcpIndInv, tcp_accept_returns
  PROVE  TcpIndInv'
  <1> DEFINE x == Listener
             a == Accepted
  <1>1. /\ TcpTypeOK /\ CallersOK /\ x \in Sockets /\ a \in Sockets /\ x # a
        /\ SocketInv(x) /\ SocketInv(a)
    BY Constants DEF TcpIndInv, Sockets
  <1>2. /\ accepting /\ accepting' = FALSE
        /\ sock' = [sock EXCEPT ![x] = dec_socket_ref(sock[x])]
        /\ UNCHANGED <<net, input, firing, reading, writing, written, got>>
        /\ \/ accepted # NULL /\ user' = [user EXCEPT ![accepted] = "open"] /\ accepted' = NULL
           \/ user' = user /\ accepted' = accepted
    BY DEF tcp_accept_returns
  <1>3. \/ /\ accepted = a /\ accepted' = NULL /\ user[a] = "none" /\ user'[a] = "open"
           /\ sock[a].state # "NONE" /\ user' \in [Sockets -> {"none", "open", "closed"}]
           /\ \A y \in Sockets \ {a} : user'[y] = user[y]
        \/ user' = user /\ accepted' = accepted
    <2>1. CASE accepted # NULL /\ user' = [user EXCEPT ![accepted] = "open"] /\ accepted' = NULL
      <3>1. accepted = a
        BY <1>1, <2>1 DEF TcpTypeOK
      <3> QED BY <1>1, <2>1, <3>1 DEF TcpTypeOK, CallersOK
    <2> QED BY <1>2, <2>1
  <1>4. /\ sock'[x] = dec_socket_ref(sock[x]) /\ user'[x] = user[x]
        /\ \A y \in Sockets \ {x} : sock'[y] = sock[y]
    BY <1>1, <1>2, <1>3 DEF TcpTypeOK
  <1>5. Others(x)' = Others(x) - 1 /\ Others(x) > 0
    BY <1>2 DEF Others, One
  <1>6. Left(sock'[x], Context(x)', Others(x)', net')
    <2>1. Context(x)' = Context(x)
      BY <1>2, <1>4 DEF Context, Due
    <2>2. Sound(sock[x], Context(x), Others(x)) /\ Acknowledges(sock[x], Context(x), net)
      BY <1>1, <1>5, Present
    <2>3. Left(dec_socket_ref(sock[x]), Context(x), Others(x) - 1, net)
      BY <1>5, <2>2, LetsGo, OthersNat
    <2> QED BY <1>2, <1>4, <1>5, <2>1, <2>3
  <1>7. SocketInv(x)' /\ sock'[x] \in Socket /\ sock'[x].state # "NONE"
    BY <1>1, <1>6, Touched
  <1>8. SocketInv(a)'
    <2>1. Others(a)' = Others(a) /\ Due(a)' = Due(a)
      BY <1>1, <1>2 DEF Others, Due
    <2>2. CASE user' = user
      <3>1. Same(a)
        BY <1>1, <1>2, <1>4, <2>1, <2>2 DEF Same
      <3> QED BY <1>1, <1>2, <3>1, Untouched
    <2>3. CASE user[a] = "none" /\ user'[a] = "open" /\ sock[a].state # "NONE"
      <3> DEFINE c == Context(a)
                 d == Context(a)'
      <3>1. Sound(sock[a], c, Others(a)) /\ Acknowledges(sock[a], c, net)
        <4>1. ~Absent(a)
          BY <2>3, Records DEF Absent
        <4> QED BY <1>1, <4>1 DEF SocketInv
      <3>2. /\ c.x = a /\ c.user = "none" /\ d.user = "open" /\ d.x = c.x /\ d.got = c.got
            /\ d.written = c.written /\ d.due = c.due
        BY <1>2, <2>1, <2>3 DEF Context
      <3>3. sock[a].state # "SYN_SENT"
        BY <3>1, <3>2, Constants DEF Sound, Closes
      <3>4. Sound(sock[a], d, Others(a)) /\ Acknowledges(sock[a], d, net)
        <4> HIDE DEF c, d
        <4> QED BY <3>1, <3>2, <3>3, HandedOut
      <3>5. Left(sock'[a], Context(a)', Others(a)', net')
        BY <1>1, <1>2, <1>4, <2>1, <3>4 DEF Left
      <3> QED BY <1>1, <3>5, Touched
    <2> QED BY <1>3, <2>2, <2>3
  <1>9. \A y \in Sockets : SocketInv(y)'
    <2>1. Client \in Sockets \ {x, a}
      BY Constants DEF Sockets
    <2>2. Same(Client)
      BY <1>2, <1>3, <1>4, <2>1 DEF Same, Due, Others
    <2>3. SocketInv(Client)'
      BY <1>2, <2>1, <2>2, Untouched DEF TcpIndInv
    <2> QED BY <1>7, <1>8, <2>3 DEF Sockets
  <1>10. TcpTypeOK'
    <2>1. sock' \in [Sockets -> Socket]
      BY <1>1, <1>2, <1>7 DEF TcpTypeOK
    <2>2. user' \in [Sockets -> {"none", "open", "closed"}] /\ accepted' \in {NULL, Accepted}
      BY <1>1, <1>3 DEF TcpTypeOK
    <2> QED BY <1>1, <1>2, <2>1, <2>2 DEF TcpTypeOK
  <1>11. CallersOK'
    <2>1. accepted' = Accepted => user'[Accepted] = "none" /\ sock'[Accepted].state # "NONE"
      BY <1>1, <1>3, <1>4, Constants DEF CallersOK
    <2>2. \A y \in Sockets : user[y] # "none" => user'[y] # "none"
      BY <1>3
    <2> QED BY <1>1, <1>2, <2>1, <2>2 DEF CallersOK
  <1> QED
    BY <1>9, <1>10, <1>11 DEF TcpIndInv

(* Other numbers do not change what else is so of a new socket. *)
LEMMA NewNumbers ==
  ASSUME NEW s, New(s), s.state = "SYN_RCVD", s.listed = TRUE,
         NEW low \in Num, NEW high \in Num, NEW seq \in Num
  PROVE  /\ LET r == [s EXCEPT !.rx_win_low = low, !.rx_win_high = high]
            IN  New(r) /\ r.state = "SYN_RCVD" /\ r.listed = TRUE
         /\ LET r == [s EXCEPT !.rx_win_high = high]
            IN  New(r) /\ r.state = "SYN_RCVD" /\ r.listed = TRUE /\ r.rx_win_low = s.rx_win_low
         /\ LET r == [s EXCEPT !.tx_win_low = seq]
            IN  New(r) /\ r.state = "SYN_RCVD" /\ r.listed = TRUE
  <1>1. LET r == [s EXCEPT !.rx_win_low = low, !.rx_win_high = high]
        IN  New(r) /\ r.state = "SYN_RCVD" /\ r.listed = TRUE
    <2> DEFINE r == [s EXCEPT !.rx_win_low = low, !.rx_win_high = high]
    <2>1. /\ r \in Socket /\ r.state = "SYN_RCVD" /\ r.ref = 1 /\ r.timers = {}
          /\ r.rx_buffer = <<>> /\ r.tx_buffer = <<>>
      BY DEF New, Socket
    <2>2. r.listed = TRUE /\ r.rx_event = FALSE /\ r.tx_event = TRUE /\ r.connect_event = FALSE
      BY Zenon DEF New, Socket
    <2> QED BY <2>1, <2>2 DEF New
  <1>2. LET r == [s EXCEPT !.rx_win_high = high]
        IN  New(r) /\ r.state = "SYN_RCVD" /\ r.listed = TRUE /\ r.rx_win_low = s.rx_win_low
    <2> DEFINE r == [s EXCEPT !.rx_win_high = high]
    <2>1. /\ r \in Socket /\ r.state = "SYN_RCVD" /\ r.ref = 1 /\ r.timers = {}
          /\ r.rx_buffer = <<>> /\ r.tx_buffer = <<>> /\ r.rx_win_low = s.rx_win_low
      BY DEF New, Socket
    <2>2. r.listed = TRUE /\ r.rx_event = FALSE /\ r.tx_event = TRUE /\ r.connect_event = FALSE
      BY Zenon DEF New, Socket
    <2> QED BY <2>1, <2>2 DEF New
  <1>3. LET r == [s EXCEPT !.tx_win_low = seq]
        IN  New(r) /\ r.state = "SYN_RCVD" /\ r.listed = TRUE
    <2> DEFINE r == [s EXCEPT !.tx_win_low = seq]
    <2>1. /\ r \in Socket /\ r.state = "SYN_RCVD" /\ r.ref = 1 /\ r.timers = {}
          /\ r.rx_buffer = <<>> /\ r.tx_buffer = <<>>
      BY DEF New, Socket
    <2>2. r.listed = TRUE /\ r.rx_event = FALSE /\ r.tx_event = TRUE /\ r.connect_event = FALSE
      BY Zenon DEF New, Socket
    <2> QED BY <2>1, <2>2 DEF New
  <1> QED
    BY <1>1, <1>2, <1>3

(* What the listener makes of a SYN, and its answer. *)
LEMMA Answers ==
  ASSUME NEW x, NEW iss \in Num, NEW low \in Num
  PROVE  LET w == tcp_socket_send(
                    World(x, [create_tcp_socket(iss) EXCEPT
                                !.state = "SYN_RCVD", !.listed = TRUE,
                                !.rx_win_low = low, !.rx_win_high = Add(low, WinSize - 1)]),
                    {"SYN", "ACK"}, iss, <<>>)
             s == [w.s EXCEPT !.tx_win_low = Add(iss, 1)]
         IN  New(s) /\ s.state = "SYN_RCVD" /\ s.listed = TRUE /\ w.out \subseteq Segment
  <1> DEFINE high == Add(low, WinSize - 1)
             m == Made("SYN_RCVD", iss)
             q == [m EXCEPT !.rx_win_low = low, !.rx_win_high = high]
             t == [q EXCEPT !.rx_win_high = RxWinHigh(q)]
             w0 == World(x, q)
             segment == tcp_send(w0.remote, {"SYN", "ACK"}, iss, t.rx_win_low, <<>>)
             w == tcp_socket_send(w0, {"SYN", "ACK"}, iss, <<>>)
             s == [w.s EXCEPT !.tx_win_low = Add(iss, 1)]
  <1>1. high \in Num /\ Add(iss, 1) \in Num
    <2>1. low \in Int /\ iss \in Int /\ WinSize - 1 \in Int
      BY Constants DEF Num
    <2> QED BY <2>1, Numbers
  <1>2. q = [create_tcp_socket(iss) EXCEPT
               !.state = "SYN_RCVD", !.listed = TRUE, !.rx_win_low = low, !.rx_win_high = high]
    BY DEF Made
  <1>3. New(m) /\ m.state = "SYN_RCVD" /\ m.listed = TRUE
    BY MadeSocket
  <1> HIDE DEF m, high
  <1>4. New(q) /\ q.state = "SYN_RCVD" /\ q.listed = TRUE
    BY <1>1, <1>3, NewNumbers, ZenonT(40)
  <1> HIDE DEF q
  <1>5. RxWinHigh(q) \in Num /\ q \in Socket /\ q.rx_win_low \in Num
    BY <1>4, EdgeIsNum DEF New, Socket
  <1>6. New(t) /\ t.state = "SYN_RCVD" /\ t.listed = TRUE /\ t.rx_win_low = q.rx_win_low
    BY <1>4, <1>5, NewNumbers
  <1>7. w0 \in Worlds /\ w0.s = q /\ w0.out = {} /\ w0.remote \in Hosts
    BY <1>5, NewWorld DEF Worlds
  <1>8. w = [w0 EXCEPT !.s = tcp_timer_cancel(t, "ack"), !.out = w0.out \cup {segment}]
    BY <1>7 DEF tcp_socket_send
  <1> HIDE DEF t, w0
  <1>9. tcp_timer_cancel(t, "ack") = t
    BY <1>6 DEF tcp_timer_cancel, New
  <1>10. segment \in Segment
    BY <1>5, <1>6, <1>7 DEF tcp_send, Segment
  <1> HIDE DEF segment
  <1>11. w.s = t /\ w.out = {segment}
    BY <1>7, <1>8, <1>9 DEF Worlds
  <1> HIDE DEF w
  <1>12. New(s) /\ s.state = "SYN_RCVD" /\ s.listed = TRUE
    BY <1>1, <1>6, <1>11, NewNumbers
  <1> HIDE DEF s
  <1> QED
    BY <1>2, <1>10, <1>11, <1>12 DEF s, w, w0, high

(* A SYN at the listener: tcp_input makes the accepted socket and answers. *)
LEMMA InputAccepts ==
  ASSUME TcpIndInv, tcp_input_accepts
  PROVE  TcpIndInv'
  <1> DEFINE x == Listener
             a == Accepted
             h == "server"
  <1>1. /\ TcpTypeOK /\ CallersOK /\ x \in Sockets /\ a \in Sockets /\ x # a
        /\ SocketInv(x) /\ SocketInv(a) /\ h \in Hosts /\ HostOf(x) = h /\ HostOf(a) = h
    BY Constants DEF TcpIndInv, Sockets, Hosts, HostOf
  <1>2. /\ input[h] # Idle /\ input[h].socket = x /\ sock[a].state = "NONE"
        /\ accepted' = a /\ input' = [input EXCEPT ![h] = Idle]
        /\ UNCHANGED <<firing, user, accepting, reading, writing, written, got>>
    BY DEF tcp_input_accepts, Calls
  <1> DEFINE low == Add(input[h].segment.seq, 1)
             w(iss) == tcp_socket_send(
                         World(a, [create_tcp_socket(iss) EXCEPT
                                     !.state = "SYN_RCVD", !.listed = TRUE,
                                     !.rx_win_low = low, !.rx_win_high = Add(low, WinSize - 1)]),
                         {"SYN", "ACK"}, iss, <<>>)
  <1>3. PICK iss \in InitialSeqs :
          /\ sock' = [sock EXCEPT ![a] = [w(iss).s EXCEPT !.tx_win_low = Add(iss, 1)],
                                  ![x] = dec_socket_ref(@)]
          /\ net' = net \cup w(iss).out
    BY DEF tcp_input_accepts
  <1> DEFINE s == [w(iss).s EXCEPT !.tx_win_low = Add(iss, 1)]
             out == w(iss).out
  <1>4. New(s) /\ s.state = "SYN_RCVD" /\ s.listed = TRUE /\ out \subseteq Segment
    <2>1. iss \in Num
      BY TcpAssumption DEF Num
    <2>2. input[h].segment.seq \in Num
      BY <1>1, <1>2 DEF TcpTypeOK, Segment
    <2>3. low \in Num
      <3>1. input[h].segment.seq \in Int
        BY <2>2 DEF Num
      <3> QED BY <3>1, Numbers
    <2> HIDE DEF low
    <2> QED BY <2>1, <2>3, Answers
  <1>5. sock' = [sock EXCEPT ![a] = s, ![x] = dec_socket_ref(@)] /\ net' = net \cup out
    BY <1>3
  <1> HIDE DEF s, out
  <1>6. /\ sock'[x] = dec_socket_ref(sock[x]) /\ sock'[a] = s
        /\ \A y \in Sockets \ {x, a} : sock'[y] = sock[y]
    BY <1>1, <1>5 DEF TcpTypeOK
  <1>7. input'[h] = Idle /\ \A g \in Hosts \ {h} : input'[g] = input[g]
    BY <1>1, <1>2 DEF TcpTypeOK
  <1>8. \A y \in Sockets : input'[h].socket # y
    BY <1>7, Constants DEF Idle
  <1>9. Others(x)' = Others(x) - 1 /\ Others(x) > 0
    BY <1>1, <1>2, <1>8 DEF Others, One
  <1>10. net \subseteq net' /\ net' \subseteq Segment
    BY <1>1, <1>4, <1>5 DEF TcpTypeOK
  <1>11. Left(sock'[x], Context(x)', Others(x)', net')
    <2>1. Context(x)' = Context(x)
      BY <1>2 DEF Context, Due
    <2>2. Sound(sock[x], Context(x), Others(x)) /\ Acknowledges(sock[x], Context(x), net')
      BY <1>1, <1>9, <1>10, Present, MoreSent
    <2>3. Left(dec_socket_ref(sock[x]), Context(x), Others(x) - 1, net')
      BY <1>9, <2>2, LetsGo, OthersNat
    <2> QED BY <1>6, <1>9, <2>1, <2>3
  <1>12. user[a] = "none" /\ got[a] = <<>> /\ Others(a) = 0 /\ Due(a) = {}
    BY <1>1, <1>2, Vacant
  <1>13. Left(sock'[a], Context(a)', Others(a)', net')
    <2> DEFINE d == Context(a)'
    <2>1. d.x = a /\ d.user = "none" /\ d.got = <<>> /\ d.due = {} /\ d.written = written[a]
      BY <1>2, <1>12 DEF Context, Due
    <2>2. Others(a)' = 0
      <3>1. input[h].socket # a
        BY <1>1, <1>2
      <3> QED BY <1>1, <1>2, <1>8, <1>12, <3>1 DEF Others, One
    <2>3. written[a] \in Nat /\ written[a] <= Bytes(a)
      <3>1. written[a] \in Nat /\ writing[a] \in Nat /\ written[a] + writing[a] <= Bytes(a)
            /\ Bytes(a) \in Nat
        BY <1>1, TcpAssumption DEF TcpTypeOK, CallersOK, Bytes
      <3> QED BY <3>1
    <2> HIDE DEF d
    <2>4. Sound(s, d, 0) /\ Acknowledges(s, d, net')
      BY <1>4, <2>1, <2>3, Fresh DEF New
    <2> QED BY <1>6, <2>2, <2>4 DEF Left, d
  <1>14. /\ SocketInv(x)' /\ sock'[x] \in Socket /\ SocketInv(a)' /\ sock'[a] \in Socket
         /\ sock'[a].state # "NONE"
    BY <1>1, <1>11, <1>13, Touched
  <1>15. \A y \in Sockets : SocketInv(y)'
    <2>1. Client \in Sockets \ {x, a} /\ HostOf(Client) \in Hosts \ {h}
      BY Constants DEF Sockets, HostOf, Hosts
    <2>2. Same(Client)
      BY <1>2, <1>6, <1>7, <2>1 DEF Same, Due, Others
    <2>3. SocketInv(Client)'
      BY <1>10, <2>1, <2>2, Untouched DEF TcpIndInv
    <2> QED BY <1>14, <2>3 DEF Sockets
  <1>16. TcpTypeOK'
    <2>1. \A g \in Hosts :
            \/ input'[g] = Idle
            \/ input'[g] \in [socket : Sockets, segment : Segment] /\ HostOf(input'[g].socket) = g
      BY <1>1, <1>7 DEF TcpTypeOK
    <2>2. sock' \in [Sockets -> Socket] /\ DOMAIN input' = Hosts
      BY <1>1, <1>2, <1>5, <1>6, <1>14 DEF TcpTypeOK
    <2> QED BY <1>1, <1>2, <1>10, <2>1, <2>2 DEF TcpTypeOK
  <1>17. CallersOK'
    BY <1>1, <1>2, <1>12, <1>14 DEF CallersOK
  <1> QED
    BY <1>15, <1>16, <1>17 DEF TcpIndInv
-----------------------------------------------------------------------------
(* Every step keeps the invariant.                                         *)
LEMMA Inductive ==
  ASSUME TcpIndInv, [Next]_vars
  PROVE  TcpIndInv'
  <1>1. CASE Next
    <2>1. CASE tcp_connect
      BY <2>1, Connect
    <2>2. CASE tcp_connect_returns
      BY <2>2, ConnectReturns
    <2>3. CASE tcp_open_listen
      BY <2>3, OpenListen
    <2>4. CASE tcp_accept
      BY <2>4, Accept
    <2>5. CASE tcp_accept_returns
      BY <2>5, AcceptReturns
    <2>6. ASSUME NEW m \in net, tcp_input(m)
          PROVE  TcpIndInv'
      BY <2>6, Input
    <2>7. CASE tcp_input_accepts
      BY <2>7, InputAccepts
    <2>8. ASSUME NEW h \in Hosts, tcp_input_handles(h) \/ Callback(h)
          PROVE  TcpIndInv'
      BY <2>8, InputHandles, CallbackStep
    <2>9. ASSUME NEW x \in Sockets, NEW timer \in {"ack", "retransmit", "time_wait"},
                 net_timer_work_routine(x, timer)
          PROVE  TcpIndInv'
      BY <2>9, TimerWork DEF Timers
    <2>10. ASSUME NEW x \in Sockets, tcp_read(x) \/ tcp_read_runs(x)
           PROVE  TcpIndInv'
      BY <2>10, Read, ReadRuns
    <2>11. ASSUME NEW x \in Sockets, NEW len \in 1 .. Bytes(x), tcp_write(x, len)
           PROVE  TcpIndInv'
      BY <2>11, Write
    <2>12. ASSUME NEW x \in Sockets, tcp_write_runs(x) \/ tcp_close(x)
           PROVE  TcpIndInv'
      BY <2>12, WriteRuns, Close
    <2> QED
      BY <1>1, <2>1, <2>2, <2>3, <2>4, <2>5, <2>6, <2>7, <2>8, <2>9, <2>10, <2>11, <2>12 DEF Next
  <1>2. CASE UNCHANGED vars
    <2>1. UNCHANGED <<sock, accepted, net, input, firing, user, accepting, reading, writing,
                      written, got>>
      BY <1>2 DEF vars, connvars
    <2>2. TcpTypeOK'
      BY <2>1 DEF TcpIndInv, TcpTypeOK
    <2>3. CallersOK'
      BY <2>1 DEF TcpIndInv, CallersOK
    <2>4. ASSUME NEW y \in Sockets PROVE SocketInv(y)'
      <3>1. Same(y)
        BY <2>1 DEF Same, Due, Others
      <3> QED BY <2>1, <3>1, Untouched DEF TcpIndInv
    <2> QED BY <2>2, <2>3, <2>4 DEF TcpIndInv
  <1> QED
    BY <1>1, <1>2

(* The inductive invariant holds in every reachable state.                 *)
LEMMA Invariant == Spec => []TcpIndInv
  BY Initially, Inductive, PTL DEF Spec
-----------------------------------------------------------------------------
(* How many of six there are. *)
LEMMA OnesSum ==
  ASSUME NEW a \in BOOLEAN, NEW b \in BOOLEAN, NEW c \in BOOLEAN,
         NEW d \in BOOLEAN, NEW e \in BOOLEAN, NEW f \in BOOLEAN
  PROVE  Ones(<<a, b, c, d, e, f>>) = One(a) + One(b) + One(c) + One(d) + One(e) + One(f)
  <1> DEFINE P == <<a, b, c, d, e, f>>
             S(n) == {p \in 1 .. n : P[p]}
  <1>1. IsFiniteSet(S(0)) /\ Cardinality(S(0)) = 0
    <2>1. S(0) = {} OBVIOUS
    <2> QED BY <2>1, FS_EmptySet
  <1>2. ASSUME NEW n \in 0 .. 5, IsFiniteSet(S(n))
        PROVE  /\ IsFiniteSet(S(n + 1))
               /\ Cardinality(S(n + 1)) = Cardinality(S(n)) + One(P[n + 1])
    <2>1. Cardinality(S(n)) \in Nat
      BY <1>2, FS_CardinalityType
    <2> HIDE DEF P
    <2>2. CASE P[n + 1]
      <3>1. S(n + 1) = S(n) \cup {n + 1} /\ n + 1 \notin S(n)
        BY <2>2
      <3>2. One(P[n + 1]) = 1
        BY <2>2 DEF One
      <3> HIDE DEF S
      <3> QED BY <1>2, <3>1, <3>2, FS_AddElement
    <2>3. CASE ~P[n + 1]
      <3>1. S(n + 1) = S(n)
        BY <2>3
      <3>2. One(P[n + 1]) = 0
        BY <2>3 DEF One
      <3> HIDE DEF S
      <3> QED BY <1>2, <2>1, <3>1, <3>2
    <2> QED BY <2>2, <2>3
  <1>3. Ones(P) = Cardinality(S(6))
    <2>1. {p \in DOMAIN P : P[p]} = S(6)
      OBVIOUS
    <2> QED BY <2>1 DEF Ones
  <1>4. P[1] = a /\ P[2] = b /\ P[3] = c /\ P[4] = d /\ P[5] = e /\ P[6] = f
    OBVIOUS
  <1> HIDE DEF P, S
  <1>5. IsFiniteSet(S(1)) /\ Cardinality(S(1)) = Cardinality(S(0)) + One(P[1])
    <2>1. 0 \in 0 .. 5 /\ 0 + 1 = 1 OBVIOUS
    <2> QED BY <1>1, <1>2, <2>1, Zenon
  <1>6. IsFiniteSet(S(2)) /\ Cardinality(S(2)) = Cardinality(S(1)) + One(P[2])
    <2>1. 1 \in 0 .. 5 /\ 1 + 1 = 2 OBVIOUS
    <2> QED BY <1>2, <1>5, <2>1, Zenon
  <1>7. IsFiniteSet(S(3)) /\ Cardinality(S(3)) = Cardinality(S(2)) + One(P[3])
    <2>1. 2 \in 0 .. 5 /\ 2 + 1 = 3 OBVIOUS
    <2> QED BY <1>2, <1>6, <2>1, Zenon
  <1>8. IsFiniteSet(S(4)) /\ Cardinality(S(4)) = Cardinality(S(3)) + One(P[4])
    <2>1. 3 \in 0 .. 5 /\ 3 + 1 = 4 OBVIOUS
    <2> QED BY <1>2, <1>7, <2>1, Zenon
  <1>9. IsFiniteSet(S(5)) /\ Cardinality(S(5)) = Cardinality(S(4)) + One(P[5])
    <2>1. 4 \in 0 .. 5 /\ 4 + 1 = 5 OBVIOUS
    <2> QED BY <1>2, <1>8, <2>1, Zenon
  <1>10. Cardinality(S(6)) = Cardinality(S(5)) + One(P[6])
    <2>1. 5 \in 0 .. 5 /\ 5 + 1 = 6 OBVIOUS
    <2> QED BY <1>2, <1>9, <2>1, Zenon
  <1>11. Cardinality(S(6)) = 0 + One(P[1]) + One(P[2]) + One(P[3]) + One(P[4]) + One(P[5]) + One(P[6])
    BY <1>1, <1>5, <1>6, <1>7, <1>8, <1>9, <1>10, Zenon
  <1>12. /\ One(P[1]) = One(a) /\ One(P[2]) = One(b) /\ One(P[3]) = One(c)
         /\ One(P[4]) = One(d) /\ One(P[5]) = One(e) /\ One(P[6]) = One(f)
    BY <1>4, Zenon
  <1>13. 0 + One(a) = One(a)
    BY DEF One
  <1> QED
    BY <1>3, <1>11, <1>12, <1>13, Zenon DEF P

(* Only its own host's input and timer queue hold a socket.                *)
LEMMA Holders ==
  ASSUME TcpIndInv, NEW x \in Sockets
  PROVE  /\ (\E h \in Hosts : input[h].socket = x) <=> input[HostOf(x)].socket = x
         /\ (\E h \in Hosts : firing[h].socket = x) <=> firing[HostOf(x)].socket = x
  <1>1. HostOf(x) \in Hosts
    BY DEF HostOf, Hosts
  <1>2. \A h \in Hosts : input[h].socket = x => h = HostOf(x)
    <2> SUFFICES ASSUME NEW h \in Hosts, input[h].socket = x
                 PROVE  h = HostOf(x)
      OBVIOUS
    <2>1. input[h] = Idle \/ HostOf(input[h].socket) = h
      BY DEF TcpIndInv, TcpTypeOK
    <2>2. input[h] # Idle
      BY Constants DEF Idle
    <2> QED BY <2>1, <2>2, Zenon
  <1>3. \A h \in Hosts : firing[h].socket = x => h = HostOf(x)
    <2> SUFFICES ASSUME NEW h \in Hosts, firing[h].socket = x
                 PROVE  h = HostOf(x)
      OBVIOUS
    <2>1. firing[h] = Idle \/ HostOf(firing[h].socket) = h
      BY DEF TcpIndInv, TcpTypeOK
    <2>2. firing[h] # Idle
      BY Constants DEF Idle
    <2> QED BY <2>1, <2>2, Zenon
  <1> QED
    BY <1>1, <1>2, <1>3

(* The invariant gives the exact count: Ones counts what Others adds up.   *)
LEMMA Exact == TcpIndInv => RefsExact
  <1> SUFFICES ASSUME TcpIndInv, NEW x \in Sockets
               PROVE  sock[x].ref
                        = Cardinality(sock[x].timers)
                          + Ones(<<sock[x].listed, reading[x], writing[x] > 0,
                                   x = Listener /\ accepting,
                                   \E h \in Hosts : input[h].socket = x,
                                   \E h \in Hosts : firing[h].socket = x>>)
    BY DEF RefsExact
  <1> DEFINE s == sock[x]
             i == \E h \in Hosts : input[h].socket = x
             f == \E h \in Hosts : firing[h].socket = x
             l == x = Listener /\ accepting
             b == writing[x] > 0
  <1>1. s.listed \in BOOLEAN /\ reading[x] \in BOOLEAN
    BY DEF TcpIndInv, TcpTypeOK, Socket
  <1>2. Ones(<<s.listed, reading[x], b, l, i, f>>)
          = One(s.listed) + One(reading[x]) + One(b) + One(l) + One(i) + One(f)
    <2>1. b \in BOOLEAN /\ l \in BOOLEAN /\ i \in BOOLEAN /\ f \in BOOLEAN
      OBVIOUS
    <2> HIDE DEF b, l, i, f
    <2> QED BY <1>1, <2>1, OnesSum
  <1>3. One(i) = One(input[HostOf(x)].socket = x) /\ One(f) = One(firing[HostOf(x)].socket = x)
    BY Holders DEF One
  <1>4. Others(x) = One(reading[x]) + One(b) + One(l) + One(i) + One(f)
    BY <1>3 DEF Others
  <1>5. s.ref = Cardinality(s.timers) + One(s.listed) + Others(x) /\ Cardinality(s.timers) \in Nat
    <2>1. CASE Absent(x)
      <3>1. s.ref = 0 /\ s.timers = {}
        <4>1. Unallocated.ref = 0 /\ Freed.ref = 0
          BY DEF Unallocated, Freed
        <4> QED BY <2>1, <4>1, Records DEF Absent
      <3>2. One(s.listed) = 0
        BY <2>1, Records DEF Absent, One
      <3> QED BY <2>1, <3>1, <3>2, FS_EmptySet DEF Absent
    <2>2. CASE Sound(s, Context(x), Others(x))
      <3>1. Balanced(s, Others(x))
        BY <2>2 DEF Sound
      <3> QED BY <3>1, Count, OthersNat
    <2> QED BY <2>1, <2>2 DEF TcpIndInv, SocketInv
  <1>6. /\ One(s.listed) \in Nat /\ One(reading[x]) \in Nat /\ One(b) \in Nat /\ One(l) \in Nat
        /\ One(i) \in Nat /\ One(f) \in Nat
    BY DEF One
  <1> HIDE DEF s, b, l, i, f
  <1>7. s.ref = Cardinality(s.timers)
                + (One(s.listed) + One(reading[x]) + One(b) + One(l) + One(i) + One(f))
    BY <1>4, <1>5, <1>6
  <1> QED
    BY <1>2, <1>7, Zenon DEF s, b, l, i, f

(* The invariant gives the sleepers' condition.                            *)
LEMMA Awake == TcpIndInv => NoSleepingCaller
  <1> SUFFICES ASSUME TcpIndInv, NEW x \in {Client, Accepted}
               PROVE  /\ reading[x] /\ ~sock[x].rx_event =>
                           sock[x].rx_buffer = <<>> /\ sock[x].state \in {"SYN_RCVD", "ESTABLISHED"}
                      /\ writing[x] > 0 /\ ~sock[x].tx_event =>
                           Len(sock[x].tx_buffer) = TxSize
                           /\ sock[x].state \in {"ESTABLISHED", "CLOSE_WAIT"}
    BY DEF NoSleepingCaller
  <1>1. x \in Sockets /\ x # Listener
    BY Constants DEF Sockets
  <1>2. SUFFICES ASSUME reading[x] \/ writing[x] > 0
                 PROVE  /\ ~sock[x].rx_event =>
                             sock[x].rx_buffer = <<>> /\ sock[x].state \in {"SYN_RCVD", "ESTABLISHED"}
                        /\ ~sock[x].tx_event =>
                             Len(sock[x].tx_buffer) = TxSize
                             /\ sock[x].state \in {"ESTABLISHED", "CLOSE_WAIT"}
    OBVIOUS
  <1>3. Others(x) > 0 /\ user[x] # "none"
    BY <1>1, <1>2 DEF Others, One, TcpIndInv, CallersOK
  <1>4. Sound(sock[x], Context(x), Others(x))
    BY <1>1, <1>3, Present DEF TcpIndInv
  <1>5. sock[x].state \notin {"LISTEN", "SYN_SENT"}
    BY <1>1, <1>3, <1>4, ContextIs DEF Sound, Closes
  <1> QED
    BY <1>4, <1>5 DEF Sound, Events

(* The invariant gives the timers' condition.                              *)
LEMMA Armoury == TcpIndInv => TimersArmed
  <1> SUFFICES ASSUME TcpIndInv, NEW x \in {Client, Accepted}
               PROVE  /\ sock[x].state \in {"ESTABLISHED", "CLOSE_WAIT"} /\ Outstanding(sock[x]) # 0 =>
                           Armed(x, "retransmit")
                      /\ sock[x].state = "ESTABLISHED" /\ Received(x) # <<>> =>
                           \/ Armed(x, "ack")
                           \/ \E m \in net : /\ m.to = HostOf(PeerOf(x)) /\ "ACK" \in m.flags
                                             /\ m.ack = sock[x].rx_win_low
    BY DEF TimersArmed
  <1>1. x \in Sockets /\ HostOf(x) \in Hosts /\ HostOf(PeerOf(x)) = Other(HostOf(x))
    BY Constants DEF Sockets, HostOf, PeerOf, Other, Hosts
  <1>2. SUFFICES ASSUME sock[x].state \in {"ESTABLISHED", "CLOSE_WAIT"}
                 PROVE  /\ Outstanding(sock[x]) # 0 => Armed(x, "retransmit")
                        /\ sock[x].state = "ESTABLISHED" /\ Received(x) # <<>> =>
                             Armed(x, "ack") \/ AckIn(sock[x], Context(x), net)
    BY <1>1, ContextIs DEF AckIn
  <1>3. Sound(sock[x], Context(x), Others(x)) /\ Acknowledges(sock[x], Context(x), net)
    BY <1>1, <1>2, Present DEF TcpIndInv
  <1>4. \A t \in Timers : t \in sock[x].timers \cup Context(x).due => Armed(x, t)
    BY <1>1, ContextIs DEF Due, Armed
  <1>5. Outstanding(sock[x]) # 0 => Armed(x, "retransmit")
    BY <1>2, <1>3, <1>4 DEF Sound, Transmits, Writable, Timers
  <1>6. Received(x) # <<>> => ~(Context(x).got = <<>> /\ sock[x].rx_buffer = <<>>)
    BY ContextIs DEF Received
  <1>7. sock[x].state = "ESTABLISHED" /\ Received(x) # <<>> =>
          Armed(x, "ack") \/ AckIn(sock[x], Context(x), net)
    BY <1>3, <1>4, <1>6 DEF Acknowledges, Timers
  <1> QED
    BY <1>5, <1>7
-----------------------------------------------------------------------------
(* A socket's reference count is the number of those who hold it: the list *)
(* of tcp_socket_list, its queued timers, the callback that is due,        *)
(* tcp_input between look-up and lock, and its callers.  So tcp_socket_t   *)
(* is freed by the last of them, once, and nobody touches it afterwards,   *)
(* whatever is delivered twice, late or after a close.                     *)
THEOREM RefCountsExact == Spec => []RefsExact
  BY Invariant, Exact, PTL

(* Nobody sleeps in tcp_read on a connection that has data, a FIN or an    *)
(* error for it, nor in tcp_write with room in the buffer or after the     *)
(* connection is gone.                                                     *)
THEOREM NobodySleepsOn == Spec => []NoSleepingCaller
  BY Invariant, Awake, PTL

(* While a connection is open, data in flight has its retransmission timer *)
(* queued or its callback due, and what was received was acknowledged or   *)
(* has the acknowledgement timer.                                          *)
THEOREM NothingForgotten == Spec => []TimersArmed
  BY Invariant, Armoury, PTL
=============================================================================
