----------------------------- MODULE PortProofs -----------------------------
(***************************************************************************)
(* Proofs about the message ports (kernel/port.c), for any write ports,    *)
(* read ports and finite set of readers, any size of the buffers, and any  *)
(* interleaving of the calls with the threads they wake, block or cancel.  *)
(***************************************************************************)
EXTENDS Port, FiniteSetTheorems, SequenceTheorems, WellFoundedInduction, TLAPS

(* A set of numbers has a least one. *)
LEMMA Least ==
  ASSUME NEW T \in SUBSET Nat, T # {}
  PROVE  \E i \in T : \A j \in T : i <= j
  <1>1. PICK i \in T : \A j \in T : ~(<<j, i>> \in OpToRel(<, Nat))
    BY WFMin, NatLessThanWellFounded
  <1>2. ASSUME NEW j \in T PROVE i <= j
    <2>1. i \in Nat /\ j \in Nat
      OBVIOUS
    <2>2. ~(j < i)
      BY <1>1, <2>1 DEF OpToRel
    <2> QED BY <2>1, <2>2
  <1> QED BY <1>2

-----------------------------------------------------------------------------
(* The invariant. *)

WriteRecord ==
  [magic : {"none", "alloc", "W", "X", "gone"}, name : Names \cup {NULL},
   unicast : BOOLEAN, buf : Seq(Nat) \cup {NULL}, readers : Seq(RPorts)]
ReadRecord ==
  [magic : {"none", "R", "gone"}, buf : Seq(Nat) \cup {NULL},
   wport : WPorts \cup {NULL}, gport : BOOLEAN]

PortTypeOK ==
  /\ write_port_list \in Seq(WPorts)
  /\ wp \in [WPorts -> WriteRecord]
  /\ rp \in [RPorts -> ReadRecord]
  /\ pg \in [magic : {"none", "G", "gone"}, rp_list : Seq(RPorts)]
  /\ closing \in Queues \cup {NULL}
  /\ written \in [WPorts -> Nat]
  /\ refused \in [WPorts -> SUBSET Nat]
  /\ seen \in [WPorts \cup RPorts -> Nat]

(* No element is in s twice. *)
Once(s) == \A i, j \in DOMAIN s : s[i] = s[j] => i = j

(* The list has the created write ports, whose buffer is theirs exactly    *)
(* while nobody reads them.                                                *)
WritePort(w) ==
  /\ w \in Range(write_port_list) <=> wp[w].magic \in {"W", "X"}
  /\ wp[w].magic \in {"alloc", "W", "X"} =>
       wp[w].name \in Names /\ (wp[w].buf = NULL <=> wp[w].readers # <<>>)
  /\ wp[w].magic \in {"none", "alloc"} => written[w] = 0 /\ seen[w] = 0
  /\ wp[w].magic = "alloc" => wp[w].buf = <<>>
  /\ wp[w].magic \in {"none", "gone"} => wp[w].readers = <<>>
  /\ wp[w].unicast => Len(wp[w].readers) <= 1
  /\ Once(wp[w].readers)

WriteNames ==
  "same name" \in misuse \/
    \A v, w \in Range(write_port_list) : wp[v].name = wp[w].name => v = w

WritePorts == Once(write_port_list) /\ WriteNames /\ \A w \in WPorts : WritePort(w)

(* Read port r is open, and port_close of it has not begun. *)
BeingRead(r) == rp[r].magic = "R" /\ closing # r

ReadPorts ==
  /\ \A r \in RPorts, w \in WPorts :
       r \in Range(wp[w].readers) <=> BeingRead(r) /\ rp[r].wport = w
  /\ \A r \in RPorts :
       /\ BeingRead(r) => rp[r].buf # NULL
       /\ rp[r].magic # "R" => rp[r].gport = FALSE
  /\ closing \in RPorts => rp[closing].magic = "R"
  /\ closing = Group => pg.magic = "G"

GroupMembers ==
  /\ Once(pg.rp_list)
  /\ \A r \in Range(pg.rp_list) : BeingRead(r) /\ rp[r].gport
  /\ pg.magic # "G" => pg.rp_list = <<>>

WaitResults == {"NO_ERROR", "ERR_TIMED_OUT", "ERR_CANCELLED", "ERR_OBJECT_DESTROYED"}
ReaderThread == [at : Queues \cup {NULL}, blocked : BOOLEAN, ret : WaitResults]

(* The threads of a queue are those that wait on it. *)
ThreadsQueued ==
  /\ \A q \in Queues : Once(waitq[q])
  /\ \A q \in Queues, t \in Readers :
       t \in Range(waitq[q]) <=> reader[t].blocked /\ reader[t].at = q
  /\ \A t \in Readers : reader[t].blocked => reader[t].at # NULL

PortThreads ==
  waitq \in [Queues -> Seq(Readers)] /\ reader \in [Readers -> ReaderThread] /\ ThreadsQueued

PortBase == PortTypeOK /\ WritePorts /\ ReadPorts /\ GroupMembers /\ PortThreads

(* Until a port is closed under a reader, or taken out of the group, a     *)
(* port that points to the group is in it, and a thread that waits, or was *)
(* woken for a packet, comes back to an open port.                         *)
IsOpen(q) == IF q = Group THEN pg.magic = "G" ELSE rp[q].magic = "R"
Expects(t) == reader[t].at # NULL /\ (reader[t].blocked \/ reader[t].ret = "NO_ERROR")

PortsFresh ==
  /\ fault = "none"
  /\ \A r \in RPorts : rp[r].gport /\ closing # r => r \in Range(pg.rp_list)
  /\ \A t \in Readers : Expects(t) => IsOpen(reader[t].at) /\ reader[t].at # closing

NothingStale == "stale" \in misuse \/ PortsFresh

(* Buffer b has what comes after the n-th packet of w. *)
Continues(b, w, n) ==
  HoldsAllAfter(b, w, n) /\ n <= written[w] /\ \A p \in Range(b) : p <= written[w]

PacketsKept ==
  /\ \A r \in RPorts : BeingRead(r) /\ rp[r].wport # NULL => Continues(rp[r].buf, rp[r].wport, seen[r])
  /\ \A w \in WPorts :
       wp[w].magic \in {"alloc", "W", "X"} /\ wp[w].buf # NULL => Continues(wp[w].buf, w, seen[w])
-----------------------------------------------------------------------------
(* Lists. *)

LEMMA EmptyList ==
  ASSUME NEW S, NEW s \in Seq(S)
  PROVE  /\ s = <<>> <=> Range(s) = {}
         /\ Range(s) \subseteq S
         /\ DOMAIN s = 1 .. Len(s) /\ Len(s) \in Nat
         /\ s = <<>> <=> Len(s) = 0
  <1>1. DOMAIN s = 1 .. Len(s) /\ Len(s) \in Nat
    OBVIOUS
  <1>2. s = <<>> <=> Len(s) = 0
    OBVIOUS
  <1>3. s = <<>> <=> Range(s) = {}
    <2>1. CASE s = <<>>
      BY <2>1 DEF Range
    <2>2. CASE s # <<>>
      <3>1. 1 \in DOMAIN s
        BY <1>1, <1>2, <2>2
      <3> QED BY <2>2, <3>1 DEF Range
    <2> QED BY <2>1, <2>2
  <1>4. Range(s) \subseteq S
    BY <1>1 DEF Range
  <1> QED BY <1>1, <1>2, <1>3, <1>4

LEMMA NothingOnce == Once(<<>>)
  BY DEF Once

LEMMA ListAppended ==
  ASSUME NEW S, NEW s \in Seq(S), NEW e \in S
  PROVE  /\ Append(s, e) \in Seq(S)
         /\ Range(Append(s, e)) = Range(s) \cup {e}
         /\ Append(s, e) # <<>>
         /\ Len(Append(s, e)) = Len(s) + 1
         /\ Once(s) /\ e \notin Range(s) => Once(Append(s, e))
  <1> DEFINE u == Append(s, e)
  <1>1. /\ u \in Seq(S) /\ Len(u) = Len(s) + 1 /\ Len(s) \in Nat
        /\ DOMAIN s = 1 .. Len(s) /\ DOMAIN u = 1 .. Len(s) + 1
        /\ \A i \in 1 .. Len(s) : u[i] = s[i]
        /\ u[Len(s) + 1] = e
    OBVIOUS
  <1> HIDE DEF u
  <1>2. Range(u) = Range(s) \cup {e}
    <2>1. Range(u) \subseteq Range(s) \cup {e}
      BY <1>1 DEF Range
    <2>2. Range(s) \cup {e} \subseteq Range(u)
      BY <1>1 DEF Range
    <2> QED BY <2>1, <2>2
  <1>3. u # <<>>
    BY <1>1
  <1>4. ASSUME Once(s), e \notin Range(s) PROVE Once(u)
    BY <1>1, <1>4 DEF Once, Range
  <1> QED BY <1>1, <1>2, <1>3, <1>4 DEF u

(* The list without its first n elements. *)
LEMMA ListRest ==
  ASSUME NEW S, NEW s \in Seq(S), NEW n \in 0 .. Len(s), Once(s)
  PROVE  /\ SubSeq(s, n + 1, Len(s)) \in Seq(S)
         /\ Once(SubSeq(s, n + 1, Len(s)))
         /\ Range(SubSeq(s, n + 1, Len(s))) = Range(s) \ {s[i] : i \in 1 .. n}
         /\ n = 0 => SubSeq(s, n + 1, Len(s)) = s
         /\ Len(SubSeq(s, n + 1, Len(s))) = Len(s) - n
  <1> DEFINE u == SubSeq(s, n + 1, Len(s))
  <1>1. /\ u \in Seq(S) /\ Len(u) = Len(s) - n /\ Len(s) \in Nat /\ n \in Nat
        /\ DOMAIN s = 1 .. Len(s) /\ DOMAIN u = 1 .. Len(s) - n
        /\ \A i \in 1 .. Len(s) - n : u[i] = s[n + i]
    OBVIOUS
  <1> HIDE DEF u
  <1>2. Once(u)
    <2> SUFFICES ASSUME NEW i \in DOMAIN u, NEW j \in DOMAIN u, u[i] = u[j] PROVE i = j
      BY DEF Once
    <2>1. n + i \in DOMAIN s /\ n + j \in DOMAIN s /\ u[i] = s[n + i] /\ u[j] = s[n + j]
      BY <1>1
    <2>2. n + i = n + j
      BY <2>1 DEF Once
    <2> QED BY <1>1, <2>2
  <1>3. Range(u) = Range(s) \ {s[i] : i \in 1 .. n}
    <2>1. ASSUME NEW i \in 1 .. Len(s) - n
          PROVE  u[i] \in Range(s) /\ \A j \in 1 .. n : s[j] # u[i]
      <3>1. n + i \in DOMAIN s /\ \A j \in 1 .. n : j \in DOMAIN s /\ j # n + i
        BY <1>1
      <3> QED BY <1>1, <3>1 DEF Once, Range
    <2>2. ASSUME NEW i \in DOMAIN s, i \notin 1 .. n
          PROVE  s[i] \in Range(u)
      <3>1. i - n \in 1 .. Len(s) - n /\ n + (i - n) = i
        BY <1>1, <2>2
      <3> QED BY <1>1, <3>1 DEF Range
    <2>3. Range(u) \subseteq Range(s) \ {s[i] : i \in 1 .. n}
      BY <1>1, <2>1 DEF Range
    <2>4. Range(s) \ {s[i] : i \in 1 .. n} \subseteq Range(u)
      BY <2>2 DEF Range
    <2> QED BY <2>3, <2>4
  <1>4. n = 0 => u = s
    BY <1>1
  <1> QED BY <1>1, <1>2, <1>3, <1>4 DEF u

LEMMA ListJoined ==
  ASSUME NEW S, NEW a \in Seq(S), NEW b \in Seq(S)
  PROVE  /\ a \o b \in Seq(S)
         /\ Len(a \o b) = Len(a) + Len(b)
         /\ \A i \in 1 .. Len(a) + Len(b) : (a \o b)[i] = IF i <= Len(a) THEN a[i] ELSE b[i - Len(a)]
  BY ConcatProperties

LEMMA ListRemoveAt ==
  ASSUME NEW S, NEW s \in Seq(S), NEW k \in 1 .. Len(s)
  PROVE  /\ RemoveAt(s, k) \in Seq(S)
         /\ Len(RemoveAt(s, k)) = Len(s) - 1
         /\ \A i \in 1 .. Len(s) - 1 : RemoveAt(s, k)[i] = IF i < k THEN s[i] ELSE s[i + 1]
  <1> DEFINE a == SubSeq(s, 1, k - 1)  b == SubSeq(s, k + 1, Len(s))
  <1>1. /\ a \in Seq(S) /\ Len(a) = k - 1
        /\ \A i \in 1 .. k - 1 : a[i] = s[i]
    OBVIOUS
  <1>2. /\ b \in Seq(S) /\ Len(b) = Len(s) - k
        /\ \A i \in 1 .. Len(s) - k : b[i] = s[k + i]
    OBVIOUS
  <1>3. RemoveAt(s, k) = a \o b
    BY DEF RemoveAt
  <1> HIDE DEF a, b
  <1> DEFINE c == a \o b
  <1>4. /\ c \in Seq(S) /\ Len(c) = Len(a) + Len(b)
        /\ \A i \in 1 .. Len(a) + Len(b) : c[i] = IF i <= Len(a) THEN a[i] ELSE b[i - Len(a)]
    BY <1>1, <1>2, ListJoined
  <1> HIDE DEF c
  <1>5. \A i \in 1 .. Len(s) - 1 : c[i] = IF i < k THEN a[i] ELSE b[i - (k - 1)]
    <2> TAKE i \in 1 .. Len(s) - 1
    <2>1. Len(s) \in Nat /\ k \in 1 .. Len(s) /\ Len(a) = k - 1 /\ Len(b) = Len(s) - k
      BY <1>1, <1>2
    <2>2. i \in 1 .. Len(a) + Len(b) /\ (i <= Len(a) <=> i < k)
      BY <2>1
    <2> QED BY <1>4, <2>1, <2>2
  <1>6. \A i \in 1 .. Len(s) - 1 : i >= k => b[i - (k - 1)] = s[i + 1]
    <2> TAKE i \in 1 .. Len(s) - 1
    <2>0. Len(s) \in Nat /\ k \in 1 .. Len(s)
      OBVIOUS
    <2>1. ASSUME i >= k PROVE i - (k - 1) \in 1 .. Len(s) - k /\ k + (i - (k - 1)) = i + 1
      BY <2>0, <2>1
    <2>2. ASSUME i >= k PROVE b[i - (k - 1)] = s[k + (i - (k - 1))]
      BY <1>2, <2>1, <2>2
    <2> QED BY <2>1, <2>2
  <1>7. Len(c) = Len(s) - 1 /\ c \in Seq(S)
    <2>1. Len(s) \in Nat /\ k \in 1 .. Len(s)
      OBVIOUS
    <2> QED BY <1>1, <1>2, <1>4, <2>1
  <1>8. \A i \in 1 .. Len(s) - 1 : c[i] = IF i < k THEN s[i] ELSE s[i + 1]
    <2> TAKE i \in 1 .. Len(s) - 1
    <2>1. CASE i < k
      <3>1. i \in 1 .. k - 1
        BY <2>1
      <3> QED BY <1>1, <1>5, <2>1, <3>1
    <2>2. CASE ~(i < k)
      <3>1. i >= k
        BY <2>2
      <3> QED BY <1>5, <1>6, <2>2, <3>1
    <2> QED BY <2>1, <2>2
  <1> QED BY <1>3, <1>7, <1>8 DEF c

LEMMA ListUnlinked ==
  ASSUME NEW S, NEW s \in Seq(S), NEW e, Once(s)
  PROVE  /\ Unlinked(s, e) \in Seq(S)
         /\ Once(Unlinked(s, e))
         /\ Range(Unlinked(s, e)) = Range(s) \ {e}
         /\ Len(Unlinked(s, e)) <= Len(s)
  <1>1. CASE e \notin Range(s)
    BY <1>1, EmptyList DEF Unlinked
  <1>2. CASE e \in Range(s)
    <2> DEFINE k == CHOOSE i \in DOMAIN s : s[i] = e
               u == Unlinked(s, e)
    <2>1. k \in 1 .. Len(s) /\ s[k] = e /\ Len(s) \in Nat /\ DOMAIN s = 1 .. Len(s)
      BY <1>2 DEF Range
    <2>2. u = RemoveAt(s, k)
      BY <1>2 DEF Unlinked
    <2> HIDE DEF k
    <2>3. /\ u \in Seq(S) /\ Len(u) = Len(s) - 1
          /\ DOMAIN u = 1 .. Len(s) - 1
          /\ \A i \in 1 .. Len(s) - 1 : u[i] = IF i < k THEN s[i] ELSE s[i + 1]
      <3>1. u \in Seq(S) /\ Len(u) = Len(s) - 1
        BY <2>1, <2>2, ListRemoveAt
      <3>2. \A i \in 1 .. Len(s) - 1 : u[i] = IF i < k THEN s[i] ELSE s[i + 1]
        BY <2>1, <2>2, ListRemoveAt
      <3> HIDE DEF u
      <3> QED BY <3>1, <3>2
    <2> HIDE DEF u
    <2>4. Once(u)
      <3> SUFFICES ASSUME NEW i \in DOMAIN u, NEW j \in DOMAIN u, u[i] = u[j] PROVE i = j
        BY DEF Once
      <3> DEFINE at(x) == IF x < k THEN x ELSE x + 1
      <3>1. at(i) \in DOMAIN s /\ at(j) \in DOMAIN s /\ u[i] = s[at(i)] /\ u[j] = s[at(j)]
        BY <2>1, <2>3
      <3>2. at(i) = at(j)
        BY <3>1 DEF Once
      <3> QED BY <2>1, <2>3, <3>2
    <2>5. Range(u) = Range(s) \ {e}
      <3>1. ASSUME NEW i \in DOMAIN u PROVE u[i] \in Range(s) /\ u[i] # e
        <4> DEFINE x == IF i < k THEN i ELSE i + 1
        <4>1. x \in DOMAIN s /\ x # k /\ u[i] = s[x]
          BY <2>1, <2>3
        <4> QED BY <2>1, <4>1 DEF Once, Range
      <3>2. ASSUME NEW i \in DOMAIN s, s[i] # e PROVE s[i] \in Range(u)
        <4> DEFINE x == IF i < k THEN i ELSE i - 1
        <4>1. i # k
          BY <2>1, <3>2
        <4>2. x \in 1 .. Len(s) - 1 /\ (IF x < k THEN x ELSE x + 1) = i
          BY <2>1, <4>1
        <4> QED BY <2>3, <4>2 DEF Range
      <3>3. Range(u) \subseteq Range(s) \ {e}
        BY <3>1 DEF Range
      <3>4. Range(s) \ {e} \subseteq Range(u)
        BY <3>2 DEF Range
      <3> QED BY <3>3, <3>4
    <2> QED BY <2>1, <2>3, <2>4, <2>5 DEF u
  <1> QED BY <1>1, <1>2
-----------------------------------------------------------------------------
(* Threads that wait on ports. *)

(* What a wake-up leaves: the threads woken are the first ones of their    *)
(* queues, and keep the place they are at.                                 *)
LEMMA ThreadsWoken ==
  ASSUME PortThreads,
         NEW n, \A q \in Queues : n[q] \in 0 .. Len(waitq[q]),
         NEW ret \in WaitResults, WakeFirst(n, ret)
  PROVE  /\ PortThreads'
         /\ \A q \in Queues : /\ n[q] = 0 => waitq'[q] = waitq[q]
                              /\ Range(waitq'[q]) = Range(waitq[q]) \ {waitq[q][i] : i \in 1 .. n[q]}
                              /\ Len(waitq'[q]) = Len(waitq[q]) - n[q]
         /\ \A t \in Readers :
              /\ reader'[t].at = reader[t].at
              /\ \/ reader'[t] = reader[t]
                 \/ reader[t].blocked /\ ~reader'[t].blocked /\ reader'[t].ret = ret
              /\ \A q \in Queues :
                   (\E i \in 1 .. n[q] : waitq[q][i] = t) =>
                     reader[t].at = q /\ reader[t].blocked /\ ~reader'[t].blocked /\ reader'[t].ret = ret
  <1>0. waitq \in [Queues -> Seq(Readers)] /\ reader \in [Readers -> ReaderThread] /\ ThreadsQueued
    BY DEF PortThreads
  <1>1. /\ waitq' = [q \in Queues |-> SubSeq(waitq[q], n[q] + 1, Len(waitq[q]))]
        /\ reader' = [t \in Readers |->
                        IF \E q \in Queues : \E i \in 1 .. n[q] : waitq[q][i] = t
                        THEN [reader[t] EXCEPT !.blocked = FALSE, !.ret = ret] ELSE reader[t]]
    BY DEF WakeFirst
  <1>2. ASSUME NEW q \in Queues
        PROVE  /\ waitq'[q] \in Seq(Readers) /\ Once(waitq'[q])
               /\ n[q] = 0 => waitq'[q] = waitq[q]
               /\ Range(waitq'[q]) = Range(waitq[q]) \ {waitq[q][i] : i \in 1 .. n[q]}
               /\ Len(waitq'[q]) = Len(waitq[q]) - n[q]
    <2> DEFINE s == waitq[q]  m == n[q]
    <2>1. s \in Seq(Readers) /\ m \in 0 .. Len(s) /\ Once(s)
      BY <1>0 DEF ThreadsQueued
    <2>2. waitq'[q] = SubSeq(s, m + 1, Len(s))
      BY <1>1
    <2> HIDE DEF s, m
    <2>3. /\ SubSeq(s, m + 1, Len(s)) \in Seq(Readers)
          /\ Once(SubSeq(s, m + 1, Len(s)))
          /\ Range(SubSeq(s, m + 1, Len(s))) = Range(s) \ {s[i] : i \in 1 .. m}
          /\ m = 0 => SubSeq(s, m + 1, Len(s)) = s
          /\ Len(SubSeq(s, m + 1, Len(s))) = Len(s) - m
      BY <2>1, ListRest
    <2> QED BY <2>2, <2>3 DEF s, m
  <1> DEFINE Hit(t, q) == \E i \in 1 .. n[q] : waitq[q][i] = t
  <1>3. ASSUME NEW t \in Readers, NEW q \in Queues, Hit(t, q)
        PROVE  reader[t].at = q /\ reader[t].blocked
    <2>1. PICK i \in 1 .. n[q] : waitq[q][i] = t
      BY <1>3
    <2>2. waitq[q] \in Seq(Readers) /\ n[q] \in 0 .. Len(waitq[q])
      BY <1>0
    <2>3. i \in DOMAIN waitq[q]
      BY <2>2
    <2>4. t \in Range(waitq[q])
      BY <2>1, <2>3 DEF Range
    <2> QED BY <1>0, <2>4 DEF ThreadsQueued
  <1>4. ASSUME NEW t \in Readers
        PROVE  /\ reader'[t] \in ReaderThread
               /\ reader'[t].at = reader[t].at
               /\ (\E q \in Queues : Hit(t, q)) => ~reader'[t].blocked /\ reader'[t].ret = ret
               /\ ~(\E q \in Queues : Hit(t, q)) => reader'[t] = reader[t]
    <2>1. reader[t] \in ReaderThread
      BY <1>0
    <2>2. CASE \E q \in Queues : Hit(t, q)
      <3>1. reader'[t] = [reader[t] EXCEPT !.blocked = FALSE, !.ret = ret]
        BY <1>1, <2>2
      <3> QED BY <2>1, <2>2, <3>1 DEF ReaderThread
    <2>3. CASE ~\E q \in Queues : Hit(t, q)
      <3>1. reader'[t] = reader[t]
        BY <1>1, <2>3
      <3> QED BY <2>1, <2>3, <3>1
    <2> QED BY <2>2, <2>3
  <1>5. ASSUME NEW q \in Queues, NEW t \in Readers
        PROVE  t \in Range(waitq'[q]) <=> reader'[t].blocked /\ reader'[t].at = q
    <2>1. t \in Range(waitq'[q]) <=> t \in Range(waitq[q]) /\ ~Hit(t, q)
      BY <1>2
    <2>2. t \in Range(waitq[q]) <=> reader[t].blocked /\ reader[t].at = q
      BY <1>0 DEF ThreadsQueued
    <2>3. CASE \E p \in Queues : Hit(t, p)
      <3>1. PICK p \in Queues : Hit(t, p)
        BY <2>3
      <3>2. reader[t].at = p /\ ~reader'[t].blocked
        BY <1>3, <1>4, <2>3, <3>1
      <3> QED BY <2>1, <2>2, <3>1, <3>2
    <2>4. CASE ~\E p \in Queues : Hit(t, p)
      <3>1. reader'[t] = reader[t] /\ ~Hit(t, q)
        BY <1>4, <2>4
      <3> QED BY <2>1, <2>2, <3>1
    <2> QED BY <2>3, <2>4
  <1>6. waitq' \in [Queues -> Seq(Readers)]
    <2>1. waitq' = [q \in Queues |-> waitq'[q]]
      BY <1>1
    <2> QED BY <1>2, <2>1
  <1>7. reader' \in [Readers -> ReaderThread]
    <2>1. reader' = [t \in Readers |-> reader'[t]]
      BY <1>1
    <2> QED BY <1>4, <2>1
  <1>8. \A t \in Readers : reader'[t].blocked => reader'[t].at # NULL
    <2> TAKE t \in Readers
    <2>1. reader[t].blocked => reader[t].at # NULL
      BY <1>0 DEF ThreadsQueued
    <2>2. reader'[t].blocked => reader[t].blocked
      BY <1>3, <1>4
    <2> QED BY <1>4, <2>1, <2>2
  <1>9. ThreadsQueued'
    <2>1. \A q \in Queues : Once(waitq'[q])
      BY <1>2
    <2> QED BY <1>5, <1>8, <2>1 DEF ThreadsQueued, Queues
  <1>10. ASSUME NEW t \in Readers
         PROVE  /\ reader'[t].at = reader[t].at
                /\ \/ reader'[t] = reader[t]
                   \/ reader[t].blocked /\ ~reader'[t].blocked /\ reader'[t].ret = ret
                /\ \A q \in Queues :
                     Hit(t, q) => reader[t].at = q /\ reader[t].blocked /\ ~reader'[t].blocked /\ reader'[t].ret = ret
    BY <1>3, <1>4
  <1>11. PortThreads'
    BY <1>6, <1>7, <1>9 DEF PortThreads, Queues, ReaderThread
  <1> QED BY <1>2, <1>10, <1>11

LEMMA EmptyQueue ==
  ASSUME NEW s \in Seq(Readers), NEW u \in Seq(Readers), Range(u) \subseteq Range(s), u # <<>>
  PROVE  s # <<>>
  <1>1. Range(u) # {}
    BY EmptyList
  <1>2. Range(s) # {}
    BY <1>1
  <1> QED BY <1>2, EmptyList

(* A wake-up with result ret, and nothing else. *)
SomeWoken(ret) ==
  \A t \in Readers :
    /\ reader'[t].at = reader[t].at
    /\ \/ reader'[t] = reader[t]
       \/ reader[t].blocked /\ ~reader'[t].blocked /\ reader'[t].ret = ret

LEMMA AtMostInRange ==
  ASSUME PortThreads, NEW m \in Nat, NEW q \in Queues
  PROVE  AtMost(m, q) \in 0 .. Len(waitq[q])
  <1>1. Len(waitq[q]) \in Nat
    BY DEF PortThreads
  <1> QED BY <1>1 DEF AtMost

LEMMA OneWoken ==
  ASSUME PortThreads, NEW q \in Queues, NEW ret \in WaitResults, wake_one(q, ret)
  PROVE  /\ PortThreads' /\ SomeWoken(ret)
         /\ \A p \in Queues \ {q} : waitq'[p] = waitq[p]
         /\ waitq[q] # <<>> => reader[waitq[q][1]].at = q /\ reader[waitq[q][1]].blocked
                               /\ ~reader'[waitq[q][1]].blocked /\ reader'[waitq[q][1]].ret = ret
                               /\ waitq[q][1] \in Readers
         /\ waitq'[q] # <<>> => waitq[q] # <<>>
  <1> DEFINE n == [p \in Queues |-> IF p = q THEN AtMost(1, q) ELSE 0]
  <1>1. WakeFirst(n, ret)
    BY DEF wake_one
  <1>2. \A p \in Queues : n[p] \in 0 .. Len(waitq[p])
    <2> TAKE p \in Queues
    <2>1. AtMost(1, q) \in 0 .. Len(waitq[q]) /\ Len(waitq[p]) \in Nat
      BY AtMostInRange DEF PortThreads
    <2> QED BY <2>1
  <1>3. n[q] = AtMost(1, q) /\ \A p \in Queues \ {q} : n[p] = 0
    OBVIOUS
  <1> HIDE DEF n
  <1>4. PortThreads' /\ SomeWoken(ret) /\ \A p \in Queues \ {q} : waitq'[p] = waitq[p]
    BY <1>1, <1>2, <1>3, ThreadsWoken DEF SomeWoken
  <1>5. waitq[q] \in Seq(Readers)
    BY DEF PortThreads
  <1>6. ASSUME waitq[q] # <<>>
        PROVE  /\ reader[waitq[q][1]].at = q /\ reader[waitq[q][1]].blocked
               /\ ~reader'[waitq[q][1]].blocked /\ reader'[waitq[q][1]].ret = ret
               /\ waitq[q][1] \in Readers
    <2>1. Len(waitq[q]) >= 1 /\ waitq[q][1] \in Readers
      BY <1>5, <1>6
    <2>2. n[q] = 1
      BY <1>3, <1>5, <2>1 DEF AtMost
    <2>3. PICK u \in Readers : u = waitq[q][1]
      BY <2>1
    <2>4. \E i \in 1 .. n[q] : waitq[q][i] = u
      BY <2>2, <2>3
    <2>5. (\E i \in 1 .. n[q] : waitq[q][i] = u) =>
             reader[u].at = q /\ reader[u].blocked /\ ~reader'[u].blocked /\ reader'[u].ret = ret
      BY <1>1, <1>2, ThreadsWoken
    <2> QED BY <2>3, <2>4, <2>5
  <1>7. waitq'[q] # <<>> => waitq[q] # <<>>
    <2>0. \A p \in Queues : /\ n[p] = 0 => waitq'[p] = waitq[p]
                            /\ Range(waitq'[p]) = Range(waitq[p]) \ {waitq[p][i] : i \in 1 .. n[p]}
                            /\ Len(waitq'[p]) = Len(waitq[p]) - n[p]
      BY <1>1, <1>2, ThreadsWoken
    <2>1. Range(waitq'[q]) = Range(waitq[q]) \ {waitq[q][i] : i \in 1 .. n[q]}
      BY <2>0
    <2>2. waitq'[q] \in Seq(Readers)
      BY <1>4 DEF PortThreads
    <2>3. Range(waitq'[q]) \subseteq Range(waitq[q])
      BY <2>1
    <2> QED BY <1>5, <2>2, <2>3, EmptyQueue
  <1> QED BY <1>4, <1>6, <1>7

LEMMA AllWoken ==
  ASSUME PortThreads, NEW S \in SUBSET Queues, NEW ret \in WaitResults, wake_all(S, ret)
  PROVE  /\ PortThreads' /\ SomeWoken(ret)
         /\ \A p \in Queues \ S : waitq'[p] = waitq[p]
         /\ \A p \in S : waitq'[p] = <<>> /\ \A t \in Readers : reader[t].at = p /\ reader[t].blocked =>
                                               ~reader'[t].blocked /\ reader'[t].ret = ret
  <1> DEFINE n == [p \in Queues |-> IF p \in S THEN Len(waitq[p]) ELSE 0]
  <1>1. WakeFirst(n, ret)
    BY DEF wake_all
  <1>2. \A p \in Queues : n[p] \in 0 .. Len(waitq[p])
    <2> TAKE p \in Queues
    <2>1. Len(waitq[p]) \in Nat
      BY DEF PortThreads
    <2> QED BY <2>1
  <1>3. /\ \A p \in S : n[p] = Len(waitq[p])
        /\ \A p \in Queues \ S : n[p] = 0
    OBVIOUS
  <1> HIDE DEF n
  <1>4. PortThreads' /\ SomeWoken(ret) /\ \A p \in Queues \ S : waitq'[p] = waitq[p]
    BY <1>1, <1>2, <1>3, ThreadsWoken DEF SomeWoken
  <1>5. ASSUME NEW p \in S PROVE waitq'[p] = <<>>
    <2>1. p \in Queues /\ n[p] = Len(waitq[p])
      BY <1>3
    <2>2. Len(waitq'[p]) = Len(waitq[p]) - n[p]
      BY <1>1, <1>2, <2>1, ThreadsWoken
    <2>3. waitq[p] \in Seq(Readers) /\ waitq'[p] \in Seq(Readers)
      BY <1>4, <2>1 DEF PortThreads
    <2>4. Len(waitq'[p]) = 0
      BY <2>1, <2>2, <2>3
    <2> QED BY <2>3, <2>4
  <1>6. ASSUME NEW p \in S, NEW t \in Readers, reader[t].at = p, reader[t].blocked
        PROVE  ~reader'[t].blocked /\ reader'[t].ret = ret
    <2>1. t \in Range(waitq[p]) /\ waitq[p] \in Seq(Readers)
      BY <1>6 DEF PortThreads, ThreadsQueued
    <2>2. \E i \in 1 .. n[p] : waitq[p][i] = t
      BY <1>3, <2>1 DEF Range
    <2> QED BY <1>1, <1>2, <2>2, ThreadsWoken
  <1> QED BY <1>4, <1>5, <1>6

(* A thread leaves its call, having not waited. *)
LEMMA ThreadLeaves ==
  ASSUME PortThreads, NEW t \in Readers, ~reader[t].blocked,
         waitq' = waitq, reader' = [reader EXCEPT ![t].at = NULL]
  PROVE  PortThreads' /\ \A u \in Readers \ {t} : reader'[u] = reader[u]
  <1>1. reader[t] \in ReaderThread
    BY DEF PortThreads
  <1>2. /\ reader'[t] \in ReaderThread /\ ~reader'[t].blocked
        /\ \A u \in Readers \ {t} : reader'[u] = reader[u]
    BY <1>1 DEF PortThreads, ReaderThread
  <1>3. reader' \in [Readers -> ReaderThread]
    BY <1>2 DEF PortThreads
  <1>4. ThreadsQueued'
    BY <1>2 DEF PortThreads, ThreadsQueued
  <1> QED BY <1>2, <1>3, <1>4 DEF PortThreads

(* A thread that is not waiting joins queue q. *)
LEMMA ThreadJoins ==
  ASSUME PortThreads, NEW t \in Readers, ~reader[t].blocked, NEW q \in Queues, NULL \notin Queues,
         waitq' = [waitq EXCEPT ![q] = Append(@, t)],
         reader' = [reader EXCEPT ![t] = [at |-> q, blocked |-> TRUE, ret |-> "NO_ERROR"]]
  PROVE  /\ PortThreads'
         /\ \A u \in Readers \ {t} : reader'[u] = reader[u]
         /\ reader'[t] = [at |-> q, blocked |-> TRUE, ret |-> "NO_ERROR"]
         /\ \A p \in Queues \ {q} : waitq'[p] = waitq[p]
  <1>1. /\ waitq \in [Queues -> Seq(Readers)] /\ reader \in [Readers -> ReaderThread]
        /\ waitq[q] \in Seq(Readers) /\ Once(waitq[q]) /\ t \notin Range(waitq[q])
    BY DEF PortThreads, ThreadsQueued
  <1>2. /\ Append(waitq[q], t) \in Seq(Readers) /\ Once(Append(waitq[q], t))
        /\ Range(Append(waitq[q], t)) = Range(waitq[q]) \cup {t}
    BY <1>1, ListAppended
  <1>3. /\ waitq'[q] = Append(waitq[q], t)
        /\ \A p \in Queues \ {q} : waitq'[p] = waitq[p]
        /\ waitq' \in [Queues -> Seq(Readers)]
    BY <1>1, <1>2
  <1>4. /\ reader'[t] = [at |-> q, blocked |-> TRUE, ret |-> "NO_ERROR"]
        /\ \A u \in Readers \ {t} : reader'[u] = reader[u]
        /\ reader' \in [Readers -> ReaderThread]
    BY <1>1 DEF ReaderThread, WaitResults
  <1>5. \A p \in Queues : Once(waitq'[p])
    BY <1>2, <1>3 DEF PortThreads, ThreadsQueued
  <1>6. ASSUME NEW p \in Queues, NEW u \in Readers
        PROVE  u \in Range(waitq'[p]) <=> reader'[u].blocked /\ reader'[u].at = p
    <2>1. u \in Range(waitq[p]) <=> reader[u].blocked /\ reader[u].at = p
      BY DEF PortThreads, ThreadsQueued
    <2> QED BY <1>1, <1>2, <1>3, <1>4, <2>1
  <1>7. \A u \in Readers : reader'[u].blocked => reader'[u].at # NULL
    BY <1>4 DEF PortThreads, ThreadsQueued
  <1>8. ThreadsQueued'
    BY <1>5, <1>6, <1>7 DEF ThreadsQueued, Queues
  <1> QED BY <1>3, <1>4, <1>8 DEF PortThreads, Queues, ReaderThread

(* The wait of t ends after its timeout. *)
LEMMA ThreadTimesOut ==
  ASSUME PortThreads, NEW t \in Readers, reader[t].blocked, NULL \notin Queues,
         waitq' = [waitq EXCEPT ![reader[t].at] = Unlinked(@, t)],
         reader' = [reader EXCEPT ![t].blocked = FALSE, ![t].ret = "ERR_TIMED_OUT"]
  PROVE  /\ PortThreads'
         /\ \A u \in Readers \ {t} : reader'[u] = reader[u]
         /\ reader'[t].at = reader[t].at /\ ~reader'[t].blocked /\ reader'[t].ret = "ERR_TIMED_OUT"
         /\ \A p \in Queues : waitq'[p] # <<>> => waitq[p] # <<>>
  <1> DEFINE q == reader[t].at
  <1>1. /\ waitq \in [Queues -> Seq(Readers)] /\ reader \in [Readers -> ReaderThread]
        /\ reader[t] \in ReaderThread /\ q \in Queues /\ q # NULL
        /\ waitq[q] \in Seq(Readers) /\ Once(waitq[q])
    BY DEF PortThreads, ThreadsQueued, ReaderThread
  <1>2. /\ Unlinked(waitq[q], t) \in Seq(Readers) /\ Once(Unlinked(waitq[q], t))
        /\ Range(Unlinked(waitq[q], t)) = Range(waitq[q]) \ {t}
    BY <1>1, ListUnlinked
  <1>3. /\ waitq'[q] = Unlinked(waitq[q], t)
        /\ \A p \in Queues \ {q} : waitq'[p] = waitq[p]
        /\ waitq' \in [Queues -> Seq(Readers)]
    BY <1>1, <1>2
  <1>4. /\ reader'[t] \in ReaderThread
        /\ reader'[t].at = q /\ ~reader'[t].blocked /\ reader'[t].ret = "ERR_TIMED_OUT"
        /\ \A u \in Readers \ {t} : reader'[u] = reader[u]
    BY <1>1 DEF ReaderThread, WaitResults
  <1>5. reader' \in [Readers -> ReaderThread]
    BY <1>1, <1>4
  <1>6. \A p \in Queues : Once(waitq'[p])
    BY <1>2, <1>3 DEF PortThreads, ThreadsQueued
  <1>7. ASSUME NEW p \in Queues, NEW u \in Readers
        PROVE  u \in Range(waitq'[p]) <=> reader'[u].blocked /\ reader'[u].at = p
    <2>1. u \in Range(waitq[p]) <=> reader[u].blocked /\ reader[u].at = p
      BY DEF PortThreads, ThreadsQueued
    <2> QED BY <1>1, <1>2, <1>3, <1>4, <2>1
  <1>8. \A u \in Readers : reader'[u].blocked => reader'[u].at # NULL
    BY <1>1, <1>4 DEF PortThreads, ThreadsQueued
  <1>9. ThreadsQueued'
    BY <1>6, <1>7, <1>8 DEF ThreadsQueued, Queues
  <1>10. ASSUME NEW p \in Queues, waitq'[p] # <<>> PROVE waitq[p] # <<>>
    <2>1. CASE p = q
      <3>1. Range(waitq'[p]) \subseteq Range(waitq[p]) /\ waitq'[p] \in Seq(Readers) /\ waitq[p] \in Seq(Readers)
        BY <1>1, <1>2, <1>3, <2>1
      <3> QED BY <1>10, <3>1, EmptyQueue
    <2>2. CASE p # q
      BY <1>3, <1>10, <2>2
    <2> QED BY <2>1, <2>2
  <1> QED BY <1>3, <1>4, <1>5, <1>9, <1>10 DEF PortThreads, Queues, ReaderThread

LEMMA PortConstants ==
  /\ NULL \notin Queues /\ NULL \notin WPorts /\ NULL \notin RPorts /\ NULL \notin Seq(Nat)
  /\ Group \notin RPorts /\ Group \notin WPorts /\ RPorts \subseteq Queues /\ Group \in Queues
  /\ WPorts \cap RPorts = {} /\ BufSize \in Nat /\ Counts \subseteq Nat \ {0}
  BY PortAssumption DEF Queues

LEMMA PortRecords ==
  ASSUME PortTypeOK
  PROVE  /\ \A w \in WPorts : wp[w] \in WriteRecord /\ wp[w].readers \in Seq(RPorts)
         /\ \A r \in RPorts : rp[r] \in ReadRecord
         /\ pg.rp_list \in Seq(RPorts) /\ Range(pg.rp_list) \subseteq RPorts
         /\ Range(write_port_list) \subseteq WPorts
         /\ <<>> \in Seq(Nat) /\ <<>> \in Seq(RPorts) /\ <<>> # NULL
  <1>1. /\ \A w \in WPorts : wp[w] \in WriteRecord
        /\ \A r \in RPorts : rp[r] \in ReadRecord
        /\ pg.rp_list \in Seq(RPorts) /\ write_port_list \in Seq(WPorts)
    BY DEF PortTypeOK
  <1>2. \A w \in WPorts : wp[w].readers \in Seq(RPorts)
    BY <1>1 DEF WriteRecord
  <1>3. Range(pg.rp_list) \subseteq RPorts
    BY <1>1, EmptyList
  <1>4. Range(write_port_list) \subseteq WPorts
    BY <1>1, EmptyList
  <1>5. <<>> \in Seq(Nat) /\ <<>> \in Seq(RPorts)
    OBVIOUS
  <1>6. <<>> # NULL
    BY <1>5, PortConstants
  <1> QED BY <1>1, <1>2, <1>3, <1>4, <1>5, <1>6

LEMMA GroupedFinite ==
  ASSUME PortTypeOK, NEW w \in WPorts, NEW count, NEW i
  PROVE  /\ IsFiniteSet(Grouped(w, count, i))
         /\ Cardinality(Grouped(w, count, i)) \in Nat
         /\ IsFiniteSet(Takers(w, count))
  <1>1. wp[w].readers \in Seq(RPorts)
    BY PortRecords
  <1>2. IsFiniteSet(DOMAIN wp[w].readers)
    <2>1. Len(wp[w].readers) \in Nat /\ DOMAIN wp[w].readers = 1 .. Len(wp[w].readers)
      BY <1>1
    <2>2. IsFiniteSet(1 .. Len(wp[w].readers))
      BY <2>1, FS_Interval
    <2> QED BY <2>1, <2>2
  <1>3. Takers(w, count) \subseteq DOMAIN wp[w].readers /\ Grouped(w, count, i) \subseteq DOMAIN wp[w].readers
    BY DEF Takers, Grouped
  <1>4. IsFiniteSet(Grouped(w, count, i)) /\ IsFiniteSet(Takers(w, count))
    BY <1>2, <1>3, FS_Subset
  <1> QED BY <1>4, FS_CardinalityType

LEMMA WriteWakes ==
  ASSUME PortTypeOK, PortThreads, NEW w \in WPorts, NEW count,
         WakeFirst(WokenBy(w, count), "NO_ERROR")
  PROVE  /\ PortThreads' /\ SomeWoken("NO_ERROR")
         /\ \A q \in Queues : WokenBy(w, count)[q] \in 0 .. Len(waitq[q])
  <1> DEFINE n == WokenBy(w, count)
  <1>1. ASSUME NEW q \in Queues PROVE n[q] \in 0 .. Len(waitq[q])
    <2>1. Len(waitq[q]) \in Nat
      BY DEF PortThreads
    <2>2. CASE q = Group
      <3>1. n[q] = AtMost(Cardinality(Grouped(w, count, Len(wp[w].readers))), q)
        BY <2>2 DEF WokenBy
      <3> QED BY <3>1, AtMostInRange, GroupedFinite
    <2>3. CASE q # Group
      <3>1. n[q] = AtMost(1, q) \/ n[q] = 0
        BY <2>3 DEF WokenBy
      <3> QED BY <2>1, <3>1, AtMostInRange
    <2> QED BY <2>2, <2>3
  <1> HIDE DEF n
  <1>2. WakeFirst(n, "NO_ERROR") /\ "NO_ERROR" \in WaitResults
    BY DEF n, WaitResults
  <1>3. PortThreads' /\ SomeWoken("NO_ERROR")
    BY <1>1, <1>2, ThreadsWoken DEF SomeWoken
  <1> QED BY <1>1, <1>3 DEF n

(* Nothing changes for the threads. *)
LEMMA ThreadsKept ==
  ASSUME PortThreads, waitq' = waitq, reader' = reader
  PROVE  PortThreads' /\ \A ret : SomeWoken(ret)
  BY DEF PortThreads, ThreadsQueued, SomeWoken, Queues, ReaderThread

(* Nothing changes for the read ports and the group. *)
LEMMA GroupKept ==
  ASSUME GroupMembers, pg' = pg, closing' = closing, NEW S, Range(pg.rp_list) \subseteq S,
         \A r \in S : rp'[r].magic = rp[r].magic /\ rp'[r].gport = rp[r].gport
  PROVE  GroupMembers'
  BY DEF GroupMembers, BeingRead

-----------------------------------------------------------------------------
(* Every action keeps the ports together. *)

LEMMA WritePortKept ==
  ASSUME NEW v, WritePort(v), wp'[v] = wp[v], written'[v] = written[v], seen'[v] = seen[v],
         v \in Range(write_port_list') <=> v \in Range(write_port_list)
  PROVE  WritePort(v)'
  BY DEF WritePort

LEMMA CreateKeepsBase ==
  ASSUME PortBase, NEW w \in WPorts, NEW name \in Names, NEW unicast \in BOOLEAN,
         port_create(w, name, unicast)
  PROVE  PortBase'
  <1> DEFINE p == [magic |-> "alloc", name |-> name, unicast |-> unicast, buf |-> <<>>, readers |-> <<>>]
  <1>1. /\ wp[w].magic = "none" /\ wp' = [wp EXCEPT ![w] = p]
        /\ write_port_list' = write_port_list /\ rp' = rp /\ pg' = pg /\ waitq' = waitq
        /\ reader' = reader /\ closing' = closing /\ written' = written /\ refused' = refused
        /\ seen' = seen /\ misuse' = misuse
    BY DEF port_create, OfOthers
  <1>2. PortTypeOK /\ WritePorts /\ ReadPorts /\ GroupMembers /\ PortThreads
    BY DEF PortBase
  <1>3. p \in WriteRecord
    BY DEF WriteRecord
  <1>4. /\ wp'[w] = p /\ \A v \in WPorts \ {w} : wp'[v] = wp[v]
        /\ wp' \in [WPorts -> WriteRecord]
    BY <1>1, <1>2, <1>3 DEF PortTypeOK
  <1>5. PortTypeOK'
    BY <1>1, <1>2, <1>4 DEF PortTypeOK, WriteRecord, ReadRecord, Queues
  <1>6. /\ w \notin Range(write_port_list) /\ wp[w].readers = <<>>
        /\ written[w] = 0 /\ seen[w] = 0
    BY <1>1, <1>2 DEF WritePorts, WritePort
  <1>7. WritePort(w)'
    <2>1. /\ wp'[w].magic = "alloc" /\ wp'[w].name = name /\ wp'[w].buf = <<>>
          /\ wp'[w].readers = <<>> /\ Len(<<>>) = 0
      BY <1>4
    <2> QED BY <1>1, <1>2, <1>6, <2>1, PortRecords, NothingOnce DEF WritePort
  <1>8. WritePorts'
    <2>1. \A v \in WPorts : WritePort(v)'
      BY <1>1, <1>2, <1>4, <1>7, WritePortKept DEF WritePorts
    <2>2. \A v \in Range(write_port_list) : wp'[v] = wp[v]
      BY <1>2, <1>4, <1>6, PortRecords
    <2>3. WriteNames'
      BY <1>1, <1>2, <2>2 DEF WritePorts, WriteNames
    <2> QED BY <1>1, <1>2, <2>1, <2>3 DEF WritePorts
  <1>9. ReadPorts'
    <2>1. \A v \in WPorts : wp'[v].readers = wp[v].readers
      BY <1>4, <1>6
    <2> QED BY <1>1, <1>2, <2>1 DEF ReadPorts, BeingRead
  <1>10. GroupMembers' /\ PortThreads'
    BY <1>1, <1>2, ThreadsKept DEF GroupMembers, BeingRead
  <1> QED BY <1>5, <1>8, <1>9, <1>10 DEF PortBase
LEMMA InsertKeepsBase ==
  ASSUME PortBase, NEW w \in WPorts, port_create_inserts(w)
  PROVE  PortBase'
  <1>1. /\ wp[w].magic = "alloc" /\ wp' = [wp EXCEPT ![w].magic = "W"]
        /\ write_port_list' = Append(write_port_list, w)
        /\ misuse' = misuse \cup (IF Named(wp[w].name) # {} THEN {"same name"} ELSE {})
        /\ rp' = rp /\ pg' = pg /\ waitq' = waitq
        /\ reader' = reader /\ closing' = closing /\ written' = written /\ refused' = refused
        /\ seen' = seen
    BY DEF port_create_inserts, OfOthers
  <1>2. PortTypeOK /\ WritePorts /\ ReadPorts /\ GroupMembers /\ PortThreads
    BY DEF PortBase
  <1>3. wp[w] \in WriteRecord /\ write_port_list \in Seq(WPorts) /\ wp \in [WPorts -> WriteRecord]
    BY <1>2 DEF PortTypeOK
  <1>4. /\ wp'[w] \in WriteRecord /\ wp'[w].magic = "W" /\ wp'[w].name = wp[w].name
        /\ wp'[w].buf = wp[w].buf /\ wp'[w].readers = wp[w].readers
        /\ wp'[w].unicast = wp[w].unicast
        /\ \A v \in WPorts \ {w} : wp'[v] = wp[v]
    BY <1>1, <1>3 DEF WriteRecord
  <1>5. wp' \in [WPorts -> WriteRecord]
    BY <1>1, <1>3, <1>4
  <1>6. WritePort(w) /\ w \notin Range(write_port_list)
    BY <1>1, <1>2 DEF WritePorts, WritePort
  <1>7. /\ write_port_list' \in Seq(WPorts) /\ Once(write_port_list')
        /\ Range(write_port_list') = Range(write_port_list) \cup {w}
    <2>1. Once(write_port_list)
      BY <1>2 DEF WritePorts
    <2>2. PICK s \in Seq(WPorts) : s = write_port_list /\ Once(s) /\ w \notin Range(s)
      BY <1>3, <1>6, <2>1
    <2>3. /\ Append(s, w) \in Seq(WPorts) /\ Range(Append(s, w)) = Range(s) \cup {w}
          /\ Once(Append(s, w))
      BY <2>2, ListAppended
    <2> QED BY <1>1, <2>2, <2>3
  <1>8. PortTypeOK'
    BY <1>1, <1>2, <1>5, <1>7 DEF PortTypeOK, WriteRecord, ReadRecord, Queues
  <1>9. WritePort(w)'
    BY <1>1, <1>4, <1>6, <1>7 DEF WritePort
  <1>10. WritePorts'
    <2>1. \A v \in WPorts : WritePort(v)'
      BY <1>1, <1>2, <1>4, <1>7, <1>9, WritePortKept DEF WritePorts
    <2>2. Range(write_port_list) \subseteq WPorts /\ \A v \in WPorts : wp'[v].name = wp[v].name
      BY <1>2, <1>4, PortRecords
    <2>3. WriteNames'
      <3>1. CASE "same name" \in misuse \/ Named(wp[w].name) # {}
        BY <1>1, <3>1 DEF WriteNames
      <3>2. CASE "same name" \notin misuse /\ Named(wp[w].name) = {}
        <4>1. \A v \in Range(write_port_list) : wp[v].name # wp[w].name
          BY <3>2 DEF Named, Range
        <4>2. \A u, v \in Range(write_port_list) : wp[u].name = wp[v].name => u = v
          BY <1>2, <3>2 DEF WritePorts, WriteNames
        <4>3. \A u, v \in Range(write_port_list') : wp'[u].name = wp'[v].name => u = v
          BY <1>7, <2>2, <4>1, <4>2
        <4> QED BY <4>3 DEF WriteNames
      <3> QED BY <3>1, <3>2
    <2> QED BY <1>7, <2>1, <2>3 DEF WritePorts
  <1>11. ReadPorts'
    <2>1. \A v \in WPorts : wp'[v].readers = wp[v].readers
      BY <1>4
    <2> QED BY <1>1, <1>2, <2>1 DEF ReadPorts, BeingRead
  <1>12. GroupMembers' /\ PortThreads'
    BY <1>1, <1>2, ThreadsKept DEF GroupMembers, BeingRead
  <1> QED BY <1>8, <1>10, <1>11, <1>12 DEF PortBase

LEMMA CloseWriteKeepsBase ==
  ASSUME PortBase, NEW w \in WPorts, close_write(w)
  PROVE  PortBase'
  <1>1. /\ wp[w].magic = "W" /\ wp' = [wp EXCEPT ![w].magic = "X"]
        /\ write_port_list' = write_port_list /\ misuse' = misuse
        /\ rp' = rp /\ pg' = pg /\ waitq' = waitq
        /\ reader' = reader /\ closing' = closing /\ written' = written /\ refused' = refused
        /\ seen' = seen
    BY DEF close_write, OfOthers
  <1>2. PortTypeOK /\ WritePorts /\ ReadPorts /\ GroupMembers /\ PortThreads
    BY DEF PortBase
  <1>3. wp[w] \in WriteRecord /\ wp \in [WPorts -> WriteRecord]
    BY <1>2 DEF PortTypeOK
  <1>4. /\ wp'[w] \in WriteRecord /\ wp'[w].magic = "X" /\ wp'[w].name = wp[w].name
        /\ wp'[w].buf = wp[w].buf /\ wp'[w].readers = wp[w].readers
        /\ wp'[w].unicast = wp[w].unicast
        /\ \A v \in WPorts \ {w} : wp'[v] = wp[v]
    BY <1>1, <1>3 DEF WriteRecord
  <1>5. wp' \in [WPorts -> WriteRecord]
    BY <1>1, <1>3, <1>4
  <1>6. PortTypeOK'
    BY <1>1, <1>2, <1>5 DEF PortTypeOK, WriteRecord, ReadRecord, Queues
  <1>7. WritePorts'
    <2>1. WritePort(w)'
      BY <1>1, <1>2, <1>4 DEF WritePorts, WritePort
    <2>2. \A v \in WPorts : WritePort(v)'
      BY <1>1, <1>2, <1>4, <2>1, WritePortKept DEF WritePorts
    <2>3. Range(write_port_list) \subseteq WPorts /\ \A v \in WPorts : wp'[v].name = wp[v].name
      BY <1>2, <1>4, PortRecords
    <2>4. WriteNames'
      BY <1>1, <1>2, <2>3 DEF WritePorts, WriteNames
    <2> QED BY <1>1, <1>2, <2>2, <2>4 DEF WritePorts
  <1>8. ReadPorts'
    <2>1. \A v \in WPorts : wp'[v].readers = wp[v].readers
      BY <1>4
    <2> QED BY <1>1, <1>2, <2>1 DEF ReadPorts, BeingRead
  <1>9. GroupMembers' /\ PortThreads'
    BY <1>1, <1>2, ThreadsKept DEF GroupMembers, BeingRead
  <1> QED BY <1>6, <1>7, <1>8, <1>9 DEF PortBase

(* The write port that port_open finds. *)
FoundPort(name) == write_port_list[CHOOSE i \in Named(name) : \A j \in Named(name) : i <= j]

LEMMA OpenFinds ==
  ASSUME PortTypeOK, WritePorts, NEW name \in Names, Named(name) # {}
  PROVE  /\ FoundPort(name) \in WPorts
         /\ wp[FoundPort(name)].magic \in {"W", "X"}
  <1>1. write_port_list \in Seq(WPorts)
    BY DEF PortTypeOK
  <1>2. Named(name) \in SUBSET Nat
    BY <1>1 DEF Named
  <1>3. PICK i \in Named(name) : \A j \in Named(name) : i <= j
    BY <1>2, Least
  <1>4. (CHOOSE k \in Named(name) : \A j \in Named(name) : k <= j) \in DOMAIN write_port_list
    BY <1>3 DEF Named
  <1>5. FoundPort(name) \in Range(write_port_list)
    BY <1>4 DEF FoundPort, Range
  <1>6. FoundPort(name) \in WPorts
    BY <1>5, PortRecords
  <1> QED BY <1>5, <1>6 DEF WritePorts, WritePort

LEMMA OpenKeepsBase ==
  ASSUME PortBase, NEW r \in RPorts, NEW name \in Names, Open(r, name)
  PROVE  PortBase'
  <1>0. PICK w : w = FoundPort(name)
    OBVIOUS
  <1> DEFINE b == IF wp[w].buf # NULL THEN wp[w].buf ELSE <<>>
             p == [magic |-> "R", buf |-> b, wport |-> w, gport |-> FALSE]
  <1>1. /\ rp[r].magic = "none" /\ closing = NULL
        /\ wp[w].buf # NULL \/ ~wp[w].unicast
        /\ rp' = [rp EXCEPT ![r] = p]
        /\ wp' = [wp EXCEPT ![w].buf = NULL, ![w].readers = Append(@, r)]
        /\ seen' = [seen EXCEPT ![r] = IF wp[w].buf # NULL THEN seen[w] ELSE written[w]]
        /\ write_port_list' = write_port_list /\ misuse' = misuse
        /\ pg' = pg /\ waitq' = waitq /\ reader' = reader /\ closing' = closing
        /\ written' = written /\ refused' = refused
        /\ Named(name) # {}
    BY <1>0 DEF Open, port_open, FoundPort, Admin
  <1>2. PortTypeOK /\ WritePorts /\ ReadPorts /\ GroupMembers /\ PortThreads
    BY DEF PortBase
  <1>3. w \in WPorts /\ wp[w].magic \in {"W", "X"}
    BY <1>0, <1>1, <1>2, OpenFinds
  <1>4. /\ wp[w] \in WriteRecord /\ wp \in [WPorts -> WriteRecord] /\ rp \in [RPorts -> ReadRecord]
        /\ wp[w].readers \in Seq(RPorts) /\ wp[w].buf \in Seq(Nat) \cup {NULL}
        /\ seen \in [WPorts \cup RPorts -> Nat] /\ written[w] \in Nat /\ seen[w] \in Nat
    <2>1. /\ wp[w] \in WriteRecord /\ wp \in [WPorts -> WriteRecord] /\ rp \in [RPorts -> ReadRecord]
          /\ seen \in [WPorts \cup RPorts -> Nat] /\ written[w] \in Nat /\ seen[w] \in Nat
      BY <1>2, <1>3 DEF PortTypeOK
    <2>2. wp[w].readers \in Seq(RPorts) /\ wp[w].buf \in Seq(Nat) \cup {NULL}
      BY <2>1 DEF WriteRecord
    <2> QED BY <2>1, <2>2
  <1>5. b \in Seq(Nat) /\ b # NULL
    <2>1. NULL \notin Seq(Nat)
      BY PortConstants
    <2>2. CASE wp[w].buf = NULL
      <3>1. b = <<>>
        BY <2>2
      <3>2. <<>> \in Seq(Nat)
        OBVIOUS
      <3> HIDE DEF b
      <3> QED BY <2>1, <3>1, <3>2
    <2>3. CASE wp[w].buf # NULL
      <3>1. b = wp[w].buf
        BY <2>3
      <3> QED BY <1>4, <2>1, <2>3, <3>1
    <2> QED BY <2>2, <2>3
  <1> HIDE DEF b
  <1>6. /\ rp'[r] = p /\ p \in ReadRecord /\ rp' \in [RPorts -> ReadRecord]
        /\ \A q \in RPorts \ {r} : rp'[q] = rp[q]
    BY <1>1, <1>3, <1>4, <1>5 DEF ReadRecord
  <1>7. /\ \A v \in WPorts : r \notin Range(wp[v].readers)
        /\ r \notin Range(pg.rp_list)
        /\ WritePort(w)
    BY <1>1, <1>2, <1>3 DEF ReadPorts, GroupMembers, BeingRead, WritePorts
  <1>8. /\ Append(wp[w].readers, r) \in Seq(RPorts) /\ Append(wp[w].readers, r) # <<>>
        /\ Range(Append(wp[w].readers, r)) = Range(wp[w].readers) \cup {r}
        /\ Len(Append(wp[w].readers, r)) = Len(wp[w].readers) + 1
        /\ Once(Append(wp[w].readers, r))
    <2>1. Once(wp[w].readers) /\ r \notin Range(wp[w].readers)
      BY <1>3, <1>7 DEF WritePort
    <2>2. ASSUME NEW s \in Seq(RPorts), Once(s), r \notin Range(s)
          PROVE  /\ Append(s, r) \in Seq(RPorts) /\ Append(s, r) # <<>>
                 /\ Range(Append(s, r)) = Range(s) \cup {r}
                 /\ Len(Append(s, r)) = Len(s) + 1
                 /\ Once(Append(s, r))
      BY <2>2, ListAppended
    <2> QED BY <1>4, <2>1, <2>2
  <1>9. /\ wp'[w] \in WriteRecord /\ wp'[w].magic = wp[w].magic /\ wp'[w].name = wp[w].name
        /\ wp'[w].buf = NULL /\ wp'[w].readers = Append(wp[w].readers, r)
        /\ wp'[w].unicast = wp[w].unicast
        /\ \A v \in WPorts \ {w} : wp'[v] = wp[v]
    BY <1>1, <1>3, <1>4, <1>8 DEF WriteRecord
  <1>10. wp' \in [WPorts -> WriteRecord]
    BY <1>1, <1>3, <1>4, <1>9
  <1>11. seen' \in [WPorts \cup RPorts -> Nat] /\ \A v \in WPorts : seen'[v] = seen[v]
    BY <1>1, <1>3, <1>4, PortConstants
  <1>12. PortTypeOK'
    BY <1>1, <1>2, <1>6, <1>10, <1>11 DEF PortTypeOK, WriteRecord, ReadRecord, Queues
  <1>13. WritePort(w)'
    <2>1. wp[w].unicast => Len(Append(wp[w].readers, r)) <= 1
      <3>1. wp[w].unicast => wp[w].readers = <<>>
        BY <1>1, <1>3, <1>7 DEF WritePort
      <3>2. Len(<<>>) = 0
        OBVIOUS
      <3>3. ASSUME wp[w].readers = <<>> PROVE Len(Append(wp[w].readers, r)) = 1
        BY <1>8, <3>2, <3>3
      <3> QED BY <3>1, <3>3
    <2>2. /\ w \in Range(write_port_list') <=> wp'[w].magic \in {"W", "X"}
          /\ wp'[w].name \in Names /\ wp'[w].magic \notin {"alloc", "none", "gone"}
      BY <1>1, <1>3, <1>7, <1>9 DEF WritePort
    <2> QED BY <1>8, <1>9, <2>1, <2>2 DEF WritePort
  <1>14. WritePorts'
    <2>1. \A v \in WPorts : WritePort(v)'
      BY <1>1, <1>2, <1>9, <1>11, <1>13, WritePortKept DEF WritePorts
    <2>2. Range(write_port_list) \subseteq WPorts /\ \A v \in WPorts : wp'[v].name = wp[v].name
      BY <1>2, <1>9, PortRecords
    <2>3. WriteNames'
      BY <1>1, <1>2, <2>2 DEF WritePorts, WriteNames
    <2> QED BY <1>1, <1>2, <2>1, <2>3 DEF WritePorts
  <1>15. ReadPorts'
    <2>1. ASSUME NEW q \in RPorts, NEW v \in WPorts
          PROVE  q \in Range(wp'[v].readers) <=> rp'[q].magic = "R" /\ closing' # q /\ rp'[q].wport = v
      <3>1. q \in Range(wp[v].readers) <=> rp[q].magic = "R" /\ closing # q /\ rp[q].wport = v
        BY <1>2 DEF ReadPorts, BeingRead
      <3>2. NULL # r
        BY PortConstants
      <3>3. CASE q = r
        <4>1. rp'[q].magic = "R" /\ closing' # q /\ rp'[q].wport = w
          BY <1>1, <1>6, <3>2, <3>3
        <4> QED BY <1>7, <1>8, <1>9, <3>3, <4>1
      <3>4. CASE q # r
        <4>1. q \in Range(wp'[v].readers) <=> q \in Range(wp[v].readers)
          BY <1>8, <1>9, <3>4
        <4> QED BY <1>1, <1>6, <3>1, <3>4, <4>1
      <3> QED BY <3>3, <3>4
    <2>2. ASSUME NEW q \in RPorts
          PROVE  /\ rp'[q].magic = "R" /\ closing' # q => rp'[q].buf # NULL
                 /\ rp'[q].magic # "R" => rp'[q].gport = FALSE
      BY <1>1, <1>2, <1>5, <1>6 DEF ReadPorts, BeingRead
    <2> QED BY <1>1, <2>1, <2>2, PortConstants DEF ReadPorts, BeingRead
  <1>16. GroupMembers'
    <2>1. \A q \in Range(pg.rp_list) : rp'[q] = rp[q]
      BY <1>2, <1>6, <1>7, PortRecords
    <2> QED BY <1>1, <1>2, <2>1 DEF GroupMembers, BeingRead
  <1>17. PortThreads'
    BY <1>1, <1>2, ThreadsKept
  <1> QED BY <1>12, <1>14, <1>15, <1>16, <1>17 DEF PortBase

LEMMA TimeoutKeepsBase ==
  ASSUME PortBase, NEW t \in Readers, read_timeout(t)
  PROVE  PortBase'
  <1>1. PortTypeOK /\ WritePorts /\ ReadPorts /\ GroupMembers /\ PortThreads
    BY DEF PortBase
  <1>2. PortThreads'
    BY <1>1, ThreadTimesOut, PortConstants DEF read_timeout
  <1>3. /\ write_port_list' = write_port_list /\ wp' = wp /\ rp' = rp /\ pg' = pg
        /\ closing' = closing /\ fault' = fault /\ misuse' = misuse
        /\ written' = written /\ refused' = refused /\ seen' = seen
    BY DEF read_timeout, OfOthers
  <1>4. PortTypeOK'
    BY <1>1, <1>3 DEF PortTypeOK
  <1>5. WritePorts'
    BY <1>1, <1>3 DEF WritePorts, WritePort, WriteNames
  <1>6. ReadPorts' /\ GroupMembers'
    BY <1>1, <1>3 DEF ReadPorts, BeingRead, GroupMembers
  <1> QED BY <1>2, <1>4, <1>5, <1>6 DEF PortBase

(* Nothing changes for the write ports. *)
LEMMA WriteSideKept ==
  ASSUME WritePorts, write_port_list' = write_port_list, wp' = wp, written' = written,
         \A w \in WPorts : seen'[w] = seen[w], misuse \subseteq misuse'
  PROVE  WritePorts'
  <1>1. \A w \in WPorts : WritePort(w)'
    BY WritePortKept DEF WritePorts
  <1> QED BY <1>1 DEF WritePorts, WriteNames

(* No read port is opened or closed. *)
LEMMA ReadSideKept ==
  ASSUME ReadPorts, \A w \in WPorts : wp'[w].readers = wp[w].readers,
         \A r \in RPorts : /\ rp'[r].magic = rp[r].magic /\ rp'[r].wport = rp[r].wport
                           /\ rp[r].magic # "R" => rp'[r].gport = rp[r].gport
                           /\ BeingRead(r) => rp'[r].buf # NULL,
         closing' = closing, closing = Group => pg'.magic = "G"
  PROVE  ReadPorts'
  <1>1. ASSUME NEW r \in RPorts, NEW w \in WPorts
        PROVE  r \in Range(wp'[w].readers) <=> rp'[r].magic = "R" /\ closing' # r /\ rp'[r].wport = w
    BY DEF ReadPorts, BeingRead
  <1>2. ASSUME NEW r \in RPorts
        PROVE  /\ rp'[r].magic = "R" /\ closing' # r => rp'[r].buf # NULL
               /\ rp'[r].magic # "R" => rp'[r].gport = FALSE
    BY DEF ReadPorts, BeingRead
  <1>3. closing' \in RPorts => rp'[closing'].magic = "R"
    BY DEF ReadPorts
  <1> QED BY <1>1, <1>2, <1>3 DEF ReadPorts, BeingRead

LEMMA PortListOnce ==
  ASSUME NEW s \in PortLists
  PROVE  s \in Seq(RPorts) /\ Once(s) /\ Range(s) \subseteq RPorts
  <1>1. CASE s = <<>>
    <2>1. s \in Seq(RPorts)
      BY <1>1
    <2> QED BY <1>1, <2>1, NothingOnce, EmptyList
  <1>2. ASSUME NEW r \in RPorts, s = <<r>> PROVE s \in Seq(RPorts) /\ Once(s)
    <2>1. s \in Seq(RPorts) /\ DOMAIN s = {1}
      BY <1>2
    <2> QED BY <2>1 DEF Once
  <1>3. ASSUME NEW r \in RPorts, NEW q \in RPorts, s = <<r, q>>, r # q PROVE s \in Seq(RPorts) /\ Once(s)
    <2>1. s \in Seq(RPorts) /\ DOMAIN s = {1, 2} /\ s[1] = r /\ s[2] = q
      BY <1>3
    <2> QED BY <1>3, <2>1 DEF Once
  <1>4. s \in Seq(RPorts) /\ Once(s)
    BY <1>1, <1>2, <1>3, NothingOnce DEF PortLists
  <1> QED BY <1>4, EmptyList

LEMMA GroupKeepsBase ==
  ASSUME PortBase, NEW s \in PortLists, port_group(s)
  PROVE  PortBase'
  <1>1. /\ pg.magic = "none" /\ closing = NULL
        /\ \A r \in Range(s) : rp[r].magic = "R" /\ ~rp[r].gport
        /\ pg' = [magic |-> "G", rp_list |-> s]
        /\ rp' = [r \in RPorts |-> IF r \in Range(s) THEN [rp[r] EXCEPT !.gport = TRUE] ELSE rp[r]]
        /\ misuse \subseteq misuse'
        /\ write_port_list' = write_port_list /\ wp' = wp /\ waitq' = waitq /\ reader' = reader
        /\ closing' = closing /\ written' = written /\ refused' = refused /\ seen' = seen
    BY DEF port_group, OfOthers, Admin
  <1>2. PortTypeOK /\ WritePorts /\ ReadPorts /\ GroupMembers /\ PortThreads
    BY DEF PortBase
  <1>3. s \in Seq(RPorts) /\ Once(s) /\ Range(s) \subseteq RPorts
    BY PortListOnce
  <1>4. ASSUME NEW r \in RPorts
        PROVE  /\ rp'[r] \in ReadRecord
               /\ rp'[r].magic = rp[r].magic /\ rp'[r].wport = rp[r].wport /\ rp'[r].buf = rp[r].buf
               /\ r \in Range(s) => rp'[r].gport
               /\ r \notin Range(s) => rp'[r] = rp[r]
    <2>1. rp[r] \in ReadRecord
      BY <1>2, PortRecords
    <2>2. rp'[r] = IF r \in Range(s) THEN [rp[r] EXCEPT !.gport = TRUE] ELSE rp[r]
      BY <1>1
    <2> QED BY <2>1, <2>2 DEF ReadRecord
  <1>5. rp' \in [RPorts -> ReadRecord]
    <2>1. rp' = [r \in RPorts |-> rp'[r]]
      BY <1>1
    <2> QED BY <1>4, <2>1
  <1>6. PortTypeOK'
    BY <1>1, <1>2, <1>3, <1>5 DEF PortTypeOK, WriteRecord, ReadRecord, Queues
  <1>7. WritePorts' /\ PortThreads'
    BY <1>1, <1>2, WriteSideKept, ThreadsKept
  <1>8. ReadPorts'
    <2>1. \A r \in RPorts : BeingRead(r) => rp'[r].buf # NULL
      BY <1>2, <1>4 DEF ReadPorts
    <2>2. \A r \in RPorts : rp[r].magic # "R" => rp'[r].gport = rp[r].gport
      BY <1>1, <1>4
    <2>3. closing # Group
      BY <1>1, PortConstants
    <2> QED BY <1>1, <1>2, <1>4, <2>1, <2>2, <2>3, ReadSideKept
  <1>9. GroupMembers'
    <2>1. \A r \in Range(s) : rp'[r].magic = "R" /\ rp'[r].gport /\ closing' # r
      BY <1>1, <1>3, <1>4, PortConstants
    <2> QED BY <1>1, <1>3, <2>1 DEF GroupMembers, BeingRead
  <1> QED BY <1>6, <1>7, <1>8, <1>9 DEF PortBase

LEMMA GroupAddKeepsBase ==
  ASSUME PortBase, NEW r \in RPorts, port_group_add(r)
  PROVE  PortBase' /\ SomeWoken("NO_ERROR")
  <1>1. /\ pg.magic = "G" /\ closing = NULL /\ rp[r].magic = "R" /\ ~rp[r].gport
        /\ pg' = [pg EXCEPT !.rp_list = Append(@, r)]
        /\ rp' = [rp EXCEPT ![r].gport = TRUE]
        /\ misuse \subseteq misuse'
        /\ write_port_list' = write_port_list /\ wp' = wp
        /\ closing' = closing /\ written' = written /\ refused' = refused /\ seen' = seen
        /\ wake_one(Group, "NO_ERROR") \/ (waitq' = waitq /\ reader' = reader)
    BY DEF port_group_add, OfOthers, Admin
  <1>2. PortTypeOK /\ WritePorts /\ ReadPorts /\ GroupMembers /\ PortThreads
    BY DEF PortBase
  <1>3. PortThreads' /\ SomeWoken("NO_ERROR")
    <2>1. "NO_ERROR" \in WaitResults /\ Group \in Queues
      BY PortConstants DEF WaitResults
    <2>2. CASE wake_one(Group, "NO_ERROR")
      BY <1>2, <2>1, <2>2, OneWoken
    <2>3. CASE waitq' = waitq /\ reader' = reader
      BY <1>2, <2>3, ThreadsKept
    <2> QED BY <1>1, <2>2, <2>3
  <1>4. rp[r] \in ReadRecord /\ rp \in [RPorts -> ReadRecord]
    BY <1>2 DEF PortTypeOK
  <1>5. /\ rp'[r] \in ReadRecord
        /\ rp'[r].magic = rp[r].magic /\ rp'[r].wport = rp[r].wport /\ rp'[r].buf = rp[r].buf
        /\ rp'[r].gport = TRUE
        /\ \A q \in RPorts \ {r} : rp'[q] = rp[q]
    BY <1>1, <1>4 DEF ReadRecord
  <1>6. rp' \in [RPorts -> ReadRecord]
    BY <1>1, <1>4, <1>5
  <1>7. pg.rp_list \in Seq(RPorts) /\ Once(pg.rp_list) /\ r \notin Range(pg.rp_list)
        /\ pg \in [magic : {"none", "G", "gone"}, rp_list : Seq(RPorts)]
    BY <1>1, <1>2 DEF PortTypeOK, GroupMembers
  <1>8. ASSUME NEW s \in Seq(RPorts), Once(s), r \notin Range(s)
        PROVE  /\ Append(s, r) \in Seq(RPorts) /\ Once(Append(s, r))
               /\ Range(Append(s, r)) = Range(s) \cup {r}
    BY <1>8, ListAppended
  <1>9. /\ pg' \in [magic : {"none", "G", "gone"}, rp_list : Seq(RPorts)]
        /\ pg'.magic = "G" /\ Once(pg'.rp_list)
        /\ Range(pg'.rp_list) = Range(pg.rp_list) \cup {r}
    <2>1. pg'.rp_list = Append(pg.rp_list, r) /\ pg'.magic = "G" /\ pg' = [magic |-> "G", rp_list |-> Append(pg.rp_list, r)]
      BY <1>1, <1>7
    <2>2. Append(pg.rp_list, r) \in Seq(RPorts)
      BY <1>7, <1>8
    <2> QED BY <1>7, <1>8, <2>1, <2>2
  <1>10. PortTypeOK'
    BY <1>1, <1>2, <1>6, <1>9 DEF PortTypeOK, WriteRecord, ReadRecord, Queues
  <1>11. WritePorts'
    BY <1>1, <1>2, WriteSideKept
  <1>12. ReadPorts'
    <2>1. \A q \in RPorts : BeingRead(q) => rp'[q].buf # NULL
      BY <1>2, <1>5 DEF ReadPorts
    <2> QED BY <1>1, <1>2, <1>5, <1>9, <2>1, ReadSideKept
  <1>13. GroupMembers'
    <2>1. \A q \in Range(pg.rp_list) : q \in RPorts /\ rp[q].magic = "R" /\ rp[q].gport
      BY <1>2, PortRecords DEF GroupMembers, BeingRead
    <2>2. \A q \in Range(pg'.rp_list) : rp'[q].magic = "R" /\ rp'[q].gport /\ closing' # q
      BY <1>1, <1>5, <1>9, <2>1, PortConstants
    <2> QED BY <1>9, <2>2 DEF GroupMembers, BeingRead
  <1> QED BY <1>3, <1>10, <1>11, <1>12, <1>13 DEF PortBase

LEMMA GroupRemoveKeepsBase ==
  ASSUME PortBase, NEW r \in RPorts, port_group_remove(r)
  PROVE  PortBase'
  <1>1. /\ pg.magic = "G" /\ closing = NULL /\ rp[r].magic = "R"
        /\ pg' = [pg EXCEPT !.rp_list = Unlinked(@, r)] \/ pg' = pg
        /\ rp' = rp /\ misuse \subseteq misuse'
        /\ write_port_list' = write_port_list /\ wp' = wp
        /\ closing' = closing /\ written' = written /\ refused' = refused /\ seen' = seen
        /\ waitq' = waitq /\ reader' = reader
    BY DEF port_group_remove, OfOthers, Admin
  <1>2. PortTypeOK /\ WritePorts /\ ReadPorts /\ GroupMembers /\ PortThreads
    BY DEF PortBase
  <1>3. /\ pg.rp_list \in Seq(RPorts) /\ Once(pg.rp_list)
        /\ pg \in [magic : {"none", "G", "gone"}, rp_list : Seq(RPorts)]
    BY <1>2 DEF PortTypeOK, GroupMembers
  <1>4. /\ Unlinked(pg.rp_list, r) \in Seq(RPorts) /\ Once(Unlinked(pg.rp_list, r))
        /\ Range(Unlinked(pg.rp_list, r)) = Range(pg.rp_list) \ {r}
    BY <1>3, ListUnlinked
  <1>5. /\ pg' \in [magic : {"none", "G", "gone"}, rp_list : Seq(RPorts)]
        /\ pg'.magic = "G" /\ Once(pg'.rp_list) /\ Range(pg'.rp_list) \subseteq Range(pg.rp_list)
    <2>1. CASE pg' = pg
      BY <1>1, <1>3, <2>1
    <2>2. CASE pg' = [pg EXCEPT !.rp_list = Unlinked(@, r)]
      <3>1. pg'.rp_list = Unlinked(pg.rp_list, r) /\ pg'.magic = "G" /\ pg' = [magic |-> "G", rp_list |-> Unlinked(pg.rp_list, r)]
        BY <1>1, <1>3, <2>2
      <3> QED BY <1>4, <3>1
    <2> QED BY <1>1, <2>1, <2>2
  <1>6. PortTypeOK'
    BY <1>1, <1>2, <1>5 DEF PortTypeOK, WriteRecord, ReadRecord, Queues
  <1>7. WritePorts' /\ PortThreads'
    BY <1>1, <1>2, WriteSideKept, ThreadsKept
  <1>8. ReadPorts'
    BY <1>1, <1>2, <1>5, ReadSideKept DEF ReadPorts
  <1>9. GroupMembers'
    BY <1>1, <1>2, <1>5 DEF GroupMembers, BeingRead
  <1> QED BY <1>6, <1>7, <1>8, <1>9 DEF PortBase

LEMMA CloseGroupKeepsBase ==
  ASSUME PortBase, close_group
  PROVE  /\ PortBase' /\ SomeWoken("ERR_OBJECT_DESTROYED") /\ waitq'[Group] = <<>>
         /\ \A t \in Readers : reader[t].at = Group /\ reader[t].blocked =>
                                 ~reader'[t].blocked /\ reader'[t].ret = "ERR_OBJECT_DESTROYED"
  <1>1. /\ pg.magic = "G" /\ closing = NULL /\ closing' = Group
        /\ rp' = rp /\ pg' = pg /\ misuse \subseteq misuse'
        /\ write_port_list' = write_port_list /\ wp' = wp
        /\ written' = written /\ refused' = refused /\ seen' = seen
        /\ wake_all({Group}, "ERR_OBJECT_DESTROYED")
    BY DEF close_group, OfOthers, Admin
  <1>2. PortTypeOK /\ WritePorts /\ ReadPorts /\ GroupMembers /\ PortThreads
    BY DEF PortBase
  <1>3. /\ PortThreads' /\ SomeWoken("ERR_OBJECT_DESTROYED") /\ waitq'[Group] = <<>>
        /\ \A t \in Readers : reader[t].at = Group /\ reader[t].blocked =>
                                 ~reader'[t].blocked /\ reader'[t].ret = "ERR_OBJECT_DESTROYED"
    <2>1. {Group} \in SUBSET Queues /\ "ERR_OBJECT_DESTROYED" \in WaitResults
      BY PortConstants DEF WaitResults
    <2> QED BY <1>1, <1>2, <2>1, AllWoken
  <1>4. PortTypeOK'
    BY <1>1, <1>2 DEF PortTypeOK, WriteRecord, ReadRecord, Queues
  <1>5. WritePorts'
    BY <1>1, <1>2, WriteSideKept
  <1>6. \A r \in RPorts : closing # r /\ closing' # r
    BY <1>1, PortConstants
  <1>7. ReadPorts'
    BY <1>1, <1>2, <1>6, PortConstants DEF ReadPorts, BeingRead
  <1>8. GroupMembers'
    BY <1>1, <1>2, <1>6, PortRecords DEF GroupMembers, BeingRead
  <1> QED BY <1>3, <1>4, <1>5, <1>7, <1>8 DEF PortBase
(* The port that a pass over q takes a packet from. *)
TakenFrom(q) == Sources(q)[CHOOSE i \in Ready(q) : \A j \in Ready(q) : i <= j]

LEMMA TakesFrom ==
  ASSUME PortBase, NEW q \in Queues, q = Group \/ rp[q].buf # NULL, Ready(q) # {}
  PROVE  /\ TakenFrom(q) \in RPorts /\ TakenFrom(q) \in Range(Sources(q))
         /\ rp[TakenFrom(q)].buf \in Seq(Nat) /\ rp[TakenFrom(q)].buf # <<>>
         /\ q # Group => TakenFrom(q) = q
         /\ q = Group => BeingRead(TakenFrom(q)) /\ rp[TakenFrom(q)].gport
  <1>0. PortTypeOK /\ ReadPorts /\ GroupMembers
    BY DEF PortBase
  <1>1. Sources(q) \in Seq(RPorts) /\ (q # Group => q \in RPorts /\ Sources(q) = <<q>>)
    <2>1. CASE q = Group
      BY <1>0, <2>1, PortRecords DEF Sources
    <2>2. CASE q # Group
      BY <2>2 DEF Sources, Queues
    <2> QED BY <2>1, <2>2
  <1>2. Ready(q) \in SUBSET Nat
    BY <1>1 DEF Ready
  <1>3. PICK i \in Ready(q) : \A j \in Ready(q) : i <= j
    BY <1>2, Least
  <1>4. PICK k \in Ready(q) : TakenFrom(q) = Sources(q)[k]
    BY <1>3 DEF TakenFrom
  <1>5. k \in DOMAIN Sources(q) /\ rp[TakenFrom(q)].buf # <<>>
    BY <1>4 DEF Ready
  <1>6. TakenFrom(q) \in Range(Sources(q)) /\ TakenFrom(q) \in RPorts
    BY <1>1, <1>4, <1>5 DEF Range
  <1>7. q # Group => TakenFrom(q) = q
    BY <1>1, <1>4, <1>5
  <1>8. q = Group => BeingRead(TakenFrom(q)) /\ rp[TakenFrom(q)].gport
    BY <1>0, <1>6 DEF GroupMembers, Sources
  <1>9. rp[TakenFrom(q)].buf # NULL
    BY <1>0, <1>6, <1>7, <1>8 DEF ReadPorts
  <1>10. rp[TakenFrom(q)] \in ReadRecord
    BY <1>0, <1>6, PortRecords
  <1>11. rp[TakenFrom(q)].buf \in Seq(Nat)
    BY <1>9, <1>10 DEF ReadRecord
  <1> QED BY <1>5, <1>6, <1>7, <1>8, <1>11

(* What a packet leaves when it is taken from r. *)
LEMMA PacketTaken ==
  ASSUME PortBase, NEW r \in RPorts, rp[r].buf \in Seq(Nat), rp[r].buf # <<>>,
         rp' = [rp EXCEPT ![r].buf = Tail(@)],
         seen' = [seen EXCEPT ![r] = Head(rp[r].buf)]
  PROVE  /\ rp' \in [RPorts -> ReadRecord] /\ seen' \in [WPorts \cup RPorts -> Nat]
         /\ rp'[r].buf = Tail(rp[r].buf) /\ rp'[r].buf \in Seq(Nat) /\ rp'[r].buf # NULL
         /\ seen'[r] = Head(rp[r].buf)
         /\ \A q \in RPorts : /\ rp'[q].magic = rp[q].magic /\ rp'[q].wport = rp[q].wport
                              /\ rp'[q].gport = rp[q].gport
                              /\ q # r => rp'[q] = rp[q] /\ seen'[q] = seen[q]
         /\ \A w \in WPorts : seen'[w] = seen[w]
  <1>1. /\ rp \in [RPorts -> ReadRecord] /\ seen \in [WPorts \cup RPorts -> Nat] /\ rp[r] \in ReadRecord
    BY DEF PortBase, PortTypeOK
  <1>2. Tail(rp[r].buf) \in Seq(Nat) /\ Head(rp[r].buf) \in Nat
    OBVIOUS
  <1>3. rp'[r] = [rp[r] EXCEPT !.buf = Tail(rp[r].buf)] /\ \A q \in RPorts \ {r} : rp'[q] = rp[q]
    BY <1>1
  <1>4. /\ rp'[r].buf = Tail(rp[r].buf) /\ rp'[r].magic = rp[r].magic /\ rp'[r].wport = rp[r].wport
        /\ rp'[r].gport = rp[r].gport /\ rp'[r] \in ReadRecord
    BY <1>1, <1>2, <1>3 DEF ReadRecord
  <1>5. rp' \in [RPorts -> ReadRecord]
    BY <1>1, <1>3, <1>4
  <1>6. /\ seen' \in [WPorts \cup RPorts -> Nat] /\ seen'[r] = Head(rp[r].buf)
        /\ \A p \in (WPorts \cup RPorts) \ {r} : seen'[p] = seen[p]
    BY <1>1, <1>2
  <1>7. Tail(rp[r].buf) # NULL
    BY <1>2, PortConstants
  <1>8. r \notin WPorts
    BY PortConstants
  <1> QED BY <1>2, <1>3, <1>4, <1>5, <1>6, <1>7, <1>8

(* One pass of port_read by t over q. *)
MakesPass(t, q) ==
  /\ Pass(t, q)
  /\ misuse \subseteq misuse'
  /\ UNCHANGED <<write_port_list, wp, pg, closing, written, refused>>

LEMMA PassKeepsBase ==
  ASSUME PortBase, NEW t \in Readers, ~reader[t].blocked, NEW q \in Queues, MakesPass(t, q)
  PROVE  PortBase'
  <1>1. PortTypeOK /\ WritePorts /\ ReadPorts /\ GroupMembers /\ PortThreads
    BY DEF PortBase
  <1>2. /\ write_port_list' = write_port_list /\ wp' = wp /\ pg' = pg /\ closing' = closing
        /\ written' = written /\ refused' = refused /\ misuse \subseteq misuse' /\ Pass(t, q)
    BY DEF MakesPass
  <1>3. CASE rp' = rp /\ seen' = seen /\ PortThreads'
    <2>1. PortTypeOK'
      BY <1>1, <1>2, <1>3 DEF PortTypeOK, WriteRecord, ReadRecord, Queues
    <2>2. WritePorts'
      BY <1>1, <1>2, <1>3, WriteSideKept
    <2>3. ReadPorts' /\ GroupMembers'
      BY <1>1, <1>2, <1>3 DEF ReadPorts, GroupMembers, BeingRead
    <2> QED BY <1>3, <2>1, <2>2, <2>3 DEF PortBase
  <1>4. CASE q # Group /\ rp[q].buf = NULL
    <2>1. rp' = rp /\ seen' = seen /\ waitq' = waitq /\ reader' = reader
      BY <1>2, <1>4 DEF Pass
    <2> QED BY <1>1, <1>3, <2>1, ThreadsKept
  <1>5. CASE (q = Group \/ rp[q].buf # NULL) /\ Block(t, q)
    <2>1. PortThreads' /\ rp' = rp /\ seen' = seen
      BY <1>1, <1>5, ThreadJoins, PortConstants DEF Block
    <2> QED BY <1>3, <2>1
  <1>6. CASE (q = Group \/ rp[q].buf # NULL) /\ TakePacket(t, q)
    <2>1. PICK r : r = TakenFrom(q)
      OBVIOUS
    <2>2. /\ rp' = [rp EXCEPT ![r].buf = Tail(@)] /\ seen' = [seen EXCEPT ![r] = Head(rp[r].buf)]
          /\ reader' = [reader EXCEPT ![t].at = NULL] /\ waitq' = waitq /\ Ready(q) # {}
      BY <1>6, <2>1 DEF TakePacket, TakenFrom
    <2>3. r \in RPorts /\ rp[r].buf \in Seq(Nat) /\ rp[r].buf # <<>>
      BY <1>6, <2>1, <2>2, TakesFrom
    <2>4. /\ rp' \in [RPorts -> ReadRecord] /\ seen' \in [WPorts \cup RPorts -> Nat]
          /\ rp'[r].buf # NULL
          /\ \A p \in RPorts : /\ rp'[p].magic = rp[p].magic /\ rp'[p].wport = rp[p].wport
                               /\ rp'[p].gport = rp[p].gport /\ (p # r => rp'[p] = rp[p])
          /\ \A w \in WPorts : seen'[w] = seen[w]
      BY <2>2, <2>3, PacketTaken
    <2>5. PortThreads'
      BY <1>1, <2>2, ThreadLeaves
    <2>6. PortTypeOK'
      BY <1>1, <1>2, <2>4 DEF PortTypeOK, WriteRecord, ReadRecord, Queues
    <2>7. WritePorts'
      BY <1>1, <1>2, <2>4, WriteSideKept
    <2>8. ReadPorts'
      <3>1. \A p \in RPorts : BeingRead(p) => rp'[p].buf # NULL
        BY <1>1, <2>4 DEF ReadPorts
      <3>2. closing = Group => pg'.magic = "G"
        BY <1>1, <1>2 DEF ReadPorts
      <3> QED BY <1>1, <1>2, <2>4, <3>1, <3>2, ReadSideKept
    <2>9. GroupMembers'
      BY <1>1, <1>2, <2>4, PortRecords DEF GroupMembers, BeingRead
    <2> QED BY <2>5, <2>6, <2>7, <2>8, <2>9 DEF PortBase
  <1> QED BY <1>2, <1>4, <1>5, <1>6 DEF Pass

LEMMA ReadKeepsBase ==
  ASSUME PortBase, NEW t \in Readers, NEW q \in Queues, port_read(t, q)
  PROVE  PortBase' /\ MakesPass(t, q) /\ ~reader[t].blocked
  <1>1. ~reader[t].blocked
    BY DEF port_read, PortBase, PortThreads, ThreadsQueued
  <1>2. MakesPass(t, q)
    BY DEF port_read, MakesPass
  <1> QED BY <1>1, <1>2, PassKeepsBase

LEMMA ReturnsKeepsBase ==
  ASSUME PortBase, NEW t \in Readers, port_read_returns(t)
  PROVE  PortBase'
  <1>1. PortTypeOK /\ WritePorts /\ ReadPorts /\ GroupMembers /\ PortThreads
    BY DEF PortBase
  <1>2. PICK q : q = reader[t].at
    OBVIOUS
  <1>3. q \in Queues /\ ~reader[t].blocked
    <2>1. reader[t] \in ReaderThread /\ q # NULL
      BY <1>1, <1>2 DEF PortThreads, port_read_returns
    <2> QED BY <1>2, <2>1 DEF ReaderThread, port_read_returns
  <1>4. /\ write_port_list' = write_port_list /\ wp' = wp /\ pg' = pg /\ closing' = closing
        /\ written' = written /\ refused' = refused /\ misuse' = misuse
    BY DEF port_read_returns
  <1>5. \/ reader' = [reader EXCEPT ![t].at = NULL] /\ rp' = rp /\ waitq' = waitq /\ seen' = seen
        \/ reader' = reader /\ rp' = rp /\ waitq' = waitq /\ seen' = seen
        \/ Pass(t, q)
    BY <1>2 DEF port_read_returns
  <1>6. CASE Pass(t, q)
    BY <1>3, <1>4, <1>6, PassKeepsBase DEF MakesPass
  <1>7. CASE rp' = rp /\ seen' = seen /\ PortThreads'
    <2>1. PortTypeOK'
      BY <1>1, <1>4, <1>7 DEF PortTypeOK, WriteRecord, ReadRecord, Queues
    <2>2. WritePorts'
      BY <1>1, <1>4, <1>7, WriteSideKept
    <2>3. ReadPorts' /\ GroupMembers'
      BY <1>1, <1>4, <1>7 DEF ReadPorts, GroupMembers, BeingRead
    <2> QED BY <1>7, <2>1, <2>2, <2>3 DEF PortBase
  <1> QED BY <1>1, <1>3, <1>5, <1>6, <1>7, ThreadLeaves, ThreadsKept
(* The packets that port_write adds. *)
NewPackets(w, count) == [k \in 1 .. count |-> written[w] + k]
TakerPorts(w, count) == {wp[w].readers[i] : i \in Takers(w, count)}

LEMMA PacketsWritten ==
  ASSUME PortTypeOK, NEW w \in WPorts, NEW count \in Nat
  PROVE  /\ NewPackets(w, count) \in Seq(Nat) /\ Len(NewPackets(w, count)) = count
         /\ DOMAIN NewPackets(w, count) = 1 .. count
         /\ \A k \in 1 .. count : NewPackets(w, count)[k] = written[w] + k
         /\ Range(NewPackets(w, count)) = written[w] + 1 .. written[w] + count
  <1>1. written[w] \in Nat
    BY DEF PortTypeOK
  <1>2. /\ NewPackets(w, count) \in [1 .. count -> Nat]
        /\ \A k \in 1 .. count : NewPackets(w, count)[k] = written[w] + k
        /\ DOMAIN NewPackets(w, count) = 1 .. count
    BY <1>1 DEF NewPackets
  <1>3. NewPackets(w, count) \in Seq(Nat) /\ Len(NewPackets(w, count)) = count
    BY <1>2
  <1>4. Range(NewPackets(w, count)) = written[w] + 1 .. written[w] + count
    <2>1. ASSUME NEW p \in written[w] + 1 .. written[w] + count
          PROVE  p \in Range(NewPackets(w, count))
      <3>1. p - written[w] \in 1 .. count /\ written[w] + (p - written[w]) = p
        BY <1>1
      <3> QED BY <1>2, <3>1 DEF Range
    <2>2. ASSUME NEW k \in 1 .. count PROVE written[w] + k \in written[w] + 1 .. written[w] + count
      BY <1>1
    <2> QED BY <1>2, <2>1, <2>2 DEF Range
  <1> QED BY <1>2, <1>3, <1>4

LEMMA TakersRead ==
  ASSUME PortBase, NEW w \in WPorts, NEW count
  PROVE  /\ TakerPorts(w, count) \subseteq Range(wp[w].readers)
         /\ \A r \in TakerPorts(w, count) :
              /\ r \in RPorts /\ BeingRead(r) /\ rp[r].wport = w
              /\ rp[r].buf \in Seq(Nat) /\ rp[r].buf # NULL
  <1>1. wp[w].readers \in Seq(RPorts) /\ Range(wp[w].readers) \subseteq RPorts
    BY PortRecords, EmptyList DEF PortBase
  <1>2. TakerPorts(w, count) \subseteq Range(wp[w].readers)
    BY DEF TakerPorts, Takers, Range
  <1>3. ASSUME NEW r \in TakerPorts(w, count)
        PROVE  /\ r \in RPorts /\ BeingRead(r) /\ rp[r].wport = w
               /\ rp[r].buf \in Seq(Nat) /\ rp[r].buf # NULL
    <2>1. r \in RPorts /\ BeingRead(r) /\ rp[r].wport = w
      BY <1>1, <1>2 DEF PortBase, ReadPorts
    <2>2. rp[r].buf # NULL /\ rp[r] \in ReadRecord
      BY <2>1, PortRecords DEF PortBase, ReadPorts
    <2> QED BY <2>1, <2>2 DEF ReadRecord
  <1> QED BY <1>2, <1>3

LEMMA NoNull ==
  ASSUME NEW s \in Seq(Nat)
  PROVE  s # NULL
  BY PortConstants

LEMMA BuffersJoined ==
  ASSUME NEW a \in Seq(Nat), NEW b \in Seq(Nat)
  PROVE  a \o b \in Seq(Nat) /\ a \o b # NULL
  <1>1. a \o b \in Seq(Nat)
    BY ListJoined
  <1> QED BY <1>1, NoNull

(* What port_write does to the buffers. *)
LEMMA WriteBuffers ==
  ASSUME PortBase, NEW w \in WPorts, NEW count \in Counts, port_write(w, count)
  PROVE  /\ wp[w].magic = "W" /\ count \in Nat /\ count > 0
         /\ wp \in [WPorts -> WriteRecord] => wp' \in [WPorts -> WriteRecord]
         /\ rp' \in [RPorts -> ReadRecord]
         /\ written' = [written EXCEPT ![w] = @ + count] /\ written' \in [WPorts -> Nat]
         /\ refused' \in [WPorts -> SUBSET Nat]
         /\ \A v \in WPorts : /\ v # w => wp'[v] = wp[v] /\ refused'[v] = refused[v]
                              /\ wp'[v].magic = wp[v].magic /\ wp'[v].name = wp[v].name
                              /\ wp'[v].unicast = wp[v].unicast /\ wp'[v].readers = wp[v].readers
                              /\ (wp'[v].buf = NULL <=> wp[v].buf = NULL)
         /\ \A r \in RPorts : /\ rp'[r].magic = rp[r].magic /\ rp'[r].wport = rp[r].wport
                              /\ rp'[r].gport = rp[r].gport
                              /\ BeingRead(r) => rp'[r].buf # NULL
         /\ wp[w].buf # NULL =>
              /\ rp' = rp /\ waitq' = waitq /\ reader' = reader /\ fault' = fault /\ misuse' = misuse
              /\ \/ wp' = wp /\ refused'[w] = refused[w] \cup (written[w] + 1 .. written[w] + count)
                 \/ wp'[w].buf = wp[w].buf \o NewPackets(w, count) /\ refused'[w] = refused[w]
         /\ wp[w].buf = NULL =>
              /\ wp' = wp /\ WakeFirst(WokenBy(w, count), "NO_ERROR")
              /\ \A r \in RPorts \ TakerPorts(w, count) : rp'[r] = rp[r]
              /\ \A r \in TakerPorts(w, count) : rp'[r].buf = rp[r].buf \o NewPackets(w, count)
              /\ refused'[w] = IF TakerPorts(w, count) = Range(wp[w].readers) THEN refused[w]
                               ELSE refused[w] \cup (written[w] + 1 .. written[w] + count)
              /\ misuse' = misuse \cup (IF count > 1 THEN {"unwoken"} ELSE {})
              /\ fault' = IF pg.magic # "G" /\ \E r \in TakerPorts(w, count) : rp[r].gport
                          THEN "freed group" ELSE fault
         /\ write_port_list' = write_port_list /\ pg' = pg /\ closing' = closing /\ seen' = seen
         /\ misuse \subseteq misuse'
  <1> DEFINE packets == NewPackets(w, count)
             takers == TakerPorts(w, count)
             refuses == IF wp[w].buf # NULL THEN Len(wp[w].buf) + count > BufSize
                                            ELSE takers # Range(wp[w].readers)
  <1>1. /\ wp[w].magic = "W"
        /\ written' = [written EXCEPT ![w] = @ + count]
        /\ refused' = [refused EXCEPT ![w] = IF refuses THEN @ \cup Range(packets) ELSE @]
        /\ wp[w].buf # NULL =>
              /\ wp' = IF refuses THEN wp ELSE [wp EXCEPT ![w].buf = @ \o packets]
              /\ rp' = rp /\ waitq' = waitq /\ reader' = reader /\ fault' = fault /\ misuse' = misuse
        /\ wp[w].buf = NULL =>
              /\ rp' = [r \in RPorts |-> IF r \in takers THEN [rp[r] EXCEPT !.buf = @ \o packets] ELSE rp[r]]
              /\ WakeFirst(WokenBy(w, count), "NO_ERROR")
              /\ fault' = IF pg.magic # "G" /\ \E r \in takers : rp[r].gport THEN "freed group" ELSE fault
              /\ misuse' = misuse \cup (IF count > 1 THEN {"unwoken"} ELSE {})
              /\ wp' = wp
        /\ write_port_list' = write_port_list /\ pg' = pg /\ closing' = closing /\ seen' = seen
    BY DEF port_write, NewPackets, TakerPorts
  <1>2. PortTypeOK /\ WritePorts /\ ReadPorts
    BY DEF PortBase
  <1>3. count \in Nat /\ count > 0
    BY PortConstants
  <1>4. /\ packets \in Seq(Nat) /\ Range(packets) = written[w] + 1 .. written[w] + count
        /\ Range(packets) \subseteq Nat
    <2>1. packets \in Seq(Nat) /\ Range(packets) = written[w] + 1 .. written[w] + count
      BY <1>2, <1>3, PacketsWritten
    <2> QED BY <2>1, EmptyList
  <1>5. \A r \in takers : r \in RPorts /\ rp[r].buf \in Seq(Nat) /\ rp[r].buf # NULL
    BY TakersRead
  <1> HIDE DEF packets, takers
  <1>6. /\ written' \in [WPorts -> Nat] /\ refused' \in [WPorts -> SUBSET Nat]
        /\ \A v \in WPorts \ {w} : refused'[v] = refused[v]
        /\ refused'[w] = IF refuses THEN refused[w] \cup Range(packets) ELSE refused[w]
    <2>1. written \in [WPorts -> Nat] /\ refused \in [WPorts -> SUBSET Nat] /\ refused[w] \in SUBSET Nat
          /\ written[w] + count \in Nat
      BY <1>2, <1>3 DEF PortTypeOK
    <2>2. PICK x : x = IF refuses THEN refused[w] \cup Range(packets) ELSE refused[w]
      OBVIOUS
    <2>3. x \in SUBSET Nat /\ refused' = [refused EXCEPT ![w] = x]
      BY <1>1, <1>4, <2>1, <2>2
    <2> QED BY <1>1, <2>1, <2>2, <2>3
  <1>7. /\ wp \in [WPorts -> WriteRecord] /\ wp[w] \in WriteRecord /\ rp \in [RPorts -> ReadRecord]
    BY <1>2 DEF PortTypeOK
  <1>8. CASE wp[w].buf # NULL
    <2>1. wp[w].buf \in Seq(Nat)
      BY <1>7, <1>8 DEF WriteRecord
    <2>2. wp[w].buf \o packets \in Seq(Nat) /\ wp[w].buf \o packets # NULL
      BY <1>4, <2>1, BuffersJoined
    <2>3. PICK c : c = wp[w].buf \o packets
      OBVIOUS
    <2>4. CASE refuses
      BY <1>1, <1>2, <1>3, <1>4, <1>6, <1>7, <1>8, <2>4 DEF ReadPorts
    <2>5. CASE ~refuses
      <3>1. wp' = [wp EXCEPT ![w].buf = c]
        BY <1>1, <1>8, <2>3, <2>5
      <3>2. /\ wp'[w].buf = c /\ wp'[w].magic = wp[w].magic /\ wp'[w].name = wp[w].name
            /\ wp'[w].unicast = wp[w].unicast /\ wp'[w].readers = wp[w].readers
            /\ wp'[w] \in WriteRecord
            /\ \A v \in WPorts \ {w} : wp'[v] = wp[v]
        BY <1>7, <2>2, <2>3, <3>1 DEF WriteRecord
      <3>3. wp' \in [WPorts -> WriteRecord]
        BY <1>7, <3>1, <3>2
      <3>4. \A v \in WPorts : /\ v # w => wp'[v] = wp[v] /\ refused'[v] = refused[v]
                              /\ wp'[v].magic = wp[v].magic /\ wp'[v].name = wp[v].name
                              /\ wp'[v].unicast = wp[v].unicast /\ wp'[v].readers = wp[v].readers
                              /\ (wp'[v].buf = NULL <=> wp[v].buf = NULL)
        <4>1. \A v \in WPorts \ {w} : wp'[v] = wp[v] /\ refused'[v] = refused[v]
          BY <1>6, <3>2
        <4>2. wp'[w].buf # NULL /\ wp[w].buf # NULL
          BY <1>8, <2>2, <2>3, <3>2
        <4> QED BY <3>2, <4>1, <4>2
      <3>5. \A r \in RPorts : /\ rp'[r].magic = rp[r].magic /\ rp'[r].wport = rp[r].wport
                              /\ rp'[r].gport = rp[r].gport
                              /\ BeingRead(r) => rp'[r].buf # NULL
        BY <1>1, <1>2, <1>8 DEF ReadPorts
      <3>6. /\ rp' = rp /\ waitq' = waitq /\ reader' = reader /\ fault' = fault /\ misuse' = misuse
            /\ wp'[w].buf = wp[w].buf \o NewPackets(w, count) /\ refused'[w] = refused[w]
        BY <1>1, <1>6, <1>8, <2>3, <2>5, <3>2 DEF packets
      <3> QED BY <1>1, <1>3, <1>6, <1>7, <1>8, <3>3, <3>4, <3>5, <3>6
    <2> QED BY <2>4, <2>5
  <1>9. CASE wp[w].buf = NULL
    <2>1. ASSUME NEW r \in RPorts
          PROVE  /\ rp'[r] \in ReadRecord /\ rp'[r].magic = rp[r].magic /\ rp'[r].wport = rp[r].wport
                 /\ rp'[r].gport = rp[r].gport
                 /\ BeingRead(r) => rp'[r].buf # NULL
                 /\ r \in takers => rp'[r].buf = rp[r].buf \o packets
                 /\ r \notin takers => rp'[r] = rp[r]
      <3>1. rp[r] \in ReadRecord
        BY <1>7
      <3>2. rp'[r] = IF r \in takers THEN [rp[r] EXCEPT !.buf = @ \o packets] ELSE rp[r]
        BY <1>1, <1>9
      <3>3. CASE r \in takers
        <4>1. rp[r].buf \o packets \in Seq(Nat) /\ rp[r].buf \o packets # NULL
          BY <1>4, <1>5, <3>3, BuffersJoined
        <4>2. PICK c : c = rp[r].buf \o packets
          OBVIOUS
        <4>3. rp'[r] = [rp[r] EXCEPT !.buf = c]
          BY <3>2, <3>3, <4>2
        <4> QED BY <3>1, <3>3, <4>1, <4>2, <4>3 DEF ReadRecord
      <3>4. CASE r \notin takers
        BY <1>2, <3>1, <3>2, <3>4 DEF ReadPorts
      <3> QED BY <3>3, <3>4
    <2>2. rp' \in [RPorts -> ReadRecord]
      <3>1. rp' = [r \in RPorts |-> rp'[r]]
        BY <1>1, <1>9
      <3> QED BY <2>1, <3>1
    <2>3. refused'[w] = IF takers = Range(wp[w].readers) THEN refused[w]
                        ELSE refused[w] \cup (written[w] + 1 .. written[w] + count)
      BY <1>4, <1>6, <1>9
    <2>4. \A r \in takers : r \in RPorts
      BY <1>5
    <2> QED BY <1>1, <1>3, <1>6, <1>7, <1>9, <2>1, <2>2, <2>3, <2>4 DEF packets, takers
  <1> QED BY <1>8, <1>9

LEMMA WriteKeepsBase ==
  ASSUME PortBase, NEW w \in WPorts, NEW count \in Counts, port_write(w, count)
  PROVE  PortBase' /\ SomeWoken("NO_ERROR")
  <1>1. PortTypeOK /\ WritePorts /\ ReadPorts /\ GroupMembers /\ PortThreads
    BY DEF PortBase
  <1>2. PortThreads' /\ SomeWoken("NO_ERROR")
    <2>1. CASE wp[w].buf = NULL
      BY <1>1, <2>1, WriteBuffers, WriteWakes
    <2>2. CASE wp[w].buf # NULL
      <3>1. waitq' = waitq /\ reader' = reader
        BY <2>2, WriteBuffers
      <3> QED BY <1>1, <3>1, ThreadsKept
    <2> QED BY <2>1, <2>2
  <1>3. /\ wp' \in [WPorts -> WriteRecord] /\ rp' \in [RPorts -> ReadRecord]
        /\ written' \in [WPorts -> Nat] /\ refused' \in [WPorts -> SUBSET Nat]
        /\ write_port_list' = write_port_list /\ pg' = pg /\ closing' = closing /\ seen' = seen
        /\ misuse \subseteq misuse' /\ wp[w].magic = "W"
    BY <1>1, WriteBuffers DEF PortTypeOK
  <1>4. PortTypeOK'
    BY <1>1, <1>3 DEF PortTypeOK, WriteRecord, ReadRecord, Queues
  <1>5. WritePorts'
    <2>1. ASSUME NEW v \in WPorts PROVE WritePort(v)'
      <3>1. WritePort(v)
        BY <1>1 DEF WritePorts
      <3>2. /\ wp'[v].magic = wp[v].magic /\ wp'[v].name = wp[v].name
            /\ wp'[v].unicast = wp[v].unicast /\ wp'[v].readers = wp[v].readers
            /\ (wp'[v].buf = NULL <=> wp[v].buf = NULL)
            /\ v # w => wp'[v] = wp[v]
        BY WriteBuffers
      <3>3. ASSUME v # w PROVE written'[v] = written[v]
        <4>1. written' = [written EXCEPT ![w] = @ + count]
          BY DEF port_write
        <4>2. written \in [WPorts -> Nat]
          BY <1>1 DEF PortTypeOK
        <4> QED BY <3>3, <4>1, <4>2
      <3> QED BY <1>3, <3>1, <3>2, <3>3 DEF WritePort
    <2>2. WriteNames'
      <3>1. Range(write_port_list) \subseteq WPorts /\ \A v \in WPorts : wp'[v].name = wp[v].name
        BY <1>1, PortRecords, WriteBuffers
      <3> QED BY <1>1, <1>3, <3>1 DEF WritePorts, WriteNames
    <2> QED BY <1>1, <1>3, <2>1, <2>2 DEF WritePorts
  <1>6. ReadPorts' /\ GroupMembers'
    <2>1. /\ \A v \in WPorts : wp'[v].readers = wp[v].readers
          /\ \A r \in RPorts : /\ rp'[r].magic = rp[r].magic /\ rp'[r].wport = rp[r].wport
                               /\ rp'[r].gport = rp[r].gport
                               /\ BeingRead(r) => rp'[r].buf # NULL
      BY WriteBuffers
    <2>2. ReadPorts'
      BY <1>1, <1>3, <2>1, ReadSideKept DEF ReadPorts
    <2>3. GroupMembers'
      BY <1>1, <1>3, <2>1, PortRecords DEF GroupMembers, BeingRead
    <2> QED BY <2>2, <2>3
  <1> QED BY <1>2, <1>4, <1>5, <1>6 DEF PortBase
(* What port_close of a read port does to the buffers. *)
LEMMA CloseBuffers ==
  ASSUME PortBase, NEW r \in RPorts, port_close(r)
  PROVE  /\ closing = NULL /\ closing' = r /\ rp[r].magic = "R" /\ BeingRead(r)
         /\ wp' \in [WPorts -> WriteRecord] /\ rp' \in [RPorts -> ReadRecord]
         /\ seen' \in [WPorts \cup RPorts -> Nat]
         /\ \A q \in RPorts : /\ rp'[q].magic = rp[q].magic /\ rp'[q].wport = rp[q].wport
                              /\ rp'[q].gport = rp[q].gport /\ seen'[q] = seen[q]
                              /\ q # r => rp'[q] = rp[q]
         /\ \A v \in WPorts : v # rp[r].wport => wp'[v] = wp[v] /\ seen'[v] = seen[v]
         /\ rp[r].wport # NULL =>
              LET w == rp[r].wport IN
              /\ w \in WPorts /\ wp[w].magic \in {"W", "X"} /\ r \in Range(wp[w].readers)
              /\ wp'[w].magic = wp[w].magic /\ wp'[w].name = wp[w].name
              /\ wp'[w].unicast = wp[w].unicast /\ wp'[w].readers = Unlinked(wp[w].readers, r)
              /\ wp'[w].buf = NULL <=> wp'[w].readers # <<>>
              /\ wp'[w].buf # NULL => wp'[w].buf = rp[r].buf /\ seen'[w] = seen[r]
  <1>1. PortTypeOK /\ WritePorts /\ ReadPorts
    BY DEF PortBase
  <1>2. closing = NULL /\ closing' = r /\ rp[r].magic = "R" /\ close_read(r)
    BY DEF port_close, Admin
  <1>3. BeingRead(r) /\ rp[r].buf # NULL
    BY <1>1, <1>2, PortConstants DEF BeingRead, ReadPorts
  <1>4. /\ wp \in [WPorts -> WriteRecord] /\ rp \in [RPorts -> ReadRecord] /\ rp[r] \in ReadRecord
        /\ seen \in [WPorts \cup RPorts -> Nat] /\ seen[r] \in Nat
    BY <1>1 DEF PortTypeOK
  <1>5. rp[r].buf \in Seq(Nat) \cup {NULL} /\ rp[r].wport \in WPorts \cup {NULL}
    BY <1>4 DEF ReadRecord
  <1>6. CASE rp[r].wport = NULL
    BY <1>2, <1>3, <1>4, <1>6, PortConstants DEF close_read
  <1>7. CASE rp[r].wport # NULL
    <2>1. PICK w \in WPorts : w = rp[r].wport
      BY <1>5, <1>7
    <2>2. PICK others : others = Unlinked(wp[w].readers, r)
      OBVIOUS
    <2>3. PICK b : b = IF others = <<>> THEN rp[r].buf ELSE NULL
      OBVIOUS
    <2>4. /\ wp' = [wp EXCEPT ![w].readers = others, ![w].buf = b]
          /\ rp' = IF others = <<>> THEN [rp EXCEPT ![r].buf = NULL] ELSE rp
          /\ seen' = IF others = <<>> THEN [seen EXCEPT ![w] = seen[r]] ELSE seen
      BY <1>2, <1>7, <2>1, <2>2, <2>3 DEF close_read
    <2>5. r \in Range(wp[w].readers) /\ WritePort(w)
      BY <1>1, <1>3, <2>1 DEF ReadPorts, WritePorts
    <2>6. wp[w].readers \in Seq(RPorts) /\ Once(wp[w].readers) /\ wp[w] \in WriteRecord
      BY <1>1, <2>5, PortRecords DEF WritePort
    <2>7. wp[w].readers # <<>>
      BY <2>5, <2>6, EmptyList
    <2>8. wp[w].magic \in {"W", "X"}
      <3>1. wp[w].magic # "none" /\ wp[w].magic # "gone"
        BY <2>5, <2>7 DEF WritePort
      <3>2. wp[w].magic # "alloc"
        <4>1. wp[w].magic = "alloc" => wp[w].buf = <<>> /\ wp[w].buf = NULL
          BY <2>5, <2>7 DEF WritePort
        <4> QED BY <1>1, <4>1, PortRecords
      <3>3. wp[w].magic \in {"none", "alloc", "W", "X", "gone"}
        BY <2>6 DEF WriteRecord
      <3> QED BY <3>1, <3>2, <3>3
    <2>9. others \in Seq(RPorts)
      BY <2>2, <2>6, ListUnlinked
    <2>10. b \in Seq(Nat) \cup {NULL} /\ (b = NULL <=> others # <<>>) /\ (b # NULL => b = rp[r].buf)
      BY <1>3, <1>5, <2>3
    <2>11. /\ wp'[w].magic = wp[w].magic /\ wp'[w].name = wp[w].name
           /\ wp'[w].unicast = wp[w].unicast /\ wp'[w].readers = others /\ wp'[w].buf = b
           /\ wp'[w] \in WriteRecord
           /\ \A v \in WPorts \ {w} : wp'[v] = wp[v]
      BY <1>4, <2>4, <2>6, <2>9, <2>10 DEF WriteRecord
    <2>12. wp' \in [WPorts -> WriteRecord]
      BY <1>4, <2>4, <2>11
    <2>13. /\ rp' \in [RPorts -> ReadRecord]
           /\ \A q \in RPorts : /\ rp'[q].magic = rp[q].magic /\ rp'[q].wport = rp[q].wport
                                /\ rp'[q].gport = rp[q].gport /\ (q # r => rp'[q] = rp[q])
      <3>1. CASE others # <<>>
        BY <1>4, <2>4, <3>1
      <3>2. CASE others = <<>>
        <4>1. /\ rp'[r] \in ReadRecord /\ rp'[r].magic = rp[r].magic /\ rp'[r].wport = rp[r].wport
              /\ rp'[r].gport = rp[r].gport /\ \A q \in RPorts \ {r} : rp'[q] = rp[q]
          BY <1>4, <2>4, <3>2 DEF ReadRecord
        <4>2. rp' \in [RPorts -> ReadRecord]
          BY <1>4, <2>4, <3>2, <4>1
        <4> QED BY <4>1, <4>2
      <3> QED BY <3>1, <3>2
    <2>14. /\ seen' \in [WPorts \cup RPorts -> Nat]
           /\ \A q \in RPorts : seen'[q] = seen[q]
           /\ \A v \in WPorts : v # w => seen'[v] = seen[v]
           /\ others = <<>> => seen'[w] = seen[r]
      <3>1. w \in WPorts \cup RPorts /\ w \notin RPorts
        BY PortConstants
      <3>2. CASE others # <<>>
        BY <1>4, <2>4, <3>2
      <3>3. CASE others = <<>>
        BY <1>4, <2>4, <3>1, <3>3
      <3> QED BY <3>2, <3>3
    <2> QED BY <1>2, <1>3, <2>1, <2>2, <2>5, <2>8, <2>10, <2>11, <2>12, <2>13, <2>14
  <1> QED BY <1>6, <1>7

LEMMA CloseKeepsBase ==
  ASSUME PortBase, NEW r \in RPorts, port_close(r)
  PROVE  /\ PortBase' /\ SomeWoken("ERR_OBJECT_DESTROYED") /\ waitq'[r] = <<>>
         /\ \A q \in Queues \ {r} : waitq'[q] = waitq[q]
         /\ \A t \in Readers : reader[t].at = r /\ reader[t].blocked =>
                                 ~reader'[t].blocked /\ reader'[t].ret = "ERR_OBJECT_DESTROYED"
         /\ Range(pg'.rp_list) = Range(pg.rp_list) \ {r} /\ pg'.magic = pg.magic
  <1>1. PortTypeOK /\ WritePorts /\ ReadPorts /\ GroupMembers /\ PortThreads
    BY DEF PortBase
  <1>2. /\ pg' = [pg EXCEPT !.rp_list = Unlinked(@, r)] \/ (pg' = pg /\ r \notin Range(pg.rp_list))
        /\ wake_all({r}, "ERR_OBJECT_DESTROYED") /\ misuse \subseteq misuse'
        /\ write_port_list' = write_port_list /\ written' = written /\ refused' = refused
    BY DEF port_close
  <1>3. /\ PortThreads' /\ SomeWoken("ERR_OBJECT_DESTROYED") /\ waitq'[r] = <<>>
        /\ \A q \in Queues \ {r} : waitq'[q] = waitq[q]
        /\ \A t \in Readers : reader[t].at = r /\ reader[t].blocked =>
                                 ~reader'[t].blocked /\ reader'[t].ret = "ERR_OBJECT_DESTROYED"
    <2>1. PICK S \in SUBSET Queues : S = {r}
      BY PortConstants
    <2>2. PICK ret \in WaitResults : ret = "ERR_OBJECT_DESTROYED"
      BY DEF WaitResults
    <2>3. wake_all(S, ret)
      BY <1>2, <2>1, <2>2
    <2>4. /\ PortThreads' /\ SomeWoken(ret)
          /\ \A p \in Queues \ S : waitq'[p] = waitq[p]
          /\ \A p \in S : waitq'[p] = <<>> /\ \A t \in Readers : reader[t].at = p /\ reader[t].blocked =>
                                                ~reader'[t].blocked /\ reader'[t].ret = ret
      <3>1. PortThreads
        BY <1>1
      <3> QED BY <2>3, <3>1, AllWoken
    <2>5. SomeWoken("ERR_OBJECT_DESTROYED")
      BY <2>2, <2>4
    <2> QED BY <2>1, <2>2, <2>4, <2>5
  <1>4. /\ pg' \in [magic : {"none", "G", "gone"}, rp_list : Seq(RPorts)]
        /\ pg'.magic = pg.magic /\ Once(pg'.rp_list) /\ Range(pg'.rp_list) = Range(pg.rp_list) \ {r}
    <2>1. /\ pg.rp_list \in Seq(RPorts) /\ Once(pg.rp_list)
          /\ pg \in [magic : {"none", "G", "gone"}, rp_list : Seq(RPorts)]
      BY <1>1 DEF PortTypeOK, GroupMembers
    <2>2. /\ Unlinked(pg.rp_list, r) \in Seq(RPorts) /\ Once(Unlinked(pg.rp_list, r))
          /\ Range(Unlinked(pg.rp_list, r)) = Range(pg.rp_list) \ {r}
      BY <2>1, ListUnlinked
    <2>3. CASE pg' = pg /\ r \notin Range(pg.rp_list)
      BY <2>1, <2>3
    <2>4. CASE pg' = [pg EXCEPT !.rp_list = Unlinked(@, r)]
      <3>1. pg'.rp_list = Unlinked(pg.rp_list, r) /\ pg'.magic = pg.magic /\ pg' = [magic |-> pg.magic, rp_list |-> Unlinked(pg.rp_list, r)]
        BY <2>1, <2>4
      <3> QED BY <2>1, <2>2, <3>1
    <2> QED BY <1>2, <2>3, <2>4
  <1>5. /\ closing = NULL /\ closing' = r /\ rp[r].magic = "R"
        /\ wp' \in [WPorts -> WriteRecord] /\ rp' \in [RPorts -> ReadRecord]
        /\ seen' \in [WPorts \cup RPorts -> Nat]
        /\ \A q \in RPorts : /\ rp'[q].magic = rp[q].magic /\ rp'[q].wport = rp[q].wport
                             /\ rp'[q].gport = rp[q].gport /\ seen'[q] = seen[q]
                             /\ q # r => rp'[q] = rp[q]
        /\ \A v \in WPorts : v # rp[r].wport => wp'[v] = wp[v] /\ seen'[v] = seen[v]
    BY CloseBuffers
  <1>6. PICK w : w = rp[r].wport
    OBVIOUS
  <1>7. w # NULL =>
          /\ w \in WPorts /\ wp[w].magic \in {"W", "X"} /\ r \in Range(wp[w].readers)
          /\ wp'[w].magic = wp[w].magic /\ wp'[w].name = wp[w].name
          /\ wp'[w].unicast = wp[w].unicast /\ wp'[w].readers = Unlinked(wp[w].readers, r)
          /\ wp'[w].buf = NULL <=> wp'[w].readers # <<>>
    BY <1>6, CloseBuffers
  <1>8. PortTypeOK'
    BY <1>1, <1>2, <1>4, <1>5, PortConstants DEF PortTypeOK, WriteRecord, ReadRecord, Queues
  <1>9. w # NULL =>
          /\ Once(Unlinked(wp[w].readers, r)) /\ Range(Unlinked(wp[w].readers, r)) = Range(wp[w].readers) \ {r}
          /\ Len(Unlinked(wp[w].readers, r)) <= Len(wp[w].readers)
          /\ Len(Unlinked(wp[w].readers, r)) \in Nat /\ Len(wp[w].readers) \in Nat
    <2> SUFFICES ASSUME w # NULL
                 PROVE  /\ Once(Unlinked(wp[w].readers, r))
                        /\ Range(Unlinked(wp[w].readers, r)) = Range(wp[w].readers) \ {r}
                        /\ Len(Unlinked(wp[w].readers, r)) <= Len(wp[w].readers)
                        /\ Len(Unlinked(wp[w].readers, r)) \in Nat /\ Len(wp[w].readers) \in Nat
      OBVIOUS
    <2>1. wp[w].readers \in Seq(RPorts) /\ Once(wp[w].readers)
      BY <1>1, <1>7, PortRecords DEF WritePorts, WritePort
    <2>2. Unlinked(wp[w].readers, r) \in Seq(RPorts)
      BY <2>1, ListUnlinked
    <2>3. Len(Unlinked(wp[w].readers, r)) \in Nat /\ Len(wp[w].readers) \in Nat
      BY <2>1, <2>2
    <2> QED BY <2>1, <2>3, ListUnlinked
  <1>10. WritePorts'
    <2>1. ASSUME NEW v \in WPorts PROVE WritePort(v)'
      <3>1. WritePort(v)
        BY <1>1 DEF WritePorts
      <3>2. CASE v # w
        BY <1>2, <1>5, <1>6, <3>1, <3>2 DEF WritePort
      <3>3. CASE v = w
        <4>1. w # NULL
          BY <3>3, PortConstants
        <4>2. wp'[v].unicast => Len(wp'[v].readers) <= 1
          <5>1. wp[v].unicast => Len(wp[v].readers) <= 1
            BY <3>1 DEF WritePort
          <5>2. /\ wp'[v].unicast = wp[v].unicast /\ wp'[v].readers = Unlinked(wp[v].readers, r)
                /\ Len(Unlinked(wp[v].readers, r)) <= Len(wp[v].readers)
                /\ Len(Unlinked(wp[v].readers, r)) \in Nat /\ Len(wp[v].readers) \in Nat
            BY <1>7, <1>9, <3>3, <4>1
          <5> QED BY <5>1, <5>2
        <4>3. wp'[v].magic \notin {"none", "alloc", "gone"} /\ wp'[v].name \in Names
          BY <1>7, <3>1, <3>3, <4>1 DEF WritePort
        <4> QED BY <1>2, <1>7, <1>9, <3>1, <3>3, <4>1, <4>2, <4>3 DEF WritePort
      <3> QED BY <3>2, <3>3
    <2>2. WriteNames'
      <3>1. Range(write_port_list) \subseteq WPorts /\ \A v \in WPorts : wp'[v].name = wp[v].name
        BY <1>1, <1>5, <1>6, <1>7, PortRecords, PortConstants
      <3> QED BY <1>1, <1>2, <3>1 DEF WritePorts, WriteNames
    <2> QED BY <1>1, <1>2, <2>1, <2>2 DEF WritePorts
  <1>11. ReadPorts'
    <2>1. ASSUME NEW q \in RPorts, NEW v \in WPorts
          PROVE  q \in Range(wp'[v].readers) <=> rp'[q].magic = "R" /\ closing' # q /\ rp'[q].wport = v
      <3>1. q \in Range(wp[v].readers) <=> rp[q].magic = "R" /\ closing # q /\ rp[q].wport = v
        BY <1>1 DEF ReadPorts, BeingRead
      <3>2. CASE v # w
        BY <1>5, <1>6, <3>1, <3>2, PortConstants
      <3>3. CASE v = w
        <4>1. Range(wp'[v].readers) = Range(wp[v].readers) \ {r}
          BY <1>7, <1>9, <3>3, PortConstants
        <4> QED BY <1>5, <3>1, <4>1, PortConstants
      <3> QED BY <3>2, <3>3
    <2>2. ASSUME NEW q \in RPorts
          PROVE  /\ rp'[q].magic = "R" /\ closing' # q => rp'[q].buf # NULL
                 /\ rp'[q].magic # "R" => rp'[q].gport = FALSE
      BY <1>1, <1>5, PortConstants DEF ReadPorts, BeingRead
    <2> QED BY <1>5, <2>1, <2>2, PortConstants DEF ReadPorts, BeingRead
  <1>12. GroupMembers'
    <2>1. \A q \in Range(pg'.rp_list) : rp'[q].magic = "R" /\ rp'[q].gport /\ closing' # q
      BY <1>1, <1>4, <1>5, PortRecords DEF GroupMembers, BeingRead
    <2>2. pg'.magic # "G" => pg'.rp_list = <<>>
      <3>1. pg.magic # "G" => Range(pg'.rp_list) = {}
        BY <1>1, <1>4, PortRecords, EmptyList DEF GroupMembers
      <3>2. pg'.rp_list \in Seq(RPorts)
        BY <1>4
      <3> QED BY <1>4, <3>1, <3>2, EmptyList
    <2> QED BY <1>4, <2>1, <2>2 DEF GroupMembers, BeingRead
  <1> QED BY <1>3, <1>4, <1>8, <1>10, <1>11, <1>12 DEF PortBase
(* What the end of port_close does. *)
LEMMA CloseEnds ==
  ASSUME PortBase, port_close_ends
  PROVE  /\ closing # NULL /\ closing' = NULL /\ closing \in Queues
         /\ rp' \in [RPorts -> ReadRecord] /\ seen' \in [WPorts \cup RPorts -> Nat]
         /\ \A v \in WPorts : seen'[v] = seen[v]
         /\ \A q \in RPorts : /\ BeingRead(q) <=> rp'[q].magic = "R"
                              /\ q # closing => /\ rp'[q].magic = rp[q].magic /\ rp'[q].wport = rp[q].wport
                                                /\ rp'[q].buf = rp[q].buf /\ seen'[q] = seen[q]
                                                /\ rp'[q].gport => rp[q].gport /\ (closing = Group => q \notin Range(pg.rp_list))
                              /\ q = closing => rp'[q].gport = FALSE /\ rp'[q].magic = "gone"
         /\ closing = Group => pg' = [magic |-> "gone", rp_list |-> <<>>]
         /\ closing # Group => pg' = pg /\ (\A q \in RPorts \ {closing} : rp'[q] = rp[q])
         /\ write_port_list' = write_port_list /\ wp' = wp /\ waitq' = waitq /\ reader' = reader
         /\ fault' = fault /\ written' = written /\ refused' = refused /\ misuse \subseteq misuse'
  <1>1. PortTypeOK /\ ReadPorts
    BY DEF PortBase
  <1>2. /\ closing # NULL /\ closing' = NULL
        /\ closing = Group =>
             /\ rp' = [r \in RPorts |-> [rp[r] EXCEPT !.gport = @ /\ r \notin Range(pg.rp_list)]]
             /\ pg' = [magic |-> "gone", rp_list |-> <<>>]
        /\ closing # Group =>
             /\ rp' = [rp EXCEPT ![closing] = [magic |-> "gone", buf |-> NULL, wport |-> NULL,
                                               gport |-> FALSE]]
             /\ pg' = pg
        /\ seen' = [p \in DOMAIN seen |-> IF p = closing THEN 0 ELSE seen[p]]
        /\ write_port_list' = write_port_list /\ wp' = wp /\ waitq' = waitq /\ reader' = reader
        /\ fault' = fault /\ written' = written /\ refused' = refused /\ misuse \subseteq misuse'
    BY DEF port_close_ends
  <1>3. closing \in Queues /\ (closing # Group => closing \in RPorts) /\ closing \notin WPorts
    BY <1>1, <1>2, PortConstants DEF PortTypeOK, Queues
  <1>4. /\ seen' \in [WPorts \cup RPorts -> Nat]
        /\ \A v \in WPorts : seen'[v] = seen[v]
        /\ \A q \in RPorts : q # closing => seen'[q] = seen[q]
    <2>1. seen \in [WPorts \cup RPorts -> Nat]
      BY <1>1 DEF PortTypeOK
    <2> QED BY <1>2, <1>3, <2>1
  <1>5. rp \in [RPorts -> ReadRecord]
    BY <1>1 DEF PortTypeOK
  <1>6. CASE closing = Group
    <2>1. ASSUME NEW q \in RPorts
          PROVE  /\ rp'[q] \in ReadRecord /\ rp'[q].magic = rp[q].magic /\ rp'[q].wport = rp[q].wport
                 /\ rp'[q].buf = rp[q].buf /\ closing # q
                 /\ rp'[q].gport => rp[q].gport /\ q \notin Range(pg.rp_list)
      <3>1. rp'[q] = [rp[q] EXCEPT !.gport = @ /\ q \notin Range(pg.rp_list)] /\ rp[q] \in ReadRecord
        BY <1>2, <1>5, <1>6
      <3>2. PICK g \in BOOLEAN : g = (rp[q].gport /\ q \notin Range(pg.rp_list))
        OBVIOUS
      <3>3. rp'[q] = [rp[q] EXCEPT !.gport = g]
        BY <3>1, <3>2
      <3>4. /\ rp'[q] \in ReadRecord /\ rp'[q].magic = rp[q].magic /\ rp'[q].wport = rp[q].wport
            /\ rp'[q].buf = rp[q].buf /\ rp'[q].gport = g
        BY <3>1, <3>3 DEF ReadRecord
      <3> QED BY <1>6, <3>2, <3>4, PortConstants
    <2>2. rp' \in [RPorts -> ReadRecord]
      <3>1. rp' = [q \in RPorts |-> rp'[q]]
        BY <1>2, <1>6
      <3> QED BY <2>1, <3>1
    <2> QED BY <1>2, <1>3, <1>4, <1>6, <2>1, <2>2 DEF BeingRead
  <1>7. CASE closing # Group
    <2>1. PICK p : p = [magic |-> "gone", buf |-> NULL, wport |-> NULL, gport |-> FALSE]
      OBVIOUS
    <2>2. p \in ReadRecord /\ p.magic = "gone" /\ p.gport = FALSE
      BY <2>1 DEF ReadRecord
    <2>3. rp' = [rp EXCEPT ![closing] = p] /\ closing \in RPorts
      BY <1>2, <1>3, <1>7, <2>1
    <2>4. rp' \in [RPorts -> ReadRecord] /\ rp'[closing] = p /\ \A q \in RPorts \ {closing} : rp'[q] = rp[q]
      BY <1>5, <2>2, <2>3
    <2>5. \A q \in RPorts : BeingRead(q) <=> rp'[q].magic = "R"
      BY <2>2, <2>3, <2>4 DEF BeingRead
    <2>6. closing # Group => pg' = pg /\ (\A q \in RPorts \ {closing} : rp'[q] = rp[q])
      BY <1>2, <2>4
    <2>7. \A q \in RPorts :
            /\ q # closing => /\ rp'[q].magic = rp[q].magic /\ rp'[q].wport = rp[q].wport
                              /\ rp'[q].buf = rp[q].buf /\ seen'[q] = seen[q]
                              /\ rp'[q].gport => rp[q].gport /\ (closing = Group => q \notin Range(pg.rp_list))
            /\ q = closing => rp'[q].gport = FALSE /\ rp'[q].magic = "gone"
      <3> TAKE q \in RPorts
      <3>1. CASE q = closing
        BY <2>2, <2>4, <3>1
      <3>2. CASE q # closing
        <4>1. rp'[q] = rp[q] /\ seen'[q] = seen[q] /\ pg' = pg
          BY <1>2, <1>4, <1>7, <2>4, <3>2
        <4> QED BY <1>7, <3>2, <4>1
      <3> QED BY <3>1, <3>2
    <2> QED BY <1>2, <1>3, <1>4, <1>7, <2>4, <2>5, <2>6, <2>7
  <1> QED BY <1>6, <1>7

LEMMA CloseEndsKeepsBase ==
  ASSUME PortBase, port_close_ends
  PROVE  PortBase'
  <1>1. PortTypeOK /\ WritePorts /\ ReadPorts /\ GroupMembers /\ PortThreads
    BY DEF PortBase
  <1>2. /\ closing # NULL /\ closing' = NULL
        /\ rp' \in [RPorts -> ReadRecord] /\ seen' \in [WPorts \cup RPorts -> Nat]
        /\ \A v \in WPorts : seen'[v] = seen[v]
        /\ \A q \in RPorts : /\ BeingRead(q) <=> rp'[q].magic = "R"
                             /\ q # closing => /\ rp'[q].magic = rp[q].magic /\ rp'[q].wport = rp[q].wport
                                               /\ rp'[q].buf = rp[q].buf
                             /\ q = closing => rp'[q].gport = FALSE /\ rp'[q].magic = "gone"
        /\ closing = Group => pg' = [magic |-> "gone", rp_list |-> <<>>]
        /\ closing # Group => pg' = pg /\ (\A q \in RPorts \ {closing} : rp'[q] = rp[q])
        /\ write_port_list' = write_port_list /\ wp' = wp /\ waitq' = waitq /\ reader' = reader
        /\ written' = written /\ refused' = refused /\ misuse \subseteq misuse'
    BY CloseEnds
  <1>3. pg' \in [magic : {"none", "G", "gone"}, rp_list : Seq(RPorts)]
    <2>1. CASE closing = Group
      <3>0. <<>> \in Seq(RPorts)
        OBVIOUS
      <3>1. PICK e \in Seq(RPorts) : e = <<>>
        BY <3>0
      <3>2. pg' = [magic |-> "gone", rp_list |-> e]
        BY <1>2, <2>1, <3>1
      <3> QED BY <3>2
    <2>2. CASE closing # Group
      BY <1>1, <1>2, <2>2 DEF PortTypeOK
    <2> QED BY <2>1, <2>2
  <1>4. PortTypeOK'
    BY <1>1, <1>2, <1>3 DEF PortTypeOK, WriteRecord, ReadRecord, Queues
  <1>5. WritePorts' /\ PortThreads'
    BY <1>1, <1>2, WriteSideKept, ThreadsKept
  <1>6. ReadPorts'
    <2>1. ASSUME NEW q \in RPorts
          PROVE  /\ BeingRead(q)' <=> BeingRead(q)
                 /\ BeingRead(q) => q # closing
      BY <1>2, PortConstants DEF BeingRead
    <2>2. ASSUME NEW q \in RPorts, NEW v \in WPorts
          PROVE  q \in Range(wp'[v].readers) <=> BeingRead(q)' /\ rp'[q].wport = v
      BY <1>1, <1>2, <2>1 DEF ReadPorts
    <2>3. ASSUME NEW q \in RPorts
          PROVE  BeingRead(q)' => rp'[q].buf # NULL
      BY <1>1, <1>2, <2>1 DEF ReadPorts
    <2>4. ASSUME NEW q \in RPorts, rp'[q].magic # "R"
          PROVE  rp'[q].gport = FALSE
      <3>1. CASE q = closing
        BY <1>2, <3>1
      <3>2. CASE q # closing
        <4>1. rp[q].magic # "R" /\ rp[q].gport = FALSE
          BY <1>1, <1>2, <2>4, <3>2 DEF ReadPorts
        <4>2. rp'[q].gport => rp[q].gport
          BY <3>2, CloseEnds
        <4>3. rp'[q].gport \in BOOLEAN
          BY <1>2 DEF ReadRecord
        <4> QED BY <4>1, <4>2, <4>3
      <3> QED BY <3>1, <3>2
    <2> QED BY <1>2, <2>2, <2>3, <2>4, PortConstants DEF ReadPorts
  <1>7. GroupMembers'
    <2>1. CASE closing = Group
      <3>1. pg'.rp_list = <<>> /\ pg'.magic = "gone"
        BY <1>2, <2>1
      <3>2. Range(<<>>) = {}
        BY DEF Range
      <3> QED BY <3>1, <3>2, NothingOnce DEF GroupMembers
    <2>2. CASE closing # Group
      <3>1. \A q \in Range(pg.rp_list) : BeingRead(q) /\ rp[q].gport /\ q \in RPorts /\ q # closing
        BY <1>1, PortRecords DEF GroupMembers, BeingRead
      <3>2. \A q \in Range(pg.rp_list) : rp'[q].magic = "R" /\ rp'[q].gport /\ closing' # q
        BY <1>2, <2>2, <3>1, PortConstants
      <3> QED BY <1>1, <1>2, <2>2, <3>2 DEF GroupMembers, BeingRead
    <2> QED BY <2>1, <2>2
  <1> QED BY <1>4, <1>5, <1>6, <1>7 DEF PortBase

DestroyGroups(w) == IF \E r \in Range(wp[w].readers) : rp[r].gport THEN {Group} ELSE {}

(* What port_destroy does. *)
LEMMA Destroys ==
  ASSUME PortBase, NEW w \in WPorts, port_destroy(w)
  PROVE  /\ closing = NULL /\ wp[w].magic = "X" /\ Range(wp[w].readers) \subseteq RPorts
         /\ write_port_list' = Unlinked(write_port_list, w)
         /\ wake_all(Range(wp[w].readers) \cup DestroyGroups(w), "ERR_CANCELLED")
         /\ Range(wp[w].readers) \cup DestroyGroups(w) \in SUBSET Queues
         /\ rp' \in [RPorts -> ReadRecord]
         /\ \A r \in RPorts : /\ rp'[r].magic = rp[r].magic /\ rp'[r].buf = rp[r].buf
                              /\ rp'[r].gport = rp[r].gport
                              /\ r \in Range(wp[w].readers) => rp'[r].wport = NULL
                              /\ r \notin Range(wp[w].readers) => rp'[r] = rp[r]
         /\ fault' = IF pg.magic # "G" /\ DestroyGroups(w) # {} THEN "freed group" ELSE fault
         /\ wp' = [wp EXCEPT ![w] = [magic |-> "gone", name |-> NULL, unicast |-> FALSE,
                                     buf |-> NULL, readers |-> <<>>]]
         /\ written' = [written EXCEPT ![w] = 0]
         /\ refused' = [refused EXCEPT ![w] = {}]
         /\ seen' = [seen EXCEPT ![w] = 0]
         /\ pg' = pg /\ closing' = closing /\ misuse' = misuse
  <1> DEFINE readers == Range(wp[w].readers)
  <1>1. /\ closing = NULL /\ wp[w].magic = "X"
        /\ write_port_list' = Unlinked(write_port_list, w)
        /\ wake_all(readers \cup DestroyGroups(w), "ERR_CANCELLED")
        /\ rp' = [r \in RPorts |-> IF r \in readers THEN [rp[r] EXCEPT !.wport = NULL] ELSE rp[r]]
        /\ fault' = IF pg.magic # "G" /\ DestroyGroups(w) # {} THEN "freed group" ELSE fault
        /\ wp' = [wp EXCEPT ![w] = [magic |-> "gone", name |-> NULL, unicast |-> FALSE,
                                    buf |-> NULL, readers |-> <<>>]]
        /\ written' = [written EXCEPT ![w] = 0]
        /\ refused' = [refused EXCEPT ![w] = {}]
        /\ seen' = [seen EXCEPT ![w] = 0]
        /\ pg' = pg /\ closing' = closing /\ misuse' = misuse
    BY DEF port_destroy, DestroyGroups, Admin
  <1>2. readers \subseteq RPorts
    BY PortRecords, EmptyList DEF PortBase
  <1>3. readers \cup DestroyGroups(w) \in SUBSET Queues
    BY <1>2, PortConstants DEF DestroyGroups
  <1> HIDE DEF readers
  <1>4. ASSUME NEW r \in RPorts
        PROVE  /\ rp'[r] \in ReadRecord
               /\ rp'[r].magic = rp[r].magic /\ rp'[r].buf = rp[r].buf
               /\ rp'[r].gport = rp[r].gport
               /\ r \in readers => rp'[r].wport = NULL
               /\ r \notin readers => rp'[r] = rp[r]
    <2>1. rp[r] \in ReadRecord
      BY PortRecords DEF PortBase
    <2>2. rp'[r] = IF r \in readers THEN [rp[r] EXCEPT !.wport = NULL] ELSE rp[r]
      BY <1>1
    <2> QED BY <2>1, <2>2 DEF ReadRecord
  <1>5. rp' \in [RPorts -> ReadRecord]
    <2>1. rp' = [r \in RPorts |-> rp'[r]]
      BY <1>1
    <2> QED BY <1>4, <2>1
  <1> QED BY <1>1, <1>2, <1>3, <1>4, <1>5 DEF readers

LEMMA DestroyKeepsBase ==
  ASSUME PortBase, NEW w \in WPorts, port_destroy(w)
  PROVE  /\ PortBase' /\ SomeWoken("ERR_CANCELLED")
         /\ \A q \in Queues : waitq'[q] = waitq[q] \/ waitq'[q] = <<>>
  <1>1. PortTypeOK /\ WritePorts /\ ReadPorts /\ GroupMembers /\ PortThreads
    BY DEF PortBase
  <1>2. PortThreads' /\ SomeWoken("ERR_CANCELLED") /\ \A q \in Queues : waitq'[q] = waitq[q] \/ waitq'[q] = <<>>
    <2>1. PICK S \in SUBSET Queues : S = Range(wp[w].readers) \cup DestroyGroups(w)
      BY Destroys
    <2>2. wake_all(S, "ERR_CANCELLED") /\ "ERR_CANCELLED" \in WaitResults
      BY <2>1, Destroys DEF WaitResults
    <2> QED BY <1>1, <2>2, AllWoken
  <1>3. PICK p : p = [magic |-> "gone", name |-> NULL, unicast |-> FALSE, buf |-> NULL, readers |-> <<>>]
    OBVIOUS
  <1>4. p \in WriteRecord /\ p.magic = "gone" /\ p.readers = <<>> /\ p.unicast = FALSE
    BY <1>3 DEF WriteRecord
  <1>5. /\ wp' = [wp EXCEPT ![w] = p] /\ written' = [written EXCEPT ![w] = 0]
        /\ refused' = [refused EXCEPT ![w] = {}] /\ seen' = [seen EXCEPT ![w] = 0]
        /\ pg' = pg /\ closing' = closing /\ misuse' = misuse /\ closing = NULL
        /\ write_port_list' = Unlinked(write_port_list, w)
    BY <1>3, Destroys
  <1>6. /\ rp' \in [RPorts -> ReadRecord]
        /\ \A r \in RPorts : /\ rp'[r].magic = rp[r].magic /\ rp'[r].buf = rp[r].buf
                             /\ rp'[r].gport = rp[r].gport
                             /\ r \in Range(wp[w].readers) => rp'[r].wport = NULL
                             /\ r \notin Range(wp[w].readers) => rp'[r] = rp[r]
    BY Destroys
  <1>7. /\ wp' \in [WPorts -> WriteRecord] /\ wp'[w] = p
        /\ \A v \in WPorts \ {w} : wp'[v] = wp[v]
    BY <1>1, <1>4, <1>5 DEF PortTypeOK
  <1>8. /\ written' \in [WPorts -> Nat] /\ refused' \in [WPorts -> SUBSET Nat]
        /\ seen' \in [WPorts \cup RPorts -> Nat]
        /\ \A v \in WPorts \ {w} : written'[v] = written[v] /\ seen'[v] = seen[v]
    BY <1>1, <1>5 DEF PortTypeOK
  <1>9. /\ write_port_list' \in Seq(WPorts) /\ Once(write_port_list')
        /\ Range(write_port_list') = Range(write_port_list) \ {w}
    <2>1. write_port_list \in Seq(WPorts) /\ Once(write_port_list)
      BY <1>1 DEF PortTypeOK, WritePorts
    <2> QED BY <1>5, <2>1, ListUnlinked
  <1>10. PortTypeOK'
    BY <1>1, <1>5, <1>6, <1>7, <1>8, <1>9 DEF PortTypeOK, WriteRecord, ReadRecord, Queues
  <1>11. WritePorts'
    <2>1. WritePort(w)'
      <3>1. Len(<<>>) = 0
        OBVIOUS
      <3> QED BY <1>4, <1>7, <1>9, <3>1, NothingOnce DEF WritePort
    <2>2. \A v \in WPorts : WritePort(v)'
      BY <1>1, <1>7, <1>8, <1>9, <2>1, WritePortKept DEF WritePorts
    <2>3. WriteNames'
      <3>1. Range(write_port_list) \subseteq WPorts
        BY <1>1, PortRecords
      <3> QED BY <1>1, <1>5, <1>7, <1>9, <3>1 DEF WritePorts, WriteNames
    <2> QED BY <1>9, <2>2, <2>3 DEF WritePorts
  <1>12. ReadPorts'
    <2>1. ASSUME NEW q \in RPorts, NEW v \in WPorts
          PROVE  q \in Range(wp'[v].readers) <=> rp'[q].magic = "R" /\ closing' # q /\ rp'[q].wport = v
      <3>1. /\ q \in Range(wp[v].readers) <=> rp[q].magic = "R" /\ closing # q /\ rp[q].wport = v
            /\ q \in Range(wp[w].readers) <=> rp[q].magic = "R" /\ closing # q /\ rp[q].wport = w
        BY <1>1 DEF ReadPorts, BeingRead
      <3>2. Range(<<>>) = {}
        BY DEF Range
      <3>3. CASE v = w
        <4>1. q \notin Range(wp'[v].readers)
          BY <1>4, <1>7, <3>2, <3>3
        <4> QED BY <1>5, <1>6, <3>1, <3>3, <4>1, PortConstants
      <3>4. CASE v # w
        <4>1. wp'[v].readers = wp[v].readers
          BY <1>7, <3>4
        <4> QED BY <1>5, <1>6, <3>1, <3>4, <4>1, PortConstants
      <3> QED BY <3>3, <3>4
    <2>2. ASSUME NEW q \in RPorts
          PROVE  /\ rp'[q].magic = "R" /\ closing' # q => rp'[q].buf # NULL
                 /\ rp'[q].magic # "R" => rp'[q].gport = FALSE
      BY <1>1, <1>5, <1>6 DEF ReadPorts, BeingRead
    <2> QED BY <1>5, <2>1, <2>2, PortConstants DEF ReadPorts, BeingRead
  <1>13. GroupMembers'
    BY <1>1, <1>5, <1>6, PortRecords DEF GroupMembers, BeingRead
  <1> QED BY <1>2, <1>10, <1>11, <1>12, <1>13 DEF PortBase
-----------------------------------------------------------------------------
(* Until it is misused, nothing is used after it was freed. *)

LEMMA WokenExpect ==
  ASSUME NEW ret, SomeWoken(ret)
  PROVE  \A t \in Readers : Expects(t)' => Expects(t) /\ reader'[t].at = reader[t].at
  BY DEF SomeWoken, Expects

LEMMA FreshKept ==
  ASSUME PortBase, PortsFresh, fault' = "none",
         \A t \in Readers : Expects(t)' => Expects(t) /\ reader'[t].at = reader[t].at,
         \A q \in Queues : IsOpen(q) /\ q # closing => IsOpen(q)' /\ q # closing',
         \A r \in RPorts : rp'[r].gport /\ closing' # r => r \in Range(pg'.rp_list)
  PROVE  PortsFresh'
  <1>1. ASSUME NEW t \in Readers, Expects(t)'
        PROVE  IsOpen(reader[t].at)' /\ reader'[t].at # closing'
    <2>1. Expects(t) /\ reader'[t].at = reader[t].at
      BY <1>1
    <2>2. IsOpen(reader[t].at) /\ reader[t].at # closing
      BY <2>1 DEF PortsFresh
    <2>3. reader[t] \in ReaderThread /\ reader[t].at # NULL
      BY <2>1 DEF PortBase, PortThreads, Expects
    <2>4. PICK q \in Queues : q = reader[t].at
      BY <2>3 DEF ReaderThread
    <2>5. IsOpen(q)' /\ q # closing'
      BY <2>2, <2>4
    <2> QED BY <2>1, <2>4, <2>5 DEF IsOpen
  <1> QED BY <1>1 DEF PortsFresh

LEMMA GroupIsOpen ==
  ASSUME PortBase, PortsFresh, NEW r \in RPorts, rp[r].gport, closing # r
  PROVE  pg.magic = "G"
  <1>1. r \in Range(pg.rp_list)
    BY DEF PortsFresh
  <1>2. pg.rp_list # <<>>
    BY <1>1, PortRecords, EmptyList DEF PortBase
  <1> QED BY <1>2 DEF PortBase, GroupMembers

LEMMA OpenFresh ==
  ASSUME PortBase, PortsFresh, NEW r \in RPorts, NEW name \in Names, Open(r, name)
  PROVE  PortsFresh'
  <1>1. /\ pg' = pg /\ reader' = reader /\ closing' = closing /\ fault' = fault
        /\ \A q \in RPorts \ {r} : rp'[q] = rp[q]
        /\ rp'[r].magic = "R" /\ rp'[r].gport = FALSE
    BY DEF Open, port_open, PortBase, PortTypeOK
  <1>2. \A q \in Queues : IsOpen(q) /\ q # closing => IsOpen(q)' /\ q # closing'
    BY <1>1 DEF IsOpen, Queues
  <1>3. \A t \in Readers : Expects(t)' => Expects(t) /\ reader'[t].at = reader[t].at
    BY <1>1 DEF Expects
  <1>4. fault' = "none"
    BY <1>1 DEF PortsFresh
  <1>5. \A q \in RPorts : rp'[q].gport /\ closing' # q => q \in Range(pg'.rp_list)
    BY <1>1 DEF PortsFresh
  <1> QED BY <1>2, <1>3, <1>4, <1>5, FreshKept

LEMMA GroupFresh ==
  ASSUME PortBase, PortsFresh, NEW s \in PortLists, port_group(s)
  PROVE  PortsFresh'
  <1>1. /\ pg.magic = "none" /\ pg' = [magic |-> "G", rp_list |-> s]
        /\ rp' = [r \in RPorts |-> IF r \in Range(s) THEN [rp[r] EXCEPT !.gport = TRUE] ELSE rp[r]]
        /\ reader' = reader /\ closing' = closing /\ fault' = fault /\ closing = NULL
    BY DEF port_group, Admin
  <1>2. ASSUME NEW r \in RPorts
        PROVE  rp'[r].magic = rp[r].magic /\ (r \notin Range(s) => rp'[r] = rp[r])
    <2>1. rp[r] \in ReadRecord
      BY PortRecords DEF PortBase
    <2> QED BY <1>1, <2>1 DEF ReadRecord
  <1>3. \A q \in Queues : IsOpen(q) /\ q # closing => IsOpen(q)' /\ q # closing'
    BY <1>1, <1>2 DEF IsOpen, Queues
  <1>4. \A t \in Readers : Expects(t)' => Expects(t) /\ reader'[t].at = reader[t].at
    BY <1>1 DEF Expects
  <1>5. ASSUME NEW r \in RPorts, rp'[r].gport, closing' # r PROVE r \in Range(pg'.rp_list)
    <2>1. r \notin Range(s) => rp[r].gport /\ closing # r
      BY <1>1, <1>2, <1>5
    <2>2. r \notin Range(s) => pg.magic = "G"
      BY <2>1, GroupIsOpen
    <2> QED BY <1>1, <2>2
  <1>6. fault' = "none"
    BY <1>1 DEF PortsFresh
  <1> QED BY <1>3, <1>4, <1>5, <1>6, FreshKept

LEMMA GroupAddFresh ==
  ASSUME PortBase, PortsFresh, NEW r \in RPorts, port_group_add(r)
  PROVE  PortsFresh'
  <1>1. /\ pg' = [pg EXCEPT !.rp_list = Append(@, r)] /\ rp' = [rp EXCEPT ![r].gport = TRUE]
        /\ closing' = closing /\ fault' = fault /\ pg.magic = "G"
    BY DEF port_group_add
  <1>2. \A t \in Readers : Expects(t)' => Expects(t) /\ reader'[t].at = reader[t].at
    BY GroupAddKeepsBase, WokenExpect
  <1>3. /\ rp \in [RPorts -> ReadRecord] /\ rp[r] \in ReadRecord /\ pg.rp_list \in Seq(RPorts)
        /\ pg \in [magic : {"none", "G", "gone"}, rp_list : Seq(RPorts)]
    BY DEF PortBase, PortTypeOK
  <1>4. /\ rp'[r].magic = rp[r].magic /\ \A q \in RPorts \ {r} : rp'[q] = rp[q]
        /\ pg'.magic = "G" /\ pg'.rp_list = Append(pg.rp_list, r)
    BY <1>1, <1>3 DEF ReadRecord
  <1>5. ASSUME NEW s \in Seq(RPorts) PROVE Range(Append(s, r)) = Range(s) \cup {r}
    BY ListAppended
  <1>6. \A q \in RPorts : rp'[q].gport /\ closing' # q => q \in Range(pg'.rp_list)
    BY <1>1, <1>3, <1>4, <1>5 DEF PortsFresh
  <1>7. \A q \in Queues : IsOpen(q) /\ q # closing => IsOpen(q)' /\ q # closing'
    BY <1>1, <1>4 DEF IsOpen, Queues
  <1>8. fault' = "none"
    BY <1>1 DEF PortsFresh
  <1> QED BY <1>2, <1>6, <1>7, <1>8, FreshKept

LEMMA WriteFresh ==
  ASSUME PortBase, PortsFresh, NEW w \in WPorts, NEW count \in Counts, port_write(w, count)
  PROVE  PortsFresh'
  <1>1. \A t \in Readers : Expects(t)' => Expects(t) /\ reader'[t].at = reader[t].at
    BY WriteKeepsBase, WokenExpect
  <1>2. /\ pg' = pg /\ closing' = closing
        /\ \A r \in RPorts : rp'[r].magic = rp[r].magic /\ rp'[r].gport = rp[r].gport
    BY WriteBuffers
  <1>3. \A q \in Queues : IsOpen(q) /\ q # closing => IsOpen(q)' /\ q # closing'
    BY <1>2 DEF IsOpen, Queues
  <1>4. \A r \in RPorts : rp'[r].gport /\ closing' # r => r \in Range(pg'.rp_list)
    BY <1>2 DEF PortsFresh
  <1>5. fault' = "none"
    <2>1. fault = "none"
      BY DEF PortsFresh
    <2>2. CASE wp[w].buf # NULL
      BY <2>1, <2>2, WriteBuffers
    <2>3. CASE wp[w].buf = NULL
      <3>1. ASSUME NEW r \in TakerPorts(w, count), rp[r].gport PROVE pg.magic = "G"
        <4>1. r \in RPorts /\ closing # r
          BY TakersRead DEF BeingRead
        <4> QED BY <3>1, <4>1, GroupIsOpen
      <3>2. fault' = IF pg.magic # "G" /\ \E r \in TakerPorts(w, count) : rp[r].gport
                     THEN "freed group" ELSE fault
        BY <2>3, WriteBuffers
      <3> QED BY <2>1, <3>1, <3>2
    <2> QED BY <2>2, <2>3
  <1> QED BY <1>1, <1>3, <1>4, <1>5, FreshKept

LEMMA PassFresh ==
  ASSUME PortBase, PortsFresh, NEW t \in Readers, ~reader[t].blocked, NEW q \in Queues, MakesPass(t, q),
         IsOpen(q), q # closing
  PROVE  PortsFresh'
  <1>1. pg' = pg /\ closing' = closing /\ Pass(t, q)
    BY DEF MakesPass
  <1>2. q = Group \/ rp[q].buf # NULL
    <2>1. CASE q # Group
      <3>1. q \in RPorts /\ BeingRead(q)
        BY <2>1 DEF Queues, IsOpen, BeingRead
      <3> QED BY <3>1 DEF PortBase, ReadPorts
    <2> QED BY <2>1
  <1>3. fault' = "none"
    BY <1>1, <1>2 DEF PortsFresh, Pass, TakePacket, Block
  <1>4. CASE TakePacket(t, q)
    <2>1. PICK r : r = TakenFrom(q)
      OBVIOUS
    <2>2. /\ rp' = [rp EXCEPT ![r].buf = Tail(@)] /\ seen' = [seen EXCEPT ![r] = Head(rp[r].buf)]
          /\ reader' = [reader EXCEPT ![t].at = NULL] /\ waitq' = waitq /\ Ready(q) # {}
      BY <1>4, <2>1 DEF TakePacket, TakenFrom
    <2>3. r \in RPorts /\ rp[r].buf \in Seq(Nat) /\ rp[r].buf # <<>>
      BY <1>2, <2>1, <2>2, TakesFrom
    <2>4. \A p \in RPorts : rp'[p].magic = rp[p].magic /\ rp'[p].gport = rp[p].gport
      BY <2>2, <2>3, PacketTaken
    <2>5. \A u \in Readers : Expects(u)' => Expects(u) /\ reader'[u].at = reader[u].at
      <3>1. reader \in [Readers -> ReaderThread] /\ reader[t] \in ReaderThread
        BY DEF PortBase, PortThreads
      <3>2. reader'[t].at = NULL /\ \A u \in Readers \ {t} : reader'[u] = reader[u]
        BY <2>2, <3>1 DEF ReaderThread
      <3> QED BY <3>2 DEF Expects
    <2>6. \A p \in Queues : IsOpen(p) /\ p # closing => IsOpen(p)' /\ p # closing'
      BY <1>1, <2>4 DEF IsOpen, Queues
    <2>7. \A p \in RPorts : rp'[p].gport /\ closing' # p => p \in Range(pg'.rp_list)
      BY <1>1, <2>4 DEF PortsFresh
    <2> QED BY <1>3, <2>5, <2>6, <2>7, FreshKept
  <1>5. CASE Block(t, q)
    <2>1. rp' = rp /\ reader' = [reader EXCEPT ![t] = [at |-> q, blocked |-> TRUE, ret |-> "NO_ERROR"]]
      BY <1>5 DEF Block
    <2>2. reader'[t].at = q /\ \A u \in Readers \ {t} : reader'[u] = reader[u]
      BY <2>1 DEF PortBase, PortThreads
    <2>3. ASSUME NEW u \in Readers, Expects(u)'
          PROVE  IsOpen(reader[u].at)' /\ reader'[u].at # closing'
      BY <1>1, <2>1, <2>2, <2>3 DEF PortsFresh, Expects, IsOpen
    <2> QED BY <1>1, <1>3, <2>1, <2>3 DEF PortsFresh
  <1> QED BY <1>1, <1>2, <1>4, <1>5 DEF Pass

LEMMA ReadFresh ==
  ASSUME PortBase, PortsFresh, NEW t \in Readers, NEW q \in Queues, port_read(t, q), "stale" \notin misuse'
  PROVE  PortsFresh'
  <1>1. IsOpen(q) /\ q # closing
    BY DEF port_read, IsOpen
  <1> QED BY <1>1, ReadKeepsBase, PassFresh

LEMMA ReturnsFresh ==
  ASSUME PortBase, PortsFresh, NEW t \in Readers, port_read_returns(t)
  PROVE  PortsFresh'
  <1>1. PICK q : q = reader[t].at
    OBVIOUS
  <1>2. /\ ~reader[t].blocked /\ q # NULL
        /\ \/ /\ reader' = [reader EXCEPT ![t].at = NULL]
              /\ rp' = rp /\ fault' = fault
           \/ reader[t].ret = "NO_ERROR" /\ Closed(q)
           \/ reader[t].ret = "NO_ERROR" /\ Pass(t, q)
        /\ write_port_list' = write_port_list /\ wp' = wp /\ pg' = pg /\ closing' = closing
        /\ written' = written /\ refused' = refused /\ misuse' = misuse
    BY <1>1 DEF port_read_returns
  <1>3. reader \in [Readers -> ReaderThread] /\ reader[t] \in ReaderThread
    BY DEF PortBase, PortThreads
  <1>4. q \in Queues
    BY <1>1, <1>2, <1>3 DEF ReaderThread
  <1>5. CASE reader' = [reader EXCEPT ![t].at = NULL] /\ rp' = rp /\ fault' = fault
    <2>1. reader'[t].at = NULL /\ \A u \in Readers \ {t} : reader'[u] = reader[u]
      BY <1>3, <1>5 DEF ReaderThread
    <2>2. \A u \in Readers : Expects(u)' => Expects(u) /\ reader'[u].at = reader[u].at
      BY <2>1 DEF Expects
    <2>3. /\ \A p \in Queues : IsOpen(p) /\ p # closing => IsOpen(p)' /\ p # closing'
          /\ \A p \in RPorts : rp'[p].gport /\ closing' # p => p \in Range(pg'.rp_list)
          /\ fault' = "none"
      BY <1>2, <1>5 DEF IsOpen, PortsFresh
    <2> QED BY <2>2, <2>3, FreshKept
  <1>6. CASE reader[t].ret = "NO_ERROR"
    <2>1. IsOpen(q) /\ q # closing
      BY <1>1, <1>2, <1>6 DEF PortsFresh, Expects
    <2>2. ~Closed(q)
      BY <2>1 DEF Closed, IsOpen
    <2>3. CASE Pass(t, q)
      BY <1>2, <1>4, <2>1, <2>3, PassFresh DEF MakesPass
    <2> QED BY <1>2, <1>5, <2>2, <2>3
  <1> QED BY <1>2, <1>5, <1>6

LEMMA TimeoutFresh ==
  ASSUME PortBase, PortsFresh, NEW t \in Readers, read_timeout(t)
  PROVE  PortsFresh'
  <1>1. /\ \A u \in Readers \ {t} : reader'[u] = reader[u]
        /\ ~reader'[t].blocked /\ reader'[t].ret = "ERR_TIMED_OUT"
    BY ThreadTimesOut, PortConstants DEF read_timeout, PortBase
  <1>2. rp' = rp /\ pg' = pg /\ closing' = closing /\ fault' = fault
    BY DEF read_timeout
  <1>3. \A u \in Readers : Expects(u)' => Expects(u) /\ reader'[u].at = reader[u].at
    BY <1>1 DEF Expects
  <1> QED BY <1>2, <1>3, FreshKept DEF IsOpen, PortsFresh

LEMMA CloseFresh ==
  ASSUME PortBase, PortsFresh, NEW r \in RPorts, port_close(r), "stale" \notin misuse'
  PROVE  PortsFresh'
  <1>1. /\ SomeWoken("ERR_OBJECT_DESTROYED")
        /\ \A t \in Readers : reader[t].at = r /\ reader[t].blocked =>
                                ~reader'[t].blocked /\ reader'[t].ret = "ERR_OBJECT_DESTROYED"
        /\ Range(pg'.rp_list) = Range(pg.rp_list) \ {r} /\ pg'.magic = pg.magic
    BY CloseKeepsBase
  <1>2. /\ closing = NULL /\ closing' = r
        /\ \A q \in RPorts : rp'[q].magic = rp[q].magic /\ rp'[q].gport = rp[q].gport
    BY CloseBuffers
  <1>3. fault' = "none"
    BY <1>2, PortConstants DEF port_close, PortsFresh
  <1>4. \A q \in RPorts : rp'[q].gport /\ closing' # q => q \in Range(pg'.rp_list)
    BY <1>1, <1>2, PortConstants DEF PortsFresh
  <1>5. ~\E t \in Using(r) : ~reader[t].blocked /\ reader[t].ret = "NO_ERROR"
    BY DEF port_close, InUse
  <1>6. ASSUME NEW t \in Readers, Expects(t)'
        PROVE  IsOpen(reader[t].at)' /\ reader'[t].at # closing'
    <2>1. Expects(t) /\ reader'[t].at = reader[t].at
      BY <1>1, <1>6, WokenExpect
    <2>2. reader[t].at # r
      <3>1. reader[t].at = r /\ reader[t].blocked => ~Expects(t)'
        BY <1>1 DEF Expects
      <3>2. reader[t].at = r => reader[t].blocked
        BY <1>5, <2>1 DEF Using, Expects
      <3> QED BY <1>6, <3>1, <3>2
    <2>3. IsOpen(reader[t].at) /\ reader[t] \in ReaderThread /\ reader[t].at # NULL
      BY <2>1 DEF PortsFresh, PortBase, PortThreads, Expects
    <2>4. PICK q \in Queues : q = reader[t].at
      BY <2>3 DEF ReaderThread
    <2>5. IsOpen(q)'
      BY <1>1, <1>2, <2>3, <2>4 DEF IsOpen, Queues
    <2> QED BY <1>2, <2>1, <2>2, <2>4, <2>5 DEF IsOpen
  <1> QED BY <1>3, <1>4, <1>6 DEF PortsFresh

LEMMA CloseGroupFresh ==
  ASSUME PortBase, PortsFresh, close_group, "stale" \notin misuse'
  PROVE  PortsFresh'
  <1>1. /\ SomeWoken("ERR_OBJECT_DESTROYED")
        /\ \A t \in Readers : reader[t].at = Group /\ reader[t].blocked =>
                                ~reader'[t].blocked /\ reader'[t].ret = "ERR_OBJECT_DESTROYED"
    BY CloseGroupKeepsBase
  <1>2. closing = NULL /\ closing' = Group /\ rp' = rp /\ pg' = pg /\ fault' = fault
    BY DEF close_group, Admin
  <1>3. ~\E t \in Using(Group) : ~reader[t].blocked /\ reader[t].ret = "NO_ERROR"
    BY DEF close_group, InUse
  <1>4. ASSUME NEW t \in Readers, Expects(t)'
        PROVE  IsOpen(reader[t].at)' /\ reader'[t].at # closing'
    <2>1. Expects(t) /\ reader'[t].at = reader[t].at
      BY <1>1, <1>4, WokenExpect
    <2>2. reader[t].at # Group
      <3>1. reader[t].at = Group /\ reader[t].blocked => ~Expects(t)'
        BY <1>1 DEF Expects
      <3>2. reader[t].at = Group => reader[t].blocked
        BY <1>3, <2>1 DEF Using, Expects
      <3> QED BY <1>4, <3>1, <3>2
    <2>3. IsOpen(reader[t].at)
      BY <2>1 DEF PortsFresh
    <2> QED BY <1>2, <2>1, <2>2, <2>3 DEF IsOpen
  <1>5. \A r \in RPorts : rp'[r].gport /\ closing' # r => r \in Range(pg'.rp_list)
    BY <1>2, PortConstants DEF PortsFresh
  <1> QED BY <1>2, <1>4, <1>5 DEF PortsFresh

LEMMA CloseEndsFresh ==
  ASSUME PortBase, PortsFresh, port_close_ends
  PROVE  PortsFresh'
  <1>1. /\ closing' = NULL /\ reader' = reader /\ fault' = fault
        /\ \A q \in RPorts : /\ q # closing => /\ rp'[q].magic = rp[q].magic
                                               /\ rp'[q].gport => rp[q].gport /\ (closing = Group => q \notin Range(pg.rp_list))
                             /\ q = closing => rp'[q].gport = FALSE
        /\ closing # Group => pg' = pg
    BY CloseEnds
  <1>2. \A q \in Queues : IsOpen(q) /\ q # closing => IsOpen(q)' /\ q # closing'
    BY <1>1, PortConstants DEF IsOpen, Queues
  <1>3. \A t \in Readers : Expects(t)' => Expects(t) /\ reader'[t].at = reader[t].at
    BY <1>1 DEF Expects
  <1>4. \A q \in RPorts : rp'[q].gport /\ closing' # q => q \in Range(pg'.rp_list)
    BY <1>1 DEF PortsFresh
  <1>5. fault' = "none"
    BY <1>1 DEF PortsFresh
  <1> QED BY <1>2, <1>3, <1>4, <1>5, FreshKept

LEMMA DestroyFresh ==
  ASSUME PortBase, PortsFresh, NEW w \in WPorts, port_destroy(w)
  PROVE  PortsFresh'
  <1>1. /\ closing' = closing /\ pg' = pg /\ Range(wp[w].readers) \subseteq RPorts
        /\ \A r \in RPorts : rp'[r].magic = rp[r].magic /\ rp'[r].gport = rp[r].gport
        /\ fault' = IF pg.magic # "G" /\ DestroyGroups(w) # {} THEN "freed group" ELSE fault
    BY Destroys
  <1>2. \A t \in Readers : Expects(t)' => Expects(t) /\ reader'[t].at = reader[t].at
    BY DestroyKeepsBase, WokenExpect
  <1>3. \A q \in Queues : IsOpen(q) /\ q # closing => IsOpen(q)' /\ q # closing'
    BY <1>1 DEF IsOpen, Queues
  <1>4. \A r \in RPorts : rp'[r].gport /\ closing' # r => r \in Range(pg'.rp_list)
    BY <1>1 DEF PortsFresh
  <1>5. DestroyGroups(w) # {} => pg.magic = "G"
    <2>1. ASSUME NEW r \in Range(wp[w].readers), rp[r].gport PROVE pg.magic = "G"
      <3>1. r \in RPorts /\ closing # r
        BY <1>1 DEF PortBase, ReadPorts, BeingRead
      <3> QED BY <2>1, <3>1, GroupIsOpen
    <2> QED BY <2>1 DEF DestroyGroups
  <1>6. fault' = "none"
    BY <1>1, <1>5 DEF PortsFresh
  <1> QED BY <1>2, <1>3, <1>4, <1>6, FreshKept
-----------------------------------------------------------------------------
(* No packet is lost. *)

LEMMA ContinuesSame ==
  ASSUME NEW b, NEW v, NEW m, Continues(b, v, m),
         written'[v] = written[v], refused'[v] = refused[v]
  PROVE  Continues(b, v, m)'
  BY DEF Continues, HoldsAllAfter

LEMMA ContinuesEmpty ==
  ASSUME PortTypeOK, NEW w \in WPorts
  PROVE  Continues(<<>>, w, written[w])
  <1>1. Range(<<>>) = {} /\ Increasing(<<>>)
    BY DEF Range, Increasing
  <1>2. written[w] \in Nat
    BY DEF PortTypeOK
  <1> QED BY <1>1, <1>2 DEF Continues, HoldsAllAfter

LEMMA ContinuesRefused ==
  ASSUME PortTypeOK, NEW w \in WPorts, NEW count \in Nat, NEW b \in Seq(Nat), NEW m \in Nat, Continues(b, w, m),
         written'[w] = written[w] + count,
         refused'[w] = refused[w] \cup (written[w] + 1 .. written[w] + count)
  PROVE  Continues(b, w, m)'
  <1>1. written[w] \in Nat /\ Range(b) \subseteq Nat
    BY EmptyList DEF PortTypeOK
  <1>2. ASSUME NEW p \in m + 1 .. written'[w] PROVE p \in Range(b) \cup refused'[w]
    <2>1. CASE p <= written[w]
      <3>1. p \in m + 1 .. written[w]
        BY <1>1, <2>1
      <3> QED BY <3>1 DEF Continues, HoldsAllAfter
    <2>2. CASE ~(p <= written[w])
      <3>1. p \in written[w] + 1 .. written[w] + count
        BY <1>1, <2>2
      <3> QED BY <3>1
    <2> QED BY <2>1, <2>2
  <1>3. m <= written'[w] /\ \A p \in Range(b) : p <= written'[w]
    BY <1>1 DEF Continues
  <1> QED BY <1>2, <1>3 DEF Continues, HoldsAllAfter

LEMMA ContinuesWritten ==
  ASSUME PortTypeOK, NEW w \in WPorts, NEW count \in Nat, NEW b \in Seq(Nat), NEW m \in Nat, Continues(b, w, m),
         written'[w] = written[w] + count, refused[w] \subseteq refused'[w],
         NEW c, c = b \o NewPackets(w, count)
  PROVE  Continues(c, w, m)'
  <1>1. written[w] \in Nat /\ Range(b) \subseteq Nat /\ DOMAIN b = 1 .. Len(b) /\ Len(b) \in Nat
    BY EmptyList DEF PortTypeOK
  <1>2. PICK k : k = NewPackets(w, count)
    OBVIOUS
  <1>3. /\ k \in Seq(Nat) /\ Len(k) = count /\ \A i \in 1 .. count : k[i] = written[w] + i
    BY <1>2, PacketsWritten
  <1>4. /\ c \in Seq(Nat) /\ Len(c) = Len(b) + count
        /\ \A i \in 1 .. Len(b) + count : c[i] = IF i <= Len(b) THEN b[i] ELSE k[i - Len(b)]
    <2>1. /\ b \o k \in Seq(Nat) /\ Len(b \o k) = Len(b) + Len(k)
          /\ \A i \in 1 .. Len(b) + Len(k) : (b \o k)[i] = IF i <= Len(b) THEN b[i] ELSE k[i - Len(b)]
      BY <1>3, ListJoined
    <2>2. c = b \o k
      BY <1>2
    <2> QED BY <1>3, <2>1, <2>2
  <1>5. DOMAIN c = 1 .. Len(b) + count
    BY <1>4
  <1>6. \A i \in 1 .. Len(b) : c[i] = b[i] /\ b[i] \in Range(b) /\ b[i] \in Nat
    <2> TAKE i \in 1 .. Len(b)
    <2>1. i \in 1 .. Len(b) + count /\ i <= Len(b)
      BY <1>1
    <2>2. b[i] \in Range(b)
      BY <1>1 DEF Range
    <2> QED BY <1>1, <1>4, <2>1, <2>2
  <1>7. ASSUME NEW i \in Len(b) + 1 .. Len(b) + count PROVE c[i] = written[w] + (i - Len(b))
    <2>1. i - Len(b) \in 1 .. count /\ ~(i <= Len(b)) /\ i \in 1 .. Len(b) + count
      BY <1>1
    <2> QED BY <1>3, <1>4, <2>1
  <1>8. \A i \in DOMAIN c : i \in 1 .. Len(b) \/ i \in Len(b) + 1 .. Len(b) + count
    BY <1>1, <1>5
  <1>9. /\ \A p \in Range(b) : p > m /\ p <= written[w]
        /\ m <= written[w]
        /\ \A i, j \in 1 .. Len(b) : i < j => b[i] < b[j]
        /\ \A p \in m + 1 .. written[w] : p \in Range(b) \cup refused[w]
    BY <1>1 DEF Continues, HoldsAllAfter, Increasing
  <1>10. ASSUME NEW i \in DOMAIN c, NEW j \in DOMAIN c, i < j PROVE c[i] < c[j]
    <2>1. CASE i \in 1 .. Len(b) /\ j \in 1 .. Len(b)
      BY <1>6, <1>9, <1>10, <2>1
    <2>2. CASE i \in 1 .. Len(b) /\ j \in Len(b) + 1 .. Len(b) + count
      <3>1. c[i] \in Nat /\ c[i] <= written[w]
        BY <1>6, <1>9, <2>2
      <3>2. c[j] = written[w] + (j - Len(b)) /\ j - Len(b) >= 1
        BY <1>1, <1>7, <2>2
      <3> QED BY <1>1, <2>2, <3>1, <3>2
    <2>3. CASE i \in Len(b) + 1 .. Len(b) + count /\ j \in Len(b) + 1 .. Len(b) + count
      BY <1>1, <1>7, <1>10, <2>3
    <2>4. CASE i \in Len(b) + 1 .. Len(b) + count /\ j \in 1 .. Len(b)
      BY <1>1, <1>10, <2>4
    <2> QED BY <1>8, <2>1, <2>2, <2>3, <2>4
  <1>11. ASSUME NEW i \in DOMAIN c PROVE c[i] > m /\ c[i] <= written'[w]
    <2>1. CASE i \in 1 .. Len(b)
      BY <1>1, <1>6, <1>9, <2>1
    <2>2. CASE i \in Len(b) + 1 .. Len(b) + count
      <3>1. c[i] = written[w] + (i - Len(b)) /\ i - Len(b) >= 1 /\ i - Len(b) <= count /\ i \in Nat
        BY <1>1, <1>7, <2>2
      <3> QED BY <1>1, <1>9, <3>1
    <2> QED BY <1>8, <2>1, <2>2
  <1>12. ASSUME NEW p \in m + 1 .. written'[w] PROVE p \in Range(c) \cup refused'[w]
    <2>1. CASE p <= written[w]
      <3>1. p \in m + 1 .. written[w]
        BY <1>1, <2>1
      <3>2. CASE p \in Range(b)
        <4>1. PICK i \in 1 .. Len(b) : b[i] = p
          BY <1>1, <3>2 DEF Range
        <4>2. i \in DOMAIN c /\ c[i] = p
          BY <1>1, <1>5, <1>6, <4>1
        <4> QED BY <4>2 DEF Range
      <3> QED BY <1>9, <3>1, <3>2
    <2>2. CASE ~(p <= written[w])
      <3>1. Len(b) + (p - written[w]) \in Len(b) + 1 .. Len(b) + count
        BY <1>1, <2>2
      <3>2. PICK i : i = Len(b) + (p - written[w])
        OBVIOUS
      <3>3. c[i] = p /\ i \in DOMAIN c
        <4>1. i \in Len(b) + 1 .. Len(b) + count
          BY <3>1, <3>2
        <4>2. c[i] = written[w] + (i - Len(b))
          BY <1>7, <4>1
        <4>3. written[w] + (i - Len(b)) = p
          BY <1>1, <3>2
        <4>4. i \in DOMAIN c
          BY <1>1, <1>5, <4>1
        <4> QED BY <4>2, <4>3, <4>4
      <3> QED BY <3>3 DEF Range
    <2> QED BY <2>1, <2>2
  <1>13. m <= written'[w]
    BY <1>1, <1>9
  <1> QED BY <1>10, <1>11, <1>12, <1>13 DEF Continues, HoldsAllAfter, Increasing, Range

LEMMA ContinuesTaken ==
  ASSUME PortTypeOK, NEW w \in WPorts, NEW b \in Seq(Nat), b # <<>>, NEW m \in Nat, Continues(b, w, m)
  PROVE  Continues(Tail(b), w, Head(b))
  <1>1. written[w] \in Nat /\ Range(b) \subseteq Nat /\ DOMAIN b = 1 .. Len(b) /\ Len(b) \in Nat /\ Len(b) >= 1
    BY EmptyList DEF PortTypeOK
  <1>2. PICK c : c = Tail(b)
    OBVIOUS
  <1>3. /\ c \in Seq(Nat) /\ Len(c) = Len(b) - 1 /\ DOMAIN c = 1 .. Len(b) - 1
        /\ \A i \in 1 .. Len(b) - 1 : c[i] = b[i + 1]
    BY <1>1, <1>2
  <1>4. Head(b) = b[1] /\ b[1] \in Range(b) /\ b[1] \in Nat
    BY <1>1 DEF Range
  <1>5. /\ \A p \in Range(b) : p > m /\ p <= written[w]
        /\ \A i, j \in 1 .. Len(b) : i < j => b[i] < b[j]
        /\ \A p \in m + 1 .. written[w] : p \in Range(b) \cup refused[w]
    BY <1>1 DEF Continues, HoldsAllAfter, Increasing
  <1>6. \A i \in DOMAIN c : i + 1 \in 1 .. Len(b) /\ 1 \in 1 .. Len(b) /\ 1 < i + 1 /\ c[i] = b[i + 1]
    <2> TAKE i \in DOMAIN c
    <2>1. i \in 1 .. Len(b) - 1
      BY <1>3
    <2>2. i + 1 \in 1 .. Len(b) /\ 1 \in 1 .. Len(b) /\ 1 < i + 1
      BY <1>1, <2>1
    <2> QED BY <1>3, <2>1, <2>2
  <1>7. ASSUME NEW i \in DOMAIN c PROVE c[i] > b[1] /\ c[i] <= written[w] /\ c[i] \in Nat
    <2>1. c[i] \in Range(b)
      BY <1>1, <1>6 DEF Range
    <2>2. c[i] \in Nat /\ c[i] <= written[w]
      BY <1>1, <1>5, <2>1
    <2>3. b[1] < c[i]
      BY <1>5, <1>6
    <2> QED BY <1>4, <2>2, <2>3
  <1>8. ASSUME NEW i \in DOMAIN c, NEW j \in DOMAIN c, i < j PROVE c[i] < c[j]
    <2>1. i + 1 < j + 1
      BY <1>3, <1>8
    <2> QED BY <1>5, <1>6, <2>1
  <1>9. ASSUME NEW p \in b[1] + 1 .. written[w] PROVE p \in Range(c) \cup refused[w]
    <2>1. p \in m + 1 .. written[w]
      BY <1>1, <1>4, <1>5
    <2>2. CASE p \in Range(b)
      <3>1. PICK i \in 1 .. Len(b) : b[i] = p
        BY <1>1, <2>2 DEF Range
      <3>2. i # 1
        BY <1>1, <1>4, <3>1
      <3>3. i - 1 \in DOMAIN c /\ c[i - 1] = p
        <4>1. i - 1 \in 1 .. Len(b) - 1 /\ (i - 1) + 1 = i
          BY <1>1, <3>2
        <4> QED BY <1>3, <3>1, <4>1
      <3> QED BY <3>3 DEF Range
    <2> QED BY <1>5, <2>1, <2>2
  <1>10. b[1] <= written[w]
    BY <1>4, <1>5
  <1>11. Continues(c, w, b[1])
    BY <1>7, <1>8, <1>9, <1>10 DEF Continues, HoldsAllAfter, Increasing, Range
  <1> QED BY <1>2, <1>4, <1>11
-----------------------------------------------------------------------------
(* Nothing is written, read, opened or closed. *)
LEMMA PacketsFrame ==
  ASSUME PacketsKept, written' = written, refused' = refused,
         \A r \in RPorts : BeingRead(r)' => /\ BeingRead(r) /\ rp'[r].buf = rp[r].buf /\ seen'[r] = seen[r]
                                            /\ rp'[r].wport = rp[r].wport,
         \A w \in WPorts : wp'[w].magic \in {"alloc", "W", "X"} /\ wp'[w].buf # NULL =>
                             /\ wp[w].magic \in {"alloc", "W", "X"} /\ wp'[w].buf = wp[w].buf
                             /\ seen'[w] = seen[w]
  PROVE  PacketsKept'
  <1>1. ASSUME NEW r \in RPorts, BeingRead(r)', rp'[r].wport # NULL
        PROVE  Continues(rp[r].buf, rp[r].wport, seen[r])'
    <2>1. /\ BeingRead(r) /\ rp'[r].buf = rp[r].buf /\ seen'[r] = seen[r] /\ rp'[r].wport = rp[r].wport
      BY <1>1
    <2>2. Continues(rp[r].buf, rp[r].wport, seen[r])
      BY <1>1, <2>1 DEF PacketsKept
    <2> QED BY <2>1, <2>2 DEF Continues, HoldsAllAfter
  <1>2. ASSUME NEW w \in WPorts, wp'[w].magic \in {"alloc", "W", "X"}, wp'[w].buf # NULL
        PROVE  Continues(wp[w].buf, w, seen[w])'
    <2>1. /\ wp[w].magic \in {"alloc", "W", "X"} /\ wp'[w].buf = wp[w].buf /\ seen'[w] = seen[w]
      BY <1>2
    <2>2. Continues(wp[w].buf, w, seen[w])
      BY <1>2, <2>1 DEF PacketsKept
    <2> QED BY <2>1, <2>2 DEF Continues, HoldsAllAfter
  <1> QED BY <1>1, <1>2 DEF PacketsKept

LEMMA CreateKeepsPackets ==
  ASSUME PortBase, PacketsKept, NEW w \in WPorts, NEW name, NEW unicast, port_create(w, name, unicast)
  PROVE  PacketsKept'
  <1>1. /\ wp[w].magic = "none" /\ rp' = rp /\ closing' = closing /\ written' = written /\ refused' = refused
        /\ seen' = seen /\ wp'[w].buf = <<>> /\ \A v \in WPorts \ {w} : wp'[v] = wp[v]
    BY DEF port_create, OfOthers, PortBase, PortTypeOK
  <1>2. written[w] = 0 /\ seen[w] = 0
    BY <1>1 DEF PortBase, WritePorts, WritePort
  <1>3. Continues(wp[w].buf, w, seen[w])'
    <2>1. Continues(<<>>, w, written[w])
      BY ContinuesEmpty DEF PortBase
    <2> QED BY <1>1, <1>2, <2>1 DEF Continues, HoldsAllAfter
  <1>4. ASSUME NEW v \in WPorts, v # w, wp'[v].magic \in {"alloc", "W", "X"}, wp'[v].buf # NULL
        PROVE  Continues(wp[v].buf, v, seen[v])'
    <2>1. Continues(wp[v].buf, v, seen[v]) /\ wp'[v] = wp[v]
      BY <1>1, <1>4 DEF PacketsKept
    <2> QED BY <1>1, <2>1 DEF Continues, HoldsAllAfter
  <1>5. ASSUME NEW r \in RPorts, BeingRead(r)', rp'[r].wport # NULL
        PROVE  Continues(rp[r].buf, rp[r].wport, seen[r])'
    <2>1. Continues(rp[r].buf, rp[r].wport, seen[r])
      BY <1>1, <1>5 DEF PacketsKept, BeingRead
    <2> QED BY <1>1, <2>1 DEF Continues, HoldsAllAfter
  <1> QED BY <1>3, <1>4, <1>5 DEF PacketsKept

LEMMA InsertKeepsPackets ==
  ASSUME PortBase, PacketsKept, NEW w \in WPorts, port_create_inserts(w) \/ close_write(w)
  PROVE  PacketsKept'
  <1>1. /\ rp' = rp /\ closing' = closing /\ written' = written /\ refused' = refused /\ seen' = seen
        /\ wp' = [wp EXCEPT ![w].magic = "W"] \/ wp' = [wp EXCEPT ![w].magic = "X"]
        /\ wp[w].magic \in {"alloc", "W"}
    BY DEF port_create_inserts, close_write, OfOthers
  <1>2. wp \in [WPorts -> WriteRecord] /\ wp[w] \in WriteRecord
    BY DEF PortBase, PortTypeOK
  <1>3. wp'[w].buf = wp[w].buf /\ \A v \in WPorts \ {w} : wp'[v] = wp[v]
    BY <1>1, <1>2 DEF WriteRecord
  <1> QED BY <1>1, <1>3, PacketsFrame DEF BeingRead
LEMMA OpenKeepsPackets ==
  ASSUME PortBase, PacketsKept, NEW r \in RPorts, NEW name \in Names, Open(r, name)
  PROVE  PacketsKept'
  <1>0. PICK w : w = FoundPort(name)
    OBVIOUS
  <1>1. /\ closing' = closing /\ written' = written /\ refused' = refused
        /\ rp' = [rp EXCEPT ![r] = [magic |-> "R", buf |-> IF wp[w].buf # NULL THEN wp[w].buf ELSE <<>>,
                                    wport |-> w, gport |-> FALSE]]
        /\ wp' = [wp EXCEPT ![w].buf = NULL, ![w].readers = Append(@, r)]
        /\ seen' = [seen EXCEPT ![r] = IF wp[w].buf # NULL THEN seen[w] ELSE written[w]]
        /\ Named(name) # {}
    BY <1>0 DEF Open, port_open, FoundPort
  <1>2. w \in WPorts /\ wp[w].magic \in {"W", "X"}
    BY <1>0, <1>1, OpenFinds DEF PortBase
  <1>3. /\ wp \in [WPorts -> WriteRecord] /\ rp \in [RPorts -> ReadRecord] /\ wp[w] \in WriteRecord
        /\ seen \in [WPorts \cup RPorts -> Nat]
    BY <1>2 DEF PortBase, PortTypeOK
  <1>4. wp'[w].buf = NULL /\ \A v \in WPorts \ {w} : wp'[v] = wp[v]
    BY <1>1, <1>2, <1>3 DEF WriteRecord
  <1>5. /\ rp'[r].buf = IF wp[w].buf # NULL THEN wp[w].buf ELSE <<>>
        /\ rp'[r].wport = w /\ \A q \in RPorts \ {r} : rp'[q] = rp[q]
    BY <1>1, <1>3
  <1>6. /\ seen'[r] = IF wp[w].buf # NULL THEN seen[w] ELSE written[w]
        /\ \A q \in RPorts \ {r} : seen'[q] = seen[q]
        /\ \A v \in WPorts : seen'[v] = seen[v]
    BY <1>1, <1>3, PortConstants
  <1>7. Continues(rp[r].buf, rp[r].wport, seen[r])'
    <2>1. CASE wp[w].buf # NULL
      <3>1. Continues(wp[w].buf, w, seen[w])
        BY <1>2, <2>1 DEF PacketsKept
      <3>2. rp'[r].buf = wp[w].buf /\ rp'[r].wport = w /\ seen'[r] = seen[w]
        BY <1>5, <1>6, <2>1
      <3> QED BY <1>1, <3>1, <3>2 DEF Continues, HoldsAllAfter
    <2>2. CASE wp[w].buf = NULL
      <3>1. Continues(<<>>, w, written[w])
        BY <1>2, ContinuesEmpty DEF PortBase
      <3>2. rp'[r].buf = <<>> /\ rp'[r].wport = w /\ seen'[r] = written[w]
        BY <1>5, <1>6, <2>2
      <3> QED BY <1>1, <3>1, <3>2 DEF Continues, HoldsAllAfter
    <2> QED BY <2>1, <2>2
  <1>8. ASSUME NEW q \in RPorts, q # r, BeingRead(q)', rp'[q].wport # NULL
        PROVE  Continues(rp[q].buf, rp[q].wport, seen[q])'
    <2>1. rp'[q] = rp[q] /\ seen'[q] = seen[q] /\ BeingRead(q)
      BY <1>1, <1>5, <1>6, <1>8 DEF BeingRead
    <2>2. Continues(rp[q].buf, rp[q].wport, seen[q])
      BY <1>8, <2>1 DEF PacketsKept
    <2> QED BY <1>1, <2>1, <2>2 DEF Continues, HoldsAllAfter
  <1>9. ASSUME NEW v \in WPorts, wp'[v].magic \in {"alloc", "W", "X"}, wp'[v].buf # NULL
        PROVE  Continues(wp[v].buf, v, seen[v])'
    <2>1. wp'[v] = wp[v] /\ seen'[v] = seen[v]
      BY <1>4, <1>6, <1>9
    <2>2. Continues(wp[v].buf, v, seen[v])
      BY <1>9, <2>1 DEF PacketsKept
    <2> QED BY <1>1, <2>1, <2>2 DEF Continues, HoldsAllAfter
  <1> QED BY <1>7, <1>8, <1>9 DEF PacketsKept

LEMMA OthersKeepPackets ==
  ASSUME PortBase, PacketsKept,
         \/ \E r \in RPorts : port_group_add(r) \/ port_group_remove(r)
         \/ \E s \in PortLists : port_group(s)
         \/ close_group
         \/ \E t \in Readers : read_timeout(t)
  PROVE  PacketsKept'
  <1>1. wp' = wp /\ written' = written /\ refused' = refused /\ seen' = seen
    BY DEF port_group_add, port_group_remove, port_group, close_group, read_timeout, OfOthers
  <1>2. \A r \in RPorts : closing' # r => closing # r
    BY PortConstants DEF port_group_add, port_group_remove, port_group, close_group, read_timeout, Admin
  <1>3. \A r \in RPorts : rp'[r].magic = rp[r].magic /\ rp'[r].buf = rp[r].buf /\ rp'[r].wport = rp[r].wport
    <2> TAKE r \in RPorts
    <2>1. rp \in [RPorts -> ReadRecord] /\ rp[r] \in ReadRecord
      BY DEF PortBase, PortTypeOK
    <2>2. CASE rp' = rp
      BY <2>2
    <2>3. ASSUME NEW q \in RPorts, rp' = [rp EXCEPT ![q].gport = TRUE]
          PROVE  rp'[r].magic = rp[r].magic /\ rp'[r].buf = rp[r].buf /\ rp'[r].wport = rp[r].wport
      BY <2>1, <2>3 DEF ReadRecord
    <2>4. ASSUME NEW s, rp' = [q \in RPorts |-> IF q \in Range(s) THEN [rp[q] EXCEPT !.gport = TRUE] ELSE rp[q]]
          PROVE  rp'[r].magic = rp[r].magic /\ rp'[r].buf = rp[r].buf /\ rp'[r].wport = rp[r].wport
      <3>1. rp'[r] = IF r \in Range(s) THEN [rp[r] EXCEPT !.gport = TRUE] ELSE rp[r]
        BY <2>4
      <3> QED BY <2>1, <3>1 DEF ReadRecord
    <2> QED BY <2>2, <2>3, <2>4 DEF port_group_add, port_group_remove, port_group, close_group, read_timeout
  <1> QED BY <1>1, <1>2, <1>3, PacketsFrame DEF BeingRead

(* What port_write does to the buffers of the read ports. *)
LEMMA WriteTakes ==
  ASSUME PortBase, NEW w \in WPorts, NEW count \in Counts, port_write(w, count)
  PROVE  /\ \A r \in RPorts \ TakerPorts(w, count) : rp'[r] = rp[r]
         /\ wp[w].buf = NULL =>
              /\ \A r \in TakerPorts(w, count) : rp'[r].buf = rp[r].buf \o NewPackets(w, count)
              /\ refused'[w] = IF TakerPorts(w, count) = Range(wp[w].readers) THEN refused[w]
                               ELSE refused[w] \cup (written[w] + 1 .. written[w] + count)
  <1>1. wp[w].buf = NULL =>
              /\ wp' = wp /\ WakeFirst(WokenBy(w, count), "NO_ERROR")
              /\ \A r \in RPorts \ TakerPorts(w, count) : rp'[r] = rp[r]
              /\ \A r \in TakerPorts(w, count) : rp'[r].buf = rp[r].buf \o NewPackets(w, count)
              /\ refused'[w] = IF TakerPorts(w, count) = Range(wp[w].readers) THEN refused[w]
                               ELSE refused[w] \cup (written[w] + 1 .. written[w] + count)
              /\ misuse' = misuse \cup (IF count > 1 THEN {"unwoken"} ELSE {})
              /\ fault' = IF pg.magic # "G" /\ \E r \in TakerPorts(w, count) : rp[r].gport
                          THEN "freed group" ELSE fault
    BY WriteBuffers
  <1>2. wp[w].buf # NULL => rp' = rp
    BY WriteBuffers
  <1> QED BY <1>1, <1>2

LEMMA WriteKeepsPackets ==
  ASSUME PortBase, PacketsKept, NEW w \in WPorts, NEW count \in Counts, port_write(w, count)
  PROVE  PacketsKept'
  <1>1. /\ seen' = seen /\ closing' = closing /\ count \in Nat /\ wp[w].magic = "W"
        /\ \A v \in WPorts : /\ v # w => wp'[v] = wp[v] /\ refused'[v] = refused[v]
                             /\ wp'[v].magic = wp[v].magic /\ (wp'[v].buf = NULL <=> wp[v].buf = NULL)
        /\ \A r \in RPorts : rp'[r].magic = rp[r].magic /\ rp'[r].wport = rp[r].wport
    BY WriteBuffers
  <1>2. PortTypeOK /\ WritePorts /\ ReadPorts
    BY DEF PortBase
  <1>3. written'[w] = written[w] + count /\ \A v \in WPorts \ {w} : written'[v] = written[v]
    <2>1. written' = [written EXCEPT ![w] = @ + count] /\ written \in [WPorts -> Nat]
      BY <1>2 DEF port_write, PortTypeOK
    <2> QED BY <2>1
  <1>4. ASSUME NEW v \in WPorts, v # w, wp'[v].magic \in {"alloc", "W", "X"}, wp'[v].buf # NULL
        PROVE  Continues(wp[v].buf, v, seen[v])'
    <2>1. Continues(wp[v].buf, v, seen[v])
      BY <1>1, <1>4 DEF PacketsKept
    <2>2. wp'[v] = wp[v] /\ refused'[v] = refused[v] /\ written'[v] = written[v]
      BY <1>1, <1>3, <1>4
    <2> QED BY <1>1, <2>1, <2>2 DEF Continues, HoldsAllAfter
  <1>5. ASSUME NEW r \in RPorts, BeingRead(r)', rp'[r].wport # NULL, rp'[r].wport # w
        PROVE  Continues(rp[r].buf, rp[r].wport, seen[r])'
    <2>1. BeingRead(r) /\ rp[r].wport # w /\ rp[r].wport # NULL
      BY <1>1, <1>5 DEF BeingRead
    <2>2. PICK v \in WPorts : v = rp[r].wport
      BY <1>2, <2>1, PortRecords DEF ReadRecord
    <2>3. Continues(rp[r].buf, v, seen[r])
      BY <2>1, <2>2 DEF PacketsKept
    <2>4. rp'[r] = rp[r]
      <3>1. r \notin TakerPorts(w, count)
        BY <2>1, TakersRead
      <3> QED BY <3>1, WriteTakes
    <2>5. refused'[v] = refused[v] /\ written'[v] = written[v]
      BY <1>1, <1>3, <2>1, <2>2
    <2> QED BY <1>1, <2>2, <2>3, <2>4, <2>5 DEF Continues, HoldsAllAfter
  <1>6. CASE wp[w].buf # NULL
    <2>1. WritePort(w) /\ wp[w].readers = <<>> /\ wp[w].buf \in Seq(Nat) /\ seen[w] \in Nat
      <3>1. WritePort(w) /\ wp[w] \in WriteRecord
        BY <1>2, PortRecords DEF WritePorts
      <3>2. wp[w].readers = <<>>
        BY <1>1, <1>6, <3>1 DEF WritePort
      <3>3. wp[w].buf \in Seq(Nat)
        BY <1>6, <3>1 DEF WriteRecord
      <3> QED BY <1>2, <3>1, <3>2, <3>3 DEF PortTypeOK
    <2>2. ASSUME NEW r \in RPorts, BeingRead(r)' PROVE rp'[r].wport # w
      <3>1. BeingRead(r) /\ rp'[r].wport = rp[r].wport
        BY <1>1, <2>2 DEF BeingRead
      <3>2. r \notin Range(wp[w].readers)
        <4>1. Range(<<>>) = {}
          BY DEF Range
        <4> QED BY <2>1, <4>1
      <3> QED BY <1>2, <3>1, <3>2 DEF ReadPorts
    <2>3. Continues(wp[w].buf, w, seen[w])
      BY <1>1, <1>6 DEF PacketsKept
    <2>4. Continues(wp[w].buf, w, seen[w])'
      <3>1. CASE wp' = wp /\ refused'[w] = refused[w] \cup (written[w] + 1 .. written[w] + count)
        <4>1. PICK b \in Seq(Nat), m \in Nat : b = wp[w].buf /\ m = seen[w]
          BY <2>1
        <4>2. Continues(b, w, m)'
          BY <1>1, <1>2, <1>3, <2>3, <3>1, <4>1, ContinuesRefused
        <4> QED BY <1>1, <3>1, <4>1, <4>2
      <3>2. CASE wp'[w].buf = wp[w].buf \o NewPackets(w, count) /\ refused'[w] = refused[w]
        <4>1. PICK b \in Seq(Nat), m \in Nat : b = wp[w].buf /\ m = seen[w]
          BY <2>1
        <4>2. PICK c : c = b \o NewPackets(w, count)
          OBVIOUS
        <4>3. Continues(c, w, m)'
          BY <1>1, <1>2, <1>3, <2>3, <3>2, <4>1, <4>2, ContinuesWritten
        <4> QED BY <1>1, <3>2, <4>1, <4>2, <4>3
      <3> QED BY <1>6, <3>1, <3>2, WriteBuffers
    <2> QED BY <1>4, <1>5, <2>2, <2>4 DEF PacketsKept
  <1>7. CASE wp[w].buf = NULL
    <2>1. /\ \A r \in RPorts \ TakerPorts(w, count) : rp'[r] = rp[r]
          /\ \A r \in TakerPorts(w, count) : rp'[r].buf = rp[r].buf \o NewPackets(w, count)
          /\ refused'[w] = IF TakerPorts(w, count) = Range(wp[w].readers) THEN refused[w]
                           ELSE refused[w] \cup (written[w] + 1 .. written[w] + count)
      BY <1>7, WriteTakes
    <2>2. ASSUME NEW r \in RPorts, BeingRead(r)', rp'[r].wport = w
          PROVE  Continues(rp[r].buf, rp[r].wport, seen[r])'
      <3>1. BeingRead(r) /\ rp[r].wport = w
        BY <1>1, <2>2 DEF BeingRead
      <3>2. r \in Range(wp[w].readers)
        BY <1>2, <3>1 DEF ReadPorts
      <3>3. Continues(rp[r].buf, w, seen[r])
        BY <3>1, PortConstants DEF PacketsKept
      <3>4. rp[r].buf \in Seq(Nat) /\ seen[r] \in Nat
        <4>1. rp[r].buf # NULL /\ rp[r] \in ReadRecord
          BY <1>2, <3>1, PortRecords DEF ReadPorts
        <4>2. rp[r].buf \in Seq(Nat)
          BY <4>1 DEF ReadRecord
        <4> QED BY <1>2, <4>2 DEF PortTypeOK
      <3>5. PICK b \in Seq(Nat), m \in Nat : b = rp[r].buf /\ m = seen[r]
        BY <3>4
      <3>6. CASE r \in TakerPorts(w, count)
        <4>1. PICK c : c = b \o NewPackets(w, count)
          OBVIOUS
        <4>2. Continues(c, w, m)'
          BY <1>1, <1>2, <1>3, <2>1, <3>3, <3>5, <4>1, ContinuesWritten
        <4>3. rp'[r].buf = c /\ rp'[r].wport = w /\ seen'[r] = m
          BY <1>1, <2>1, <2>2, <3>5, <3>6, <4>1
        <4> QED BY <4>2, <4>3
      <3>7. CASE r \notin TakerPorts(w, count)
        <4>1. refused'[w] = refused[w] \cup (written[w] + 1 .. written[w] + count)
          BY <2>1, <3>2, <3>7
        <4>2. Continues(b, w, m)'
          BY <1>1, <1>2, <1>3, <3>3, <3>5, <4>1, ContinuesRefused
        <4>3. rp'[r].buf = b /\ rp'[r].wport = w /\ seen'[r] = m
          BY <1>1, <2>1, <2>2, <3>5, <3>7
        <4> QED BY <4>2, <4>3
      <3> QED BY <3>6, <3>7
    <2>3. wp'[w].buf = NULL
      BY <1>1, <1>7
    <2> QED BY <1>4, <1>5, <2>2, <2>3 DEF PacketsKept
  <1> QED BY <1>6, <1>7

LEMMA PassKeepsPackets ==
  ASSUME PortBase, PacketsKept, NEW t \in Readers, NEW q \in Queues, MakesPass(t, q)
  PROVE  PacketsKept'
  <1>1. /\ wp' = wp /\ closing' = closing /\ written' = written /\ refused' = refused /\ Pass(t, q)
    BY DEF MakesPass
  <1>2. CASE rp' = rp /\ seen' = seen
    BY <1>1, <1>2, PacketsFrame DEF BeingRead
  <1>3. CASE (q = Group \/ rp[q].buf # NULL) /\ TakePacket(t, q)
    <2>1. PICK r : r = TakenFrom(q)
      OBVIOUS
    <2>2. /\ rp' = [rp EXCEPT ![r].buf = Tail(@)] /\ seen' = [seen EXCEPT ![r] = Head(rp[r].buf)]
          /\ Ready(q) # {}
      BY <1>3, <2>1 DEF TakePacket, TakenFrom
    <2>3. r \in RPorts /\ rp[r].buf \in Seq(Nat) /\ rp[r].buf # <<>>
      BY <1>3, <2>1, <2>2, TakesFrom
    <2>4. /\ rp'[r].buf = Tail(rp[r].buf) /\ seen'[r] = Head(rp[r].buf)
          /\ \A p \in RPorts : /\ rp'[p].magic = rp[p].magic /\ rp'[p].wport = rp[p].wport
                               /\ p # r => rp'[p] = rp[p] /\ seen'[p] = seen[p]
          /\ \A w \in WPorts : seen'[w] = seen[w]
      BY <2>2, <2>3, PacketTaken
    <2>5. ASSUME NEW p \in RPorts, BeingRead(p)', rp'[p].wport # NULL
          PROVE  Continues(rp[p].buf, rp[p].wport, seen[p])'
      <3>1. BeingRead(p) /\ rp[p].wport # NULL
        BY <1>1, <2>4, <2>5 DEF BeingRead
      <3>2. Continues(rp[p].buf, rp[p].wport, seen[p])
        BY <3>1 DEF PacketsKept
      <3>3. PICK v \in WPorts : v = rp[p].wport
        BY <3>1, PortRecords DEF ReadRecord, PortBase
      <3>4. CASE p = r
        <4>1. seen[r] \in Nat
          BY <2>3 DEF PortBase, PortTypeOK
        <4>2. Continues(Tail(rp[r].buf), v, Head(rp[r].buf))
          BY <2>3, <3>2, <3>3, <3>4, <4>1, ContinuesTaken DEF PortBase
        <4>3. rp'[p].buf = Tail(rp[r].buf) /\ seen'[p] = Head(rp[r].buf) /\ rp'[p].wport = v
          BY <2>4, <3>3, <3>4
        <4> QED BY <1>1, <4>2, <4>3 DEF Continues, HoldsAllAfter
      <3>5. CASE p # r
        <4>1. rp'[p] = rp[p] /\ seen'[p] = seen[p]
          BY <2>4, <3>5
        <4> QED BY <1>1, <3>2, <4>1 DEF Continues, HoldsAllAfter
      <3> QED BY <3>4, <3>5
    <2>6. ASSUME NEW w \in WPorts, wp'[w].magic \in {"alloc", "W", "X"}, wp'[w].buf # NULL
          PROVE  Continues(wp[w].buf, w, seen[w])'
      <3>1. Continues(wp[w].buf, w, seen[w]) /\ seen'[w] = seen[w]
        BY <1>1, <2>4, <2>6 DEF PacketsKept
      <3> QED BY <1>1, <3>1 DEF Continues, HoldsAllAfter
    <2> QED BY <2>5, <2>6 DEF PacketsKept
  <1> QED BY <1>1, <1>2, <1>3 DEF Pass, Block

LEMMA ReturnsKeepsPackets ==
  ASSUME PortBase, PacketsKept, NEW t \in Readers, port_read_returns(t)
  PROVE  PacketsKept'
  <1>1. PICK q : q = reader[t].at
    OBVIOUS
  <1>2. q \in Queues
    <2>1. reader[t] \in ReaderThread /\ q # NULL
      BY <1>1 DEF PortBase, PortThreads, port_read_returns
    <2> QED BY <1>1, <2>1 DEF ReaderThread
  <1>3. /\ write_port_list' = write_port_list /\ wp' = wp /\ pg' = pg /\ closing' = closing
        /\ written' = written /\ refused' = refused /\ misuse' = misuse
        /\ (rp' = rp /\ seen' = seen) \/ Pass(t, q)
    BY <1>1 DEF port_read_returns
  <1>4. CASE rp' = rp /\ seen' = seen
    BY <1>3, <1>4, PacketsFrame DEF BeingRead
  <1>5. CASE Pass(t, q)
    BY <1>2, <1>3, <1>5, PassKeepsPackets DEF MakesPass
  <1> QED BY <1>3, <1>4, <1>5

LEMMA CloseKeepsPackets ==
  ASSUME PortBase, PacketsKept, NEW r \in RPorts, port_close(r)
  PROVE  PacketsKept'
  <1>1. written' = written /\ refused' = refused
    BY DEF port_close
  <1>2. /\ closing = NULL /\ closing' = r /\ BeingRead(r)
        /\ \A q \in RPorts : /\ rp'[q].magic = rp[q].magic
                             /\ seen'[q] = seen[q] /\ (q # r => rp'[q] = rp[q])
        /\ \A v \in WPorts : v # rp[r].wport => wp'[v] = wp[v] /\ seen'[v] = seen[v]
    BY CloseBuffers
  <1>3. PICK w : w = rp[r].wport
    OBVIOUS
  <1>4. w # NULL =>
          /\ wp[w].magic \in {"W", "X"} /\ w \in WPorts
          /\ wp'[w].buf # NULL => wp'[w].buf = rp[r].buf /\ seen'[w] = seen[r]
    BY <1>3, CloseBuffers
  <1>5. ASSUME NEW q \in RPorts, BeingRead(q)', rp'[q].wport # NULL
        PROVE  Continues(rp[q].buf, rp[q].wport, seen[q])'
    <2>1. rp'[q] = rp[q] /\ seen'[q] = seen[q] /\ BeingRead(q)
      BY <1>2, <1>5, PortConstants DEF BeingRead
    <2>2. Continues(rp[q].buf, rp[q].wport, seen[q])
      BY <1>5, <2>1 DEF PacketsKept
    <2> QED BY <1>1, <2>1, <2>2 DEF Continues, HoldsAllAfter
  <1>6. ASSUME NEW v \in WPorts, wp'[v].magic \in {"alloc", "W", "X"}, wp'[v].buf # NULL
        PROVE  Continues(wp[v].buf, v, seen[v])'
    <2>1. CASE v = w
      <3>1. w # NULL
        BY <2>1, PortConstants
      <3>2. Continues(rp[r].buf, w, seen[r])
        BY <1>2, <1>3, <3>1 DEF PacketsKept
      <3>3. wp'[v].buf = rp[r].buf /\ seen'[v] = seen[r]
        BY <1>4, <1>6, <2>1, <3>1
      <3> QED BY <1>1, <2>1, <3>2, <3>3 DEF Continues, HoldsAllAfter
    <2>2. CASE v # w
      <3>1. wp'[v] = wp[v] /\ seen'[v] = seen[v]
        BY <1>2, <1>3, <2>2
      <3>2. Continues(wp[v].buf, v, seen[v])
        BY <1>6, <3>1 DEF PacketsKept
      <3> QED BY <1>1, <3>1, <3>2 DEF Continues, HoldsAllAfter
    <2> QED BY <2>1, <2>2
  <1> QED BY <1>5, <1>6 DEF PacketsKept

LEMMA CloseEndsKeepsPackets ==
  ASSUME PortBase, PacketsKept, port_close_ends
  PROVE  PacketsKept'
  <1>1. /\ wp' = wp /\ written' = written /\ refused' = refused /\ closing' = NULL
        /\ \A v \in WPorts : seen'[v] = seen[v]
        /\ \A q \in RPorts : /\ BeingRead(q) <=> rp'[q].magic = "R"
                             /\ q # closing => /\ rp'[q].wport = rp[q].wport
                                               /\ rp'[q].buf = rp[q].buf /\ seen'[q] = seen[q]
    BY CloseEnds
  <1>2. \A q \in RPorts : BeingRead(q)' => /\ BeingRead(q) /\ rp'[q].buf = rp[q].buf /\ seen'[q] = seen[q]
                                           /\ rp'[q].wport = rp[q].wport
    BY <1>1 DEF BeingRead
  <1> QED BY <1>1, <1>2, PacketsFrame

LEMMA DestroyKeepsPackets ==
  ASSUME PortBase, PacketsKept, NEW w \in WPorts, port_destroy(w)
  PROVE  PacketsKept'
  <1>1. /\ closing' = closing
        /\ \A r \in RPorts : /\ r \in Range(wp[w].readers) => rp'[r].wport = NULL
                             /\ r \notin Range(wp[w].readers) => rp'[r] = rp[r]
        /\ wp' = [wp EXCEPT ![w] = [magic |-> "gone", name |-> NULL, unicast |-> FALSE,
                                    buf |-> NULL, readers |-> <<>>]]
        /\ written' = [written EXCEPT ![w] = 0]
        /\ refused' = [refused EXCEPT ![w] = {}]
        /\ seen' = [seen EXCEPT ![w] = 0]
    BY Destroys
  <1>2. /\ wp \in [WPorts -> WriteRecord] /\ written \in [WPorts -> Nat]
        /\ refused \in [WPorts -> SUBSET Nat] /\ seen \in [WPorts \cup RPorts -> Nat]
    BY DEF PortBase, PortTypeOK
  <1>3. /\ wp'[w].buf = NULL
        /\ \A v \in WPorts \ {w} : wp'[v] = wp[v] /\ written'[v] = written[v] /\ refused'[v] = refused[v]
    BY <1>1, <1>2
  <1>4. /\ \A v \in WPorts \ {w} : seen'[v] = seen[v]
        /\ \A r \in RPorts : seen'[r] = seen[r]
    BY <1>1, <1>2, PortConstants
  <1>5. ASSUME NEW r \in RPorts, BeingRead(r)', rp'[r].wport # NULL
        PROVE  Continues(rp[r].buf, rp[r].wport, seen[r])'
    <2>1. r \notin Range(wp[w].readers) /\ rp'[r] = rp[r] /\ BeingRead(r)
      BY <1>1, <1>5 DEF BeingRead
    <2>2. rp[r].wport # w
      BY <2>1 DEF PortBase, ReadPorts
    <2>3. PICK v \in WPorts : v = rp[r].wport
      BY <1>5, <2>1, PortRecords DEF ReadRecord, PortBase
    <2>4. Continues(rp[r].buf, v, seen[r])
      BY <1>5, <2>1, <2>3 DEF PacketsKept
    <2>5. written'[v] = written[v] /\ refused'[v] = refused[v] /\ seen'[r] = seen[r]
      BY <1>3, <1>4, <2>2, <2>3
    <2> QED BY <2>1, <2>3, <2>4, <2>5 DEF Continues, HoldsAllAfter
  <1>6. ASSUME NEW v \in WPorts, wp'[v].magic \in {"alloc", "W", "X"}, wp'[v].buf # NULL
        PROVE  Continues(wp[v].buf, v, seen[v])'
    <2>1. v # w
      BY <1>3, <1>6
    <2>2. wp'[v] = wp[v] /\ written'[v] = written[v] /\ refused'[v] = refused[v] /\ seen'[v] = seen[v]
      BY <1>3, <1>4, <2>1
    <2>3. Continues(wp[v].buf, v, seen[v])
      BY <1>6, <2>2 DEF PacketsKept
    <2> QED BY <2>2, <2>3 DEF Continues, HoldsAllAfter
  <1> QED BY <1>5, <1>6 DEF PacketsKept
-----------------------------------------------------------------------------
(* The invariant holds. *)
PortsSound == PortBase /\ NothingStale /\ PacketsKept

LEMMA PortsStart ==
  ASSUME PortInit
  PROVE  PortsSound
  <1>1. \A w \in WPorts : /\ wp[w].magic = "none" /\ wp[w].readers = <<>> /\ wp[w].unicast = FALSE
                          /\ wp[w] \in WriteRecord
    BY DEF PortInit, WriteRecord
  <1>2. \A r \in RPorts : rp[r].magic = "none" /\ rp[r].gport = FALSE /\ rp[r] \in ReadRecord
    BY DEF PortInit, ReadRecord
  <1>3. /\ write_port_list = <<>> /\ pg = [magic |-> "none", rp_list |-> <<>>] /\ closing = NULL
        /\ written = [w \in WPorts |-> 0] /\ refused = [w \in WPorts |-> {}]
        /\ seen = [p \in WPorts \cup RPorts |-> 0] /\ fault = "none" /\ misuse = {}
        /\ waitq = [q \in Queues |-> <<>>]
        /\ reader = [t \in Readers |-> [at |-> NULL, blocked |-> FALSE, ret |-> "NO_ERROR"]]
        /\ wp = [w \in WPorts |-> wp[w]] /\ rp = [r \in RPorts |-> rp[r]]
    BY DEF PortInit, Queues
  <1>4. Range(<<>>) = {} /\ Len(<<>>) = 0
    BY DEF Range
  <1>5. PortTypeOK
    <2>1. <<>> \in Seq(WPorts) /\ <<>> \in Seq(RPorts)
      OBVIOUS
    <2>2. PICK e \in Seq(RPorts) : e = <<>>
      BY <2>1
    <2>3. pg = [magic |-> "none", rp_list |-> e]
      BY <1>3, <2>2
    <2>4. pg \in [magic : {"none", "G", "gone"}, rp_list : Seq(RPorts)]
      BY <2>3
    <2>5. wp \in [WPorts -> WriteRecord] /\ rp \in [RPorts -> ReadRecord]
      BY <1>1, <1>2, <1>3
    <2>6. /\ written \in [WPorts -> Nat] /\ refused \in [WPorts -> SUBSET Nat]
          /\ seen \in [WPorts \cup RPorts -> Nat]
      BY <1>3
    <2> QED BY <1>3, <2>1, <2>4, <2>5, <2>6 DEF PortTypeOK
  <1>6. WritePorts
    <2>1. ASSUME NEW w \in WPorts PROVE WritePort(w)
      <3>1. written[w] = 0 /\ seen[w] = 0
        BY <1>3
      <3> QED BY <1>1, <1>3, <1>4, <3>1, NothingOnce DEF WritePort
    <2>2. WriteNames /\ Once(write_port_list)
      BY <1>3, <1>4, NothingOnce DEF WriteNames
    <2> QED BY <2>1, <2>2 DEF WritePorts
  <1>7. ReadPorts
    BY <1>1, <1>2, <1>3, <1>4, PortConstants DEF ReadPorts, BeingRead
  <1>8. GroupMembers
    <2>1. pg.rp_list = <<>>
      BY <1>3
    <2> QED BY <1>4, <2>1, NothingOnce DEF GroupMembers
  <1>9. PortThreads
    <2>1. <<>> \in Seq(Readers)
      OBVIOUS
    <2>2. waitq \in [Queues -> Seq(Readers)] /\ \A q \in Queues : waitq[q] = <<>>
      BY <1>3, <2>1
    <2>3. /\ reader \in [Readers -> ReaderThread]
          /\ \A t \in Readers : ~reader[t].blocked
      BY <1>3 DEF ReaderThread, WaitResults
    <2> QED BY <1>4, <2>2, <2>3, NothingOnce DEF PortThreads, ThreadsQueued
  <1>10. NothingStale
    <2>1. \A t \in Readers : reader[t].at = NULL
      BY <1>3
    <2> QED BY <1>2, <1>3, <2>1 DEF NothingStale, PortsFresh, Expects
  <1>11. PacketsKept
    BY <1>1, <1>2 DEF PacketsKept, BeingRead
  <1> QED BY <1>5, <1>6, <1>7, <1>8, <1>9, <1>10, <1>11 DEF PortsSound, PortBase

LEMMA BaseStep ==
  ASSUME PortBase, PortNext
  PROVE  PortBase'
  BY CreateKeepsBase, InsertKeepsBase, WriteKeepsBase, CloseWriteKeepsBase, DestroyKeepsBase,
     OpenKeepsBase, GroupAddKeepsBase, GroupRemoveKeepsBase, CloseKeepsBase, GroupKeepsBase,
     CloseGroupKeepsBase, CloseEndsKeepsBase, ReadKeepsBase, ReturnsKeepsBase, TimeoutKeepsBase
     DEF PortNext, Queues

LEMMA MisuseKept ==
  ASSUME PortBase, PortNext
  PROVE  misuse \subseteq misuse'
  <1>1. ASSUME NEW w \in WPorts, NEW count \in Counts, port_write(w, count) PROVE misuse \subseteq misuse'
    BY <1>1, WriteBuffers
  <1>2. ASSUME NEW w \in WPorts, port_destroy(w) PROVE misuse \subseteq misuse'
    BY <1>2, Destroys
  <1>3. ASSUME port_close_ends PROVE misuse \subseteq misuse'
    BY <1>3, CloseEnds
  <1>4. ASSUME NEW w \in WPorts, NEW name, NEW unicast,
               port_create(w, name, unicast) \/ port_create_inserts(w) \/ close_write(w)
        PROVE  misuse \subseteq misuse'
    BY <1>4 DEF port_create, port_create_inserts, close_write
  <1>5. ASSUME NEW r \in RPorts, NEW name, Open(r, name) \/ port_group_add(r) \/ port_group_remove(r) \/ port_close(r)
        PROVE  misuse \subseteq misuse'
    BY <1>5 DEF Open, port_group_add, port_group_remove, port_close
  <1>6. ASSUME NEW s, port_group(s) \/ close_group PROVE misuse \subseteq misuse'
    BY <1>6 DEF port_group, close_group
  <1>7. ASSUME NEW t \in Readers, NEW q, port_read(t, q) \/ port_read_returns(t) \/ read_timeout(t)
        PROVE  misuse \subseteq misuse'
    BY <1>7 DEF port_read, port_read_returns, read_timeout
  <1> QED BY <1>1, <1>2, <1>3, <1>4, <1>5, <1>6, <1>7 DEF PortNext

LEMMA FreshStep ==
  ASSUME PortBase, PortsFresh, "stale" \notin misuse', PortNext
  PROVE  PortsFresh'
  <1>1. ASSUME NEW w \in WPorts, NEW name \in Names, NEW unicast \in BOOLEAN, port_create(w, name, unicast)
        PROVE  PortsFresh'
    <2>1. rp' = rp /\ pg' = pg /\ reader' = reader /\ closing' = closing /\ fault' = fault
      BY <1>1 DEF port_create
    <2> QED BY <2>1 DEF PortsFresh, Expects, IsOpen
  <1>2. ASSUME NEW w \in WPorts, port_create_inserts(w) \/ close_write(w)
        PROVE  PortsFresh'
    <2>1. rp' = rp /\ pg' = pg /\ reader' = reader /\ closing' = closing /\ fault' = fault
      BY <1>2 DEF port_create_inserts, close_write
    <2> QED BY <2>1 DEF PortsFresh, Expects, IsOpen
  <1>3. ASSUME NEW r \in RPorts, port_group_remove(r) PROVE FALSE
    BY <1>3 DEF port_group_remove
  <1> QED BY <1>1, <1>2, <1>3, OpenFresh, WriteFresh, DestroyFresh, GroupAddFresh, CloseFresh, GroupFresh,
             CloseGroupFresh, CloseEndsFresh, ReadFresh, ReturnsFresh, TimeoutFresh
             DEF PortNext, Queues

LEMMA PacketsStep ==
  ASSUME PortBase, PacketsKept, PortNext
  PROVE  PacketsKept'
  <1>1. ASSUME NEW t \in Readers, NEW q \in Queues, port_read(t, q) PROVE PacketsKept'
    BY <1>1, ReadKeepsBase, PassKeepsPackets
  <1> QED BY <1>1, CreateKeepsPackets, InsertKeepsPackets, OpenKeepsPackets, OthersKeepPackets,
             WriteKeepsPackets, ReturnsKeepsPackets, CloseKeepsPackets, CloseEndsKeepsPackets,
             DestroyKeepsPackets
             DEF PortNext, Queues

LEMMA PortsStep ==
  ASSUME PortsSound, [PortNext]_portvars
  PROVE  PortsSound'
  <1>1. CASE PortNext
    <2>1. PortBase' /\ PacketsKept'
      BY <1>1, BaseStep, PacketsStep DEF PortsSound
    <2>2. NothingStale'
      BY <1>1, MisuseKept, FreshStep DEF PortsSound, NothingStale
    <2> QED BY <2>1, <2>2 DEF PortsSound
  <1>2. CASE UNCHANGED portvars
    <2>1. /\ write_port_list' = write_port_list /\ wp' = wp /\ rp' = rp /\ pg' = pg
          /\ waitq' = waitq /\ reader' = reader /\ closing' = closing /\ fault' = fault
      BY <1>2 DEF portvars, portstate
    <2>2. written' = written /\ refused' = refused /\ seen' = seen /\ misuse' = misuse
      BY <1>2 DEF portvars
    <2>3. PortTypeOK' /\ WritePorts'
      BY <2>1, <2>2 DEF PortsSound, PortBase, PortTypeOK, WritePorts, WritePort, WriteNames
    <2>4. ReadPorts' /\ GroupMembers'
      BY <2>1 DEF PortsSound, PortBase, ReadPorts, GroupMembers, BeingRead
    <2>5. PortThreads'
      BY <2>1, ThreadsKept DEF PortsSound, PortBase
    <2>6. NothingStale'
      BY <2>1, <2>2 DEF PortsSound, NothingStale, PortsFresh, Expects, IsOpen
    <2>7. PacketsKept'
      BY <2>1, <2>2 DEF PortsSound, PacketsKept, Continues, HoldsAllAfter, BeingRead
    <2> QED BY <2>3, <2>4, <2>5, <2>6, <2>7 DEF PortsSound, PortBase
  <1> QED BY <1>1, <1>2

(* port.c: the write ports, the read ports, the group and the threads that *)
(* wait belong together between any two calls.                             *)
THEOREM PortsInvariant == PortSpec => []PortsSound
  BY PortsStart, PortsStep, PTL DEF PortSpec

(* port_write, port_read, port_open, port_close: no packet is lost,        *)
(* repeated or overtaken without the writer being told, also when the      *)
(* buffer goes to a reader and back.                                       *)
THEOREM PacketsNotLost == PortSpec => []NoSilentLoss
  <1>1. ASSUME PortsSound PROVE NoSilentLoss
    BY <1>1 DEF PortsSound, PacketsKept, Continues, NoSilentLoss, BeingRead
  <1> QED BY PortsInvariant, <1>1, PTL

(* port_open, port_close, port_destroy: ports, buffers and names belong    *)
(* together, and until a port is closed under a reader or removed from the *)
(* group nothing is used after it was freed.                               *)
THEOREM PortsBelong == PortSpec => []PortInv
  <1>1. ASSUME PortsSound PROVE PortInv
    <2>1. PortTypeOK /\ WritePorts
      BY <1>1 DEF PortsSound, PortBase
    <2>2. ASSUME NEW i \in DOMAIN write_port_list
          PROVE  LET p == wp[write_port_list[i]]
                 IN  /\ p.buf = NULL <=> p.readers # <<>>
                     /\ p.unicast => Len(p.readers) <= 1
      <3>1. write_port_list[i] \in Range(write_port_list) /\ Range(write_port_list) \subseteq WPorts
        BY <2>1, PortRecords DEF Range
      <3>2. PICK w \in WPorts : w = write_port_list[i]
        BY <3>1
      <3>3. WritePort(w) /\ w \in Range(write_port_list)
        BY <2>1, <3>1, <3>2 DEF WritePorts
      <3> QED BY <3>2, <3>3 DEF WritePort
    <2>3. ASSUME "same name" \notin misuse, NEW name \in Names
          PROVE  Cardinality(Named(name)) <= 1
      <3>1. ASSUME NEW i \in Named(name), NEW j \in Named(name) PROVE i = j
        <4>1. /\ i \in DOMAIN write_port_list /\ j \in DOMAIN write_port_list
              /\ wp[write_port_list[i]].name = wp[write_port_list[j]].name
          BY DEF Named
        <4>2. write_port_list[i] = write_port_list[j]
          BY <2>1, <2>3, <4>1 DEF WritePorts, WriteNames, Range
        <4> QED BY <2>1, <4>1, <4>2 DEF WritePorts, Once
      <3>2. CASE Named(name) = {}
        <4>1. Cardinality(Named(name)) = 0
          BY <3>2, FS_EmptySet
        <4> QED BY <4>1
      <3>3. CASE Named(name) # {}
        <4>1. PICK i : i \in Named(name)
          BY <3>3
        <4>2. Named(name) = {i}
          BY <3>1, <4>1
        <4>3. Cardinality(Named(name)) = 1
          BY <4>2, FS_Singleton
        <4> QED BY <4>3
      <3> QED BY <3>2, <3>3
    <2>4. PortsOwnBuffers
      BY <2>2, <2>3 DEF PortsOwnBuffers
    <2>5. NoFault
      BY <1>1 DEF PortsSound, NothingStale, PortsFresh, NoFault
    <2> QED BY <2>4, <2>5 DEF PortInv
  <1> QED BY PortsInvariant, <1>1, PTL
-----------------------------------------------------------------------------
(* Packets and the threads that come for them. *)

LEMMA ImageFinite ==
  ASSUME NEW S, NEW T, NEW f \in [S -> T], IsFiniteSet(S)
  PROVE  IsFiniteSet({f[x] : x \in S}) /\ Cardinality({f[x] : x \in S}) <= Cardinality(S)
  <1>1. f \in Surjection(S, {f[x] : x \in S})
    BY DEF Surjection
  <1> QED BY <1>1, FS_Surjection

LEMMA ListFinite ==
  ASSUME NEW S, NEW s \in Seq(S), NEW r
  PROVE  IsFiniteSet(Range(s)) /\ IsFiniteSet({<<r, p>> : p \in Range(s)})
  <1>1. Len(s) \in Nat /\ DOMAIN s = 1 .. Len(s) /\ s \in [1 .. Len(s) -> S]
    OBVIOUS
  <1>2. IsFiniteSet(1 .. Len(s))
    BY <1>1, FS_Interval
  <1>3. IsFiniteSet({s[i] : i \in 1 .. Len(s)})
    BY <1>1, <1>2, ImageFinite
  <1>4. IsFiniteSet(Range(s))
    BY <1>1, <1>3 DEF Range
  <1> DEFINE f == [p \in Range(s) |-> <<r, p>>]
  <1>5. f \in [Range(s) -> {<<r, p>> : p \in Range(s)}]
    OBVIOUS
  <1>6. {f[p] : p \in Range(s)} = {<<r, p>> : p \in Range(s)}
    OBVIOUS
  <1> HIDE DEF f
  <1>7. IsFiniteSet({f[p] : p \in Range(s)})
    BY <1>4, <1>5, ImageFinite
  <1> QED BY <1>4, <1>6, <1>7

(* The threads that were woken on q to look for a packet. *)
Coming(q) == {t \in Using(q) : ~reader[t].blocked /\ reader[t].ret = "NO_ERROR"}

(* Nobody reads a port of the group directly. *)
GroupAlone == \A r \in RPorts : rp[r].gport => Using(r) = {}

(* While threads wait on q, a woken one comes for every packet. *)
Covered(q) == waitq[q] # <<>> => Cardinality(Packets(q)) <= Cardinality(Coming(q))

Awake == GroupAlone /\ \A q \in Queues \ {closing} : Covered(q)

NothingUnwoken == misuse \cap {"unwoken", "stale"} = {} => Awake

(* Packets are in a buffer in the order they were written. *)
PortsOrdered == \A r \in RPorts : BeingRead(r) => Increasing(rp[r].buf)

LEMMA ComingFinite ==
  ASSUME NEW q
  PROVE  /\ IsFiniteSet(Coming(q)) /\ IsFiniteSet(Coming(q)')
         /\ \A t : t \in Coming(q) <=> t \in Readers /\ reader[t].at = q /\ ~reader[t].blocked
                                       /\ reader[t].ret = "NO_ERROR"
         /\ \A t : t \in Coming(q)' <=> t \in Readers /\ reader'[t].at = q /\ ~reader'[t].blocked
                                        /\ reader'[t].ret = "NO_ERROR"
  <1>1. Coming(q) \subseteq Readers /\ Coming(q)' \subseteq Readers
    BY DEF Coming, Using
  <1>2. IsFiniteSet(Coming(q)) /\ IsFiniteSet(Coming(q)')
    BY <1>1, FS_Subset, PortAssumption
  <1> QED BY <1>2 DEF Coming, Using

LEMMA SourcesAre ==
  ASSUME NEW q
  PROVE  /\ q # Group => Range(Sources(q)) = {q} /\ Range(Sources(q)') = {q}
         /\ q = Group => Range(Sources(q)) = Range(pg.rp_list) /\ Range(Sources(q)') = Range(pg'.rp_list)
  <1>1. Range(<<q>>) = {q}
    BY DEF Range
  <1> QED BY <1>1 DEF Sources

LEMMA PacketsAre ==
  ASSUME NEW q
  PROVE  /\ \A x : x \in Packets(q) <=> \E r \in Range(Sources(q)) : \E p \in Range(rp[r].buf) : x = <<r, p>>
         /\ \A x : x \in Packets(q)' <=> \E r \in Range(Sources(q)') : \E p \in Range(rp'[r].buf) : x = <<r, p>>
  BY DEF Packets, Range

(* A port threads wait on is one that gives packets. *)
LEMMA AwaitedOpen ==
  ASSUME PortBase, PortsFresh, NEW q \in Queues, waitq[q] # <<>>
  PROVE  IsOpen(q) /\ q # closing /\ (q \in RPorts => BeingRead(q))
  <1>1. waitq[q] \in Seq(Readers)
    BY DEF PortBase, PortThreads
  <1>2. PICK t : t \in Range(waitq[q])
    BY <1>1, EmptyList
  <1>3. t \in Readers
    BY <1>1, <1>2, EmptyList
  <1>4. reader[t].blocked /\ reader[t].at = q
    BY <1>2, <1>3 DEF PortBase, PortThreads, ThreadsQueued
  <1>5. q # NULL
    BY PortConstants
  <1>6. IsOpen(q) /\ q # closing
    BY <1>3, <1>4, <1>5 DEF PortsFresh, Expects
  <1> QED BY <1>6, PortConstants DEF IsOpen, BeingRead

LEMMA SourcesRead ==
  ASSUME PortBase, NEW q \in Queues, q \in RPorts => BeingRead(q)
  PROVE  \A r \in Range(Sources(q)) : r \in RPorts /\ BeingRead(r) /\ rp[r].buf \in Seq(Nat)
  <1> TAKE r \in Range(Sources(q))
  <1>1. r \in RPorts /\ BeingRead(r)
    <2>1. CASE q = Group
      <3>1. r \in Range(pg.rp_list)
        BY <2>1, SourcesAre
      <3> QED BY <3>1, PortRecords DEF PortBase, GroupMembers
    <2>2. CASE q # Group
      BY <2>2, SourcesAre DEF Queues
    <2> QED BY <2>1, <2>2
  <1>2. rp[r] \in ReadRecord /\ rp[r].buf # NULL
    BY <1>1, PortRecords DEF PortBase, ReadPorts
  <1> QED BY <1>1, <1>2 DEF ReadRecord

LEMMA PacketsFinite ==
  ASSUME PortBase, NEW q \in Queues, q \in RPorts => BeingRead(q)
  PROVE  IsFiniteSet(Packets(q))
  <1> DEFINE S == Range(Sources(q))
             f == [r \in S |-> {<<r, p>> : p \in Range(rp[r].buf)}]
  <1>1. Packets(q) = UNION {f[r] : r \in S}
    BY DEF Packets
  <1>2. IsFiniteSet(S)
    <2>1. CASE q = Group
      <3>1. pg.rp_list \in Seq(RPorts)
        BY PortRecords DEF PortBase
      <3>2. IsFiniteSet(Range(pg.rp_list))
        BY <3>1, ListFinite
      <3> QED BY <2>1, <3>2, SourcesAre
    <2>2. CASE q # Group
      <3>1. S = {q}
        BY <2>2, SourcesAre
      <3>2. IsFiniteSet({q})
        BY FS_Singleton
      <3> QED BY <3>1, <3>2
    <2> QED BY <2>1, <2>2
  <1>3. f \in [S -> {{<<r, p>> : p \in Range(rp[r].buf)} : r \in S}]
    OBVIOUS
  <1>4. ASSUME NEW r \in S PROVE IsFiniteSet(f[r])
    <2>1. rp[r].buf \in Seq(Nat)
      BY SourcesRead
    <2>2. IsFiniteSet({<<r, p>> : p \in Range(rp[r].buf)})
      BY <2>1, ListFinite
    <2>3. f[r] = {<<r, p>> : p \in Range(rp[r].buf)}
      BY Zenon
    <2> HIDE DEF f
    <2> QED BY <2>2, <2>3, Zenon
  <1> HIDE DEF S, f
  <1>5. IsFiniteSet({f[r] : r \in S})
    <2>1. PICK T : f \in [S -> T]
      BY <1>3
    <2> QED BY <1>2, <2>1, ImageFinite
  <1>6. \A T \in {f[r] : r \in S} : IsFiniteSet(T)
    BY <1>4
  <1>7. IsFiniteSet(UNION {f[r] : r \in S})
    BY <1>5, <1>6, FS_UNION
  <1> QED BY <1>1, <1>7

LEMMA FewerPackets ==
  ASSUME NEW P, NEW P2, NEW C, NEW C2, IsFiniteSet(P), IsFiniteSet(C2),
         P2 \subseteq P, C \subseteq C2, Cardinality(P) <= Cardinality(C)
  PROVE  Cardinality(P2) <= Cardinality(C2)
  <1>1. IsFiniteSet(P2) /\ Cardinality(P2) <= Cardinality(P)
    BY FS_Subset
  <1>2. IsFiniteSet(C) /\ Cardinality(C) <= Cardinality(C2)
    BY FS_Subset
  <1>3. /\ Cardinality(P) \in Nat /\ Cardinality(P2) \in Nat
        /\ Cardinality(C) \in Nat /\ Cardinality(C2) \in Nat
    BY <1>1, <1>2, FS_CardinalityType
  <1> QED BY <1>1, <1>2, <1>3

LEMMA MorePackets ==
  ASSUME NEW P, NEW P2, NEW A, NEW C, NEW C2, NEW B, IsFiniteSet(P), IsFiniteSet(A), IsFiniteSet(C2),
         P2 \subseteq P \cup A, C \cup B \subseteq C2, B \cap C = {},
         Cardinality(A) <= Cardinality(B), Cardinality(P) <= Cardinality(C)
  PROVE  Cardinality(P2) <= Cardinality(C2)
  <1>1. IsFiniteSet(C) /\ IsFiniteSet(B)
    BY FS_Subset
  <1>2. /\ IsFiniteSet(P \cup A)
        /\ Cardinality(P \cup A) = Cardinality(P) + Cardinality(A) - Cardinality(P \cap A)
    BY FS_Union
  <1>3. /\ IsFiniteSet(C \cup B)
        /\ Cardinality(C \cup B) = Cardinality(C) + Cardinality(B) - Cardinality(C \cap B)
    BY <1>1, FS_Union
  <1>4. IsFiniteSet(P \cap A) /\ C \cap B = {} /\ Cardinality(C \cap B) = 0
    <2>1. P \cap A \in SUBSET P /\ C \cap B = {}
      OBVIOUS
    <2>2. IsFiniteSet(P \cap A)
      BY <2>1, FS_Subset
    <2> QED BY <2>1, <2>2, FS_EmptySet
  <1>5. /\ Cardinality(P) \in Nat /\ Cardinality(A) \in Nat /\ Cardinality(P \cap A) \in Nat
        /\ Cardinality(C) \in Nat /\ Cardinality(B) \in Nat
    BY <1>1, <1>4, FS_CardinalityType
  <1>6. Cardinality(P \cup A) <= Cardinality(C \cup B)
    BY <1>2, <1>3, <1>4, <1>5
  <1> QED BY <1>2, <1>6, FewerPackets

LEMMA LessPackets ==
  ASSUME NEW P, NEW P2, NEW x \in P, NEW C, NEW C2, NEW t, IsFiniteSet(P), IsFiniteSet(C), IsFiniteSet(C2),
         P2 \subseteq P \ {x}, C \ {t} \subseteq C2, Cardinality(P) <= Cardinality(C)
  PROVE  Cardinality(P2) <= Cardinality(C2)
  <1>1. IsFiniteSet(P \ {x}) /\ Cardinality(P \ {x}) = Cardinality(P) - 1
    BY FS_RemoveElement
  <1>2. /\ IsFiniteSet(C \ {t})
        /\ Cardinality(C \ {t}) = IF t \in C THEN Cardinality(C) - 1 ELSE Cardinality(C)
    BY FS_RemoveElement
  <1>3. Cardinality(P) \in Nat /\ Cardinality(C) \in Nat
    BY FS_CardinalityType
  <1>4. Cardinality(P \ {x}) <= Cardinality(C \ {t})
    BY <1>1, <1>2, <1>3
  <1> QED BY <1>1, <1>4, FewerPackets

LEMMA PacketsWithin ==
  ASSUME NEW q, Range(Sources(q)') \subseteq Range(Sources(q)),
         \A r \in Range(Sources(q)') : Range(rp'[r].buf) \subseteq Range(rp[r].buf)
  PROVE  Packets(q)' \subseteq Packets(q)
  <1>1. ASSUME NEW x \in Packets(q)' PROVE x \in Packets(q)
    <2>1. PICK r \in Range(Sources(q)') : \E p \in Range(rp'[r].buf) : x = <<r, p>>
      BY PacketsAre
    <2>2. PICK p \in Range(rp'[r].buf) : x = <<r, p>>
      BY <2>1
    <2>3. r \in Range(Sources(q)) /\ p \in Range(rp[r].buf)
      OBVIOUS
    <2> QED BY <2>2, <2>3, PacketsAre
  <1> QED BY <1>1

LEMMA UsingKept ==
  ASSUME \A t \in Readers : reader'[t].at = reader[t].at
  PROVE  \A q : Using(q)' = Using(q)
  BY DEF Using

(* Nothing that was covered is uncovered. *)
LEMMA AwakeStep ==
  ASSUME PortBase, PortsFresh, Awake, GroupAlone',
         \A q \in Queues : q # closing' /\ waitq'[q] # <<>> =>
           \/ waitq[q] # <<>> /\ Packets(q)' \subseteq Packets(q) /\ Coming(q) \subseteq Coming(q)'
           \/ Cardinality(Packets(q)') <= Cardinality(Coming(q)')
  PROVE  Awake'
  <1>1. ASSUME NEW q \in Queues, q # closing', waitq'[q] # <<>>
        PROVE  Cardinality(Packets(q)') <= Cardinality(Coming(q)')
    <2>1. CASE waitq[q] # <<>> /\ Packets(q)' \subseteq Packets(q) /\ Coming(q) \subseteq Coming(q)'
      <3>1. q # closing /\ IsFiniteSet(Packets(q))
        BY <2>1, AwaitedOpen, PacketsFinite
      <3>2. Cardinality(Packets(q)) <= Cardinality(Coming(q))
        BY <2>1, <3>1 DEF Awake, Covered
      <3> QED BY <2>1, <3>1, <3>2, ComingFinite, FewerPackets
    <2> QED BY <1>1, <2>1
  <1>2. ASSUME NEW q \in Queues, q # closing' PROVE Covered(q)'
    BY <1>1, <1>2 DEF Covered
  <1> QED BY <1>2 DEF Awake, Queues

LEMMA AwakeKept ==
  ASSUME PortBase, PortsFresh, Awake, GroupAlone',
         \A q \in Queues : q # closing' /\ waitq'[q] # <<>> =>
           waitq[q] # <<>> /\ Packets(q)' \subseteq Packets(q) /\ Coming(q) \subseteq Coming(q)'
  PROVE  Awake'
  BY AwakeStep

(* Neither the read ports nor the threads change. *)
LEMMA AwakeFrame ==
  ASSUME PortBase, PortsFresh, Awake,
         rp' = rp, pg' = pg, waitq' = waitq, reader' = reader, closing' = closing
  PROVE  Awake'
  <1>1. GroupAlone'
    BY DEF Awake, GroupAlone, Using
  <1>2. ASSUME NEW q PROVE Packets(q)' = Packets(q) /\ Coming(q)' = Coming(q)
    BY DEF Packets, Sources, Coming, Using
  <1> QED BY <1>1, <1>2, AwakeKept

LEMMA OpenAwake ==
  ASSUME PortBase, PortsFresh, Awake, NEW r \in RPorts, NEW name \in Names, Open(r, name)
  PROVE  Awake'
  <1>1. /\ pg' = pg /\ reader' = reader /\ closing' = closing /\ waitq' = waitq
        /\ \A q \in RPorts \ {r} : rp'[q] = rp[q]
        /\ rp'[r].gport = FALSE /\ rp[r].magic = "none"
    BY DEF Open, port_open, PortBase, PortTypeOK
  <1>2. GroupAlone'
    BY <1>1 DEF Awake, GroupAlone, Using
  <1>3. ASSUME NEW q \in Queues, waitq'[q] # <<>>
        PROVE  waitq[q] # <<>> /\ Packets(q)' \subseteq Packets(q) /\ Coming(q) \subseteq Coming(q)'
    <2>1. waitq[q] # <<>> /\ Coming(q)' = Coming(q)
      BY <1>1, <1>3 DEF Coming, Using
    <2>2. q \in RPorts => BeingRead(q)
      BY <2>1, AwaitedOpen
    <2>3. Range(Sources(q)') = Range(Sources(q))
      BY <1>1 DEF Sources
    <2>4. \A p \in Range(Sources(q)) : p \in RPorts /\ BeingRead(p)
      BY <2>2, SourcesRead
    <2>5. \A p \in Range(Sources(q)') : rp'[p] = rp[p]
      BY <1>1, <2>3, <2>4 DEF BeingRead
    <2>6. Packets(q)' \subseteq Packets(q)
      BY <2>3, <2>5, PacketsWithin
    <2> QED BY <2>1, <2>6
  <1> QED BY <1>2, <1>3, AwakeKept

LEMMA GroupAwake ==
  ASSUME PortBase, PortsFresh, Awake, NEW s \in PortLists, port_group(s), "unwoken" \notin misuse'
  PROVE  Awake'
  <1>1. /\ pg.magic = "none" /\ pg' = [magic |-> "G", rp_list |-> s]
        /\ rp' = [r \in RPorts |-> IF r \in Range(s) THEN [rp[r] EXCEPT !.gport = TRUE] ELSE rp[r]]
        /\ reader' = reader /\ closing' = closing /\ waitq' = waitq
        /\ misuse' = misuse \cup UNION {Shared(r) : r \in Range(s)}
    BY DEF port_group, Admin
  <1>2. ASSUME NEW r \in RPorts
        PROVE  rp'[r].buf = rp[r].buf /\ (r \notin Range(s) => rp'[r] = rp[r])
    <2>1. rp[r] \in ReadRecord
      BY PortRecords DEF PortBase
    <2> QED BY <1>1, <2>1 DEF ReadRecord
  <1>3. ASSUME NEW r \in Range(s) PROVE Using(r) = {}
    <2>1. "unwoken" \notin Shared(r)
      BY <1>1
    <2> QED BY <2>1 DEF Shared
  <1>4. GroupAlone'
    <2>1. \A r \in RPorts : Using(r)' = Using(r)
      BY <1>1 DEF Using
    <2> QED BY <1>2, <1>3, <2>1 DEF Awake, GroupAlone
  <1>5. ASSUME NEW q \in Queues, waitq'[q] # <<>>
        PROVE  waitq[q] # <<>> /\ Packets(q)' \subseteq Packets(q) /\ Coming(q) \subseteq Coming(q)'
    <2>1. waitq[q] # <<>> /\ Coming(q)' = Coming(q)
      BY <1>1, <1>5 DEF Coming, Using
    <2>2. q # Group
      BY <1>1, <2>1, AwaitedOpen DEF IsOpen
    <2>3. q \in RPorts /\ Range(Sources(q)') = {q} /\ Range(Sources(q)) = {q}
      BY <2>2, SourcesAre DEF Queues
    <2>4. Packets(q)' \subseteq Packets(q)
      BY <1>2, <2>3, PacketsWithin
    <2> QED BY <2>1, <2>4
  <1> QED BY <1>4, <1>5, AwakeKept

LEMMA TimeoutAwake ==
  ASSUME PortBase, PortsFresh, Awake, NEW t \in Readers, read_timeout(t)
  PROVE  Awake'
  <1>1. /\ \A u \in Readers \ {t} : reader'[u] = reader[u]
        /\ reader'[t].at = reader[t].at /\ ~reader'[t].blocked /\ reader'[t].ret = "ERR_TIMED_OUT"
        /\ \A p \in Queues : waitq'[p] # <<>> => waitq[p] # <<>>
    BY ThreadTimesOut, PortConstants DEF read_timeout, PortBase
  <1>2. rp' = rp /\ pg' = pg /\ closing' = closing /\ reader[t].blocked
    BY DEF read_timeout
  <1>3. GroupAlone'
    <2>1. \A q : Using(q)' = Using(q)
      BY <1>1, UsingKept
    <2> QED BY <1>2, <2>1 DEF Awake, GroupAlone
  <1>4. ASSUME NEW q PROVE Packets(q)' = Packets(q) /\ Coming(q) \subseteq Coming(q)'
    <2>1. Coming(q) \subseteq Coming(q)'
      BY <1>1, <1>2, ComingFinite
    <2> QED BY <1>2, <2>1 DEF Packets, Sources
  <1> QED BY <1>1, <1>3, <1>4, AwakeKept

(* A wake-up with an error, of everyone on some queues. *)
LEMMA ErrorAwake ==
  ASSUME NEW ret, ret # "NO_ERROR", SomeWoken(ret)
  PROVE  \A q : Using(q)' = Using(q) /\ Coming(q)' = Coming(q)
  <1>1. \A q : Using(q)' = Using(q)
    BY UsingKept DEF SomeWoken
  <1>2. ASSUME NEW q PROVE Coming(q)' = Coming(q)
    <2>1. ASSUME NEW t \in Readers
          PROVE  t \in Coming(q)' <=> t \in Coming(q)
      <3>1. /\ reader'[t].at = reader[t].at
            /\ \/ reader'[t] = reader[t]
               \/ reader[t].blocked /\ ~reader'[t].blocked /\ reader'[t].ret # "NO_ERROR"
        BY DEF SomeWoken
      <3> QED BY <3>1, ComingFinite
    <2>2. Coming(q) \subseteq Readers /\ Coming(q)' \subseteq Readers
      BY ComingFinite
    <2> QED BY <2>1, <2>2
  <1> QED BY <1>1, <1>2

LEMMA CloseAwake ==
  ASSUME PortBase, PortsFresh, Awake, NEW r \in RPorts, port_close(r)
  PROVE  Awake'
  <1>1. /\ SomeWoken("ERR_OBJECT_DESTROYED")
        /\ \A q \in Queues \ {r} : waitq'[q] = waitq[q]
        /\ Range(pg'.rp_list) = Range(pg.rp_list) \ {r}
    BY CloseKeepsBase
  <1>2. /\ closing' = r
        /\ \A q \in RPorts : rp'[q].gport = rp[q].gport /\ (q # r => rp'[q] = rp[q])
    BY CloseBuffers
  <1>3. \A q : Using(q)' = Using(q) /\ Coming(q)' = Coming(q)
    BY <1>1, ErrorAwake
  <1>4. GroupAlone'
    BY <1>2, <1>3 DEF Awake, GroupAlone
  <1>5. ASSUME NEW q \in Queues, q # closing', waitq'[q] # <<>>
        PROVE  waitq[q] # <<>> /\ Packets(q)' \subseteq Packets(q) /\ Coming(q) \subseteq Coming(q)'
    <2>1. q # r /\ waitq[q] # <<>> /\ Coming(q)' = Coming(q)
      BY <1>1, <1>2, <1>3, <1>5
    <2>2. \A p \in Range(Sources(q)) : p \in RPorts
      BY <2>1, AwaitedOpen, SourcesRead
    <2>3. Range(Sources(q)') \subseteq Range(Sources(q)) \ {r}
      BY <1>1, <2>1, SourcesAre
    <2>4. \A p \in Range(Sources(q)') : rp'[p] = rp[p]
      BY <1>2, <2>2, <2>3
    <2>5. Packets(q)' \subseteq Packets(q)
      BY <2>3, <2>4, PacketsWithin
    <2> QED BY <2>1, <2>5
  <1> QED BY <1>4, <1>5, AwakeKept

LEMMA CloseGroupAwake ==
  ASSUME PortBase, PortsFresh, Awake, close_group
  PROVE  Awake'
  <1>1. SomeWoken("ERR_OBJECT_DESTROYED") /\ waitq'[Group] = <<>>
    BY CloseGroupKeepsBase
  <1>2. /\ rp' = rp /\ pg' = pg /\ closing' = Group /\ wake_all({Group}, "ERR_OBJECT_DESTROYED")
    BY DEF close_group
  <1>3. \A q : Using(q)' = Using(q) /\ Coming(q)' = Coming(q)
    BY <1>1, ErrorAwake
  <1>4. GroupAlone'
    BY <1>2, <1>3 DEF Awake, GroupAlone
  <1>5. \A q \in Queues \ {Group} : waitq'[q] = waitq[q]
    <2>1. {Group} \in SUBSET Queues /\ "ERR_OBJECT_DESTROYED" \in WaitResults
      BY DEF Queues, WaitResults
    <2> QED BY <1>2, <2>1, AllWoken DEF PortBase
  <1>6. \A q : Packets(q)' = Packets(q)
    BY <1>2 DEF Packets, Sources
  <1> QED BY <1>2, <1>3, <1>4, <1>5, <1>6, AwakeKept

LEMMA CloseEndsAwake ==
  ASSUME PortBase, PortsFresh, Awake, port_close_ends
  PROVE  Awake'
  <1>1. /\ waitq' = waitq /\ reader' = reader /\ closing' = NULL
        /\ \A q \in RPorts : /\ q # closing => rp'[q].buf = rp[q].buf /\ (rp'[q].gport => rp[q].gport)
                             /\ q = closing => rp'[q].gport = FALSE
        /\ closing = Group => pg' = [magic |-> "gone", rp_list |-> <<>>]
        /\ closing # Group => pg' = pg
    BY CloseEnds
  <1>2. \A q : Using(q)' = Using(q) /\ Coming(q)' = Coming(q)
    BY <1>1 DEF Using, Coming
  <1>3. GroupAlone'
    BY <1>1, <1>2 DEF Awake, GroupAlone
  <1>4. ASSUME NEW q \in Queues, waitq'[q] # <<>>
        PROVE  waitq[q] # <<>> /\ Packets(q)' \subseteq Packets(q) /\ Coming(q) \subseteq Coming(q)'
    <2>1. waitq[q] # <<>> /\ Coming(q)' = Coming(q)
      BY <1>1, <1>2, <1>4
    <2>2. q # closing /\ (q \in RPorts => BeingRead(q))
      BY <2>1, AwaitedOpen
    <2>3. Range(Sources(q)') = Range(Sources(q))
      BY <1>1, <2>2, SourcesAre
    <2>4. \A p \in Range(Sources(q)) : p \in RPorts /\ BeingRead(p)
      BY <2>2, SourcesRead
    <2>5. \A p \in Range(Sources(q)') : rp'[p].buf = rp[p].buf
      BY <1>1, <2>3, <2>4 DEF BeingRead
    <2>6. Packets(q)' \subseteq Packets(q)
      BY <2>3, <2>5, PacketsWithin
    <2> QED BY <2>1, <2>6
  <1> QED BY <1>3, <1>4, AwakeKept

LEMMA DestroyAwake ==
  ASSUME PortBase, PortsFresh, Awake, NEW w \in WPorts, port_destroy(w)
  PROVE  Awake'
  <1>1. SomeWoken("ERR_CANCELLED") /\ \A q \in Queues : waitq'[q] = waitq[q] \/ waitq'[q] = <<>>
    BY DestroyKeepsBase
  <1>2. /\ \A r \in RPorts : rp'[r].buf = rp[r].buf /\ rp'[r].gport = rp[r].gport
        /\ pg' = pg /\ closing' = closing
    BY Destroys
  <1>3. \A q : Using(q)' = Using(q) /\ Coming(q)' = Coming(q)
    BY <1>1, ErrorAwake
  <1>4. GroupAlone'
    BY <1>2, <1>3 DEF Awake, GroupAlone
  <1>5. ASSUME NEW q \in Queues, waitq'[q] # <<>>
        PROVE  waitq[q] # <<>> /\ Packets(q)' \subseteq Packets(q) /\ Coming(q) \subseteq Coming(q)'
    <2>1. waitq[q] # <<>> /\ Coming(q)' = Coming(q)
      BY <1>1, <1>3, <1>5
    <2>2. Range(Sources(q)') = Range(Sources(q))
      BY <1>2 DEF Sources
    <2>3. \A p \in Range(Sources(q)) : p \in RPorts
      BY <2>1, AwaitedOpen, SourcesRead
    <2>4. Packets(q)' \subseteq Packets(q)
      BY <1>2, <2>2, <2>3, PacketsWithin
    <2> QED BY <2>1, <2>4
  <1> QED BY <1>4, <1>5, AwakeKept

LEMMA HeadTaken ==
  ASSUME NEW b \in Seq(Nat), b # <<>>, Increasing(b)
  PROVE  /\ Head(b) \in Range(b) /\ Range(Tail(b)) \subseteq Range(b) \ {Head(b)}
         /\ Increasing(Tail(b))
  <1>1. PICK c : c = Tail(b)
    OBVIOUS
  <1>2. PICK n \in Nat : Len(b) = n /\ n >= 1 /\ DOMAIN b = 1 .. n
    OBVIOUS
  <1>3. /\ DOMAIN c = 1 .. n - 1
        /\ \A i \in 1 .. n - 1 : c[i] = b[i + 1]
    BY <1>1, <1>2
  <1>4. Head(b) = b[1] /\ 1 \in DOMAIN b
    BY <1>2
  <1>5. ASSUME NEW i \in DOMAIN c PROVE c[i] \in Range(b) /\ c[i] # b[1]
    <2>1. i + 1 \in DOMAIN b /\ 1 < i + 1 /\ c[i] = b[i + 1]
      BY <1>2, <1>3
    <2>2. b[1] < b[i + 1] /\ b[1] \in Nat /\ b[i + 1] \in Nat
      BY <1>4, <2>1 DEF Increasing
    <2>3. b[1] # b[i + 1]
      BY <2>2
    <2>4. b[i + 1] \in Range(b)
      BY <2>1 DEF Range
    <2> QED BY <2>1, <2>3, <2>4
  <1>6. ASSUME NEW i \in DOMAIN c, NEW j \in DOMAIN c, i < j PROVE c[i] < c[j]
    <2>1. i \in 1 .. n - 1 /\ j \in 1 .. n - 1
      BY <1>3
    <2>2. i + 1 \in 1 .. n /\ j + 1 \in 1 .. n /\ i + 1 < j + 1
      BY <1>6, <2>1
    <2>3. c[i] = b[i + 1] /\ c[j] = b[j + 1]
      BY <1>3, <2>1
    <2>4. b[i + 1] < b[j + 1]
      BY <1>2, <2>2 DEF Increasing
    <2> QED BY <2>3, <2>4
  <1>7. Range(c) \subseteq Range(b) \ {b[1]}
    BY <1>5 DEF Range
  <1>8. Increasing(c)
    BY <1>6 DEF Increasing
  <1> QED BY <1>1, <1>4, <1>7, <1>8 DEF Range

LEMMA PassAwake ==
  ASSUME PortBase, PortsFresh, PortsOrdered, Awake, NEW t \in Readers, ~reader[t].blocked,
         NEW q \in Queues, MakesPass(t, q), IsOpen(q), q # closing, q \in RPorts => ~rp[q].gport,
         reader[t].at \in {NULL, q}
  PROVE  Awake'
  <1>1. pg' = pg /\ closing' = closing /\ Pass(t, q)
    BY DEF MakesPass
  <1>2. q \in RPorts => BeingRead(q)
    BY PortConstants DEF IsOpen, BeingRead
  <1>3. q = Group \/ rp[q].buf # NULL
    BY <1>2 DEF PortBase, ReadPorts, Queues
  <1>4. reader \in [Readers -> ReaderThread] /\ reader[t] \in ReaderThread
    BY DEF PortBase, PortThreads
  <1>5. \A p : Range(Sources(p)') = Range(Sources(p))
    BY <1>1 DEF Sources
  <1>6. ASSUME NEW p \in Queues, p # q PROVE t \notin Coming(p)
    <2>1. p # NULL
      BY PortConstants
    <2> QED BY <1>6, <2>1, ComingFinite
  <1>7. CASE TakePacket(t, q)
    <2>1. PICK r : r = TakenFrom(q)
      OBVIOUS
    <2>2. /\ rp' = [rp EXCEPT ![r].buf = Tail(@)] /\ seen' = [seen EXCEPT ![r] = Head(rp[r].buf)]
          /\ reader' = [reader EXCEPT ![t].at = NULL] /\ waitq' = waitq /\ Ready(q) # {}
      BY <1>7, <2>1 DEF TakePacket, TakenFrom
    <2>3. r \in RPorts /\ r \in Range(Sources(q)) /\ rp[r].buf \in Seq(Nat) /\ rp[r].buf # <<>>
      BY <1>3, <2>1, <2>2, TakesFrom
    <2>4. /\ rp'[r].buf = Tail(rp[r].buf)
          /\ \A p \in RPorts : rp'[p].gport = rp[p].gport /\ (p # r => rp'[p] = rp[p])
      BY <2>2, <2>3, PacketTaken
    <2>5. Increasing(rp[r].buf)
      BY <1>2, <2>3, SourcesRead DEF PortsOrdered
    <2>6. PICK h : h = Head(rp[r].buf)
      OBVIOUS
    <2>7. h \in Range(rp[r].buf) /\ Range(rp'[r].buf) \subseteq Range(rp[r].buf) \ {h}
      BY <2>3, <2>4, <2>5, <2>6, HeadTaken
    <2>8. reader'[t].at = NULL /\ \A u \in Readers \ {t} : reader'[u] = reader[u]
      BY <1>4, <2>2 DEF ReaderThread
    <2>9. GroupAlone'
      <3>1. \A p \in RPorts : Using(p)' \subseteq Using(p)
        BY <2>8, PortConstants DEF Using
      <3> QED BY <2>4, <3>1 DEF Awake, GroupAlone
    <2>10. ASSUME NEW p \in Queues PROVE Coming(p) \ {t} \subseteq Coming(p)'
      BY <2>8, ComingFinite
    <2>11. ASSUME NEW p \in Queues, p # q, waitq'[p] # <<>>
           PROVE  waitq[p] # <<>> /\ Packets(p)' \subseteq Packets(p) /\ Coming(p) \subseteq Coming(p)'
      <3>1. waitq[p] # <<>> /\ Coming(p) \subseteq Coming(p)'
        BY <1>6, <2>2, <2>10, <2>11
      <3>2. \A s \in Range(Sources(p)) : s \in RPorts
        BY <3>1, AwaitedOpen, SourcesRead
      <3>3. \A s \in Range(Sources(p)') : Range(rp'[s].buf) \subseteq Range(rp[s].buf)
        BY <1>5, <2>4, <2>7, <3>2
      <3> QED BY <1>5, <3>1, <3>3, PacketsWithin
    <2>12. ASSUME waitq'[q] # <<>> PROVE Cardinality(Packets(q)') <= Cardinality(Coming(q)')
      <3>1. \A s \in Range(Sources(q)') : Range(rp'[s].buf) \subseteq Range(rp[s].buf)
        BY <1>2, <1>5, <2>4, <2>7, SourcesRead
      <3>2. Packets(q)' \subseteq Packets(q)
        BY <1>5, <3>1, PacketsWithin
      <3>3. PICK x : x = <<r, h>>
        OBVIOUS
      <3>4. x \in Packets(q)
        BY <2>3, <2>7, <3>3, PacketsAre
      <3>5. x \notin Packets(q)'
        <4>1. SUFFICES ASSUME x \in Packets(q)' PROVE FALSE
          OBVIOUS
        <4>2. PICK s \in Range(Sources(q)') : \E p \in Range(rp'[s].buf) : x = <<s, p>>
          BY <4>1, PacketsAre
        <4>3. s = r /\ h \in Range(rp'[s].buf)
          BY <3>3, <4>2
        <4> QED BY <2>7, <4>3
      <3>6. IsFiniteSet(Packets(q)) /\ Cardinality(Packets(q)) <= Cardinality(Coming(q))
        BY <1>2, <2>2, <2>12, PacketsFinite DEF Awake, Covered
      <3>7. Packets(q)' \subseteq Packets(q) \ {x}
        BY <3>2, <3>5
      <3>8. PICK P, P2, C, C2 :
              P = Packets(q) /\ P2 = Packets(q)' /\ C = Coming(q) /\ C2 = Coming(q)'
        OBVIOUS
      <3>9. /\ x \in P /\ IsFiniteSet(P) /\ IsFiniteSet(C) /\ IsFiniteSet(C2)
            /\ P2 \subseteq P \ {x} /\ C \ {t} \subseteq C2 /\ Cardinality(P) <= Cardinality(C)
        BY <2>10, <3>4, <3>6, <3>7, <3>8, ComingFinite
      <3>10. Cardinality(P2) <= Cardinality(C2)
        BY <3>9, LessPackets
      <3> QED BY <3>8, <3>10
    <2> QED BY <2>9, <2>11, <2>12, AwakeStep
  <1>8. CASE Block(t, q)
    <2>1. /\ rp' = rp /\ reader' = [reader EXCEPT ![t] = [at |-> q, blocked |-> TRUE, ret |-> "NO_ERROR"]]
          /\ waitq' = [waitq EXCEPT ![q] = Append(@, t)] /\ Ready(q) = {}
      BY <1>8 DEF Block
    <2>2. /\ \A u \in Readers \ {t} : reader'[u] = reader[u]
          /\ reader'[t].at = q
      BY <1>4, <2>1
    <2>3. \A p \in Queues \ {q} : waitq'[p] = waitq[p]
      BY <2>1 DEF PortBase, PortThreads
    <2>4. GroupAlone'
      <3>1. \A p \in RPorts \ {q} : Using(p)' \subseteq Using(p)
        BY <2>2 DEF Using
      <3> QED BY <2>1, <3>1 DEF Awake, GroupAlone
    <2>5. \A p : Packets(p)' = Packets(p)
      BY <1>1, <2>1 DEF Packets, Sources
    <2>6. ASSUME NEW p \in Queues, p # q PROVE Coming(p) \subseteq Coming(p)'
      BY <1>6, <2>2, <2>6, ComingFinite
    <2>7. Packets(q) = {}
      <3>1. ASSUME NEW s \in Range(Sources(q)) PROVE Range(rp[s].buf) = {}
        <4>1. PICK i \in DOMAIN Sources(q) : Sources(q)[i] = s
          BY DEF Range
        <4>2. rp[s].buf = <<>>
          BY <2>1, <4>1 DEF Ready
        <4> QED BY <4>2 DEF Range
      <3> QED BY <3>1, PacketsAre
    <2>8. Cardinality(Packets(q)') <= Cardinality(Coming(q)')
      <3>1. Cardinality(Packets(q)') = 0
        BY <2>5, <2>7, FS_EmptySet
      <3>2. Cardinality(Coming(q)') \in Nat
        BY ComingFinite, FS_CardinalityType
      <3> QED BY <3>1, <3>2
    <2> QED BY <2>3, <2>4, <2>5, <2>6, <2>8, AwakeStep
  <1>9. TakePacket(t, q) \/ Block(t, q)
    BY <1>1, <1>3 DEF Pass
  <1> QED BY <1>7, <1>8, <1>9

LEMMA ReadAwake ==
  ASSUME PortBase, PortsFresh, PortsOrdered, Awake, NEW t \in Readers, NEW q \in Queues, port_read(t, q),
         "stale" \notin misuse', "unwoken" \notin misuse'
  PROVE  Awake'
  <1>1. /\ IsOpen(q) /\ q # closing /\ reader[t].at = NULL
        /\ q \in RPorts => ~rp[q].gport
    BY DEF port_read, IsOpen
  <1> QED BY <1>1, ReadKeepsBase, PassAwake

LEMMA ReturnsAwake ==
  ASSUME PortBase, PortsFresh, PortsOrdered, Awake, NEW t \in Readers, port_read_returns(t)
  PROVE  Awake'
  <1>1. PICK q : q = reader[t].at
    OBVIOUS
  <1>2. /\ ~reader[t].blocked /\ q # NULL
        /\ \/ /\ reader[t].ret # "NO_ERROR" /\ reader' = [reader EXCEPT ![t].at = NULL]
              /\ rp' = rp /\ waitq' = waitq
           \/ reader[t].ret = "NO_ERROR" /\ Closed(q)
           \/ reader[t].ret = "NO_ERROR" /\ Pass(t, q)
        /\ write_port_list' = write_port_list /\ wp' = wp /\ pg' = pg /\ closing' = closing
        /\ written' = written /\ refused' = refused /\ misuse' = misuse
    BY <1>1 DEF port_read_returns
  <1>3. reader \in [Readers -> ReaderThread] /\ reader[t] \in ReaderThread
    BY DEF PortBase, PortThreads
  <1>4. q \in Queues
    BY <1>1, <1>2, <1>3 DEF ReaderThread
  <1>5. CASE reader[t].ret # "NO_ERROR" /\ reader' = [reader EXCEPT ![t].at = NULL] /\ rp' = rp /\ waitq' = waitq
    <2>1. reader'[t].at = NULL /\ \A u \in Readers \ {t} : reader'[u] = reader[u]
      BY <1>3, <1>5 DEF ReaderThread
    <2>2. GroupAlone'
      <3>1. \A p \in RPorts : Using(p)' \subseteq Using(p)
        BY <2>1, PortConstants DEF Using
      <3> QED BY <1>5, <3>1 DEF Awake, GroupAlone
    <2>3. \A p : Packets(p)' = Packets(p)
      BY <1>2, <1>5 DEF Packets, Sources
    <2>4. ASSUME NEW p PROVE Coming(p) \subseteq Coming(p)'
      BY <1>5, <2>1, ComingFinite
    <2> QED BY <1>5, <2>2, <2>3, <2>4, AwakeKept
  <1>6. CASE reader[t].ret = "NO_ERROR"
    <2>1. IsOpen(q) /\ q # closing
      BY <1>1, <1>2, <1>6 DEF PortsFresh, Expects
    <2>2. ~Closed(q)
      BY <2>1 DEF Closed, IsOpen
    <2>3. q \in RPorts => ~rp[q].gport
      BY <1>1 DEF Awake, GroupAlone, Using
    <2>4. MakesPass(t, q)
      BY <1>2, <1>6, <2>2 DEF MakesPass
    <2> QED BY <1>1, <1>2, <1>4, <2>1, <2>3, <2>4, PassAwake
  <1> QED BY <1>2, <1>5, <1>6

(* The first m elements of a list without repetition are m elements. *)
LEMMA FirstOnes ==
  ASSUME NEW S, NEW s \in Seq(S), Once(s), NEW m \in 0 .. Len(s)
  PROVE  Cardinality({s[i] : i \in 1 .. m}) = m
  <1>1. 1 .. m \subseteq DOMAIN s /\ m \in Nat
    OBVIOUS
  <1>2. PICK f : f = [i \in 1 .. m |-> s[i]]
    OBVIOUS
  <1>3. PICK B : B = {s[i] : i \in 1 .. m}
    OBVIOUS
  <1>4. f \in Surjection(1 .. m, B)
    BY <1>2, <1>3 DEF Surjection
  <1>5. f \in Injection(1 .. m, B)
    <2>1. f \in [1 .. m -> B]
      BY <1>4 DEF Surjection
    <2>2. ASSUME NEW i \in 1 .. m, NEW j \in 1 .. m, f[i] = f[j] PROVE i = j
      <3>1. i \in DOMAIN s /\ j \in DOMAIN s /\ s[i] = s[j]
        BY <1>1, <1>2, <2>2
      <3> QED BY <3>1 DEF Once
    <2> QED BY <2>1, <2>2 DEF Injection, IsInjective
  <1>6. IsFiniteSet(1 .. m) /\ Cardinality(1 .. m) = m
    <2>1. 1 \in Int /\ m \in Int
      BY <1>1
    <2>2. Cardinality(1 .. m) = IF 1 > m THEN 0 ELSE m - 1 + 1
      BY <2>1, FS_Interval
    <2> QED BY <1>1, <2>1, <2>2, FS_Interval
  <1>7. Cardinality(B) = Cardinality(1 .. m)
    BY <1>4, <1>5, <1>6, FS_Surjection
  <1> QED BY <1>3, <1>6, <1>7

LEMMA WokenComing ==
  ASSUME NEW ret, SomeWoken(ret)
  PROVE  \A q : Using(q)' = Using(q) /\ Coming(q) \subseteq Coming(q)'
  <1>1. \A q : Using(q)' = Using(q)
    BY UsingKept DEF SomeWoken
  <1>2. ASSUME NEW q, NEW t \in Coming(q) PROVE t \in Coming(q)'
    <2>1. t \in Readers /\ reader[t].at = q /\ ~reader[t].blocked /\ reader[t].ret = "NO_ERROR"
      BY ComingFinite
    <2>2. reader'[t] = reader[t]
      BY <2>1 DEF SomeWoken
    <2> QED BY <2>1, <2>2, ComingFinite
  <1> QED BY <1>1, <1>2

(* New packets A at q, and as many threads B woken for them. *)
LEMMA MoreAwake ==
  ASSUME PortBase, PortsFresh, Awake, NEW q \in Queues, waitq[q] # <<>>,
         NEW A, NEW B, IsFiniteSet(A), Cardinality(A) <= Cardinality(B),
         Packets(q)' \subseteq Packets(q) \cup A, Coming(q) \subseteq Coming(q)',
         \A t \in B : t \in Readers /\ reader[t].at = q /\ reader[t].blocked
                      /\ reader'[t].at = q /\ ~reader'[t].blocked /\ reader'[t].ret = "NO_ERROR"
  PROVE  Cardinality(Packets(q)') <= Cardinality(Coming(q)')
  <1>1. q # closing /\ IsFiniteSet(Packets(q))
    BY AwaitedOpen, PacketsFinite
  <1>2. Cardinality(Packets(q)) <= Cardinality(Coming(q))
    BY <1>1 DEF Awake, Covered
  <1>3. B \subseteq Coming(q)' /\ B \cap Coming(q) = {}
    BY ComingFinite
  <1>4. PICK P, P2, C, C2 :
          P = Packets(q) /\ P2 = Packets(q)' /\ C = Coming(q) /\ C2 = Coming(q)'
    OBVIOUS
  <1>5. /\ IsFiniteSet(P) /\ IsFiniteSet(C2) /\ P2 \subseteq P \cup A /\ C \cup B \subseteq C2
        /\ B \cap C = {} /\ Cardinality(P) <= Cardinality(C)
    BY <1>1, <1>2, <1>3, <1>4, ComingFinite
  <1>6. Cardinality(P2) <= Cardinality(C2)
    BY <1>5, MorePackets
  <1> QED BY <1>4, <1>6

LEMMA GroupAddAwake ==
  ASSUME PortBase, PortsFresh, Awake, NEW r \in RPorts, port_group_add(r), "unwoken" \notin misuse'
  PROVE  Awake'
  <1>1. /\ pg' = [pg EXCEPT !.rp_list = Append(@, r)] /\ rp' = [rp EXCEPT ![r].gport = TRUE]
        /\ closing' = closing /\ closing = NULL /\ rp[r].magic = "R"
        /\ IF rp[r].buf # <<>> THEN wake_one(Group, "NO_ERROR") ELSE waitq' = waitq /\ reader' = reader
        /\ misuse' = misuse \cup Shared(r) \cup (IF Len(rp[r].buf) > 1 THEN {"unwoken"} ELSE {})
    BY DEF port_group_add, Admin
  <1>2. /\ rp \in [RPorts -> ReadRecord] /\ rp[r] \in ReadRecord /\ pg.rp_list \in Seq(RPorts)
        /\ pg \in [magic : {"none", "G", "gone"}, rp_list : Seq(RPorts)]
    BY DEF PortBase, PortTypeOK
  <1>3. rp[r].buf \in Seq(Nat)
    <2>1. rp[r].buf # NULL
      BY <1>1, PortConstants DEF PortBase, ReadPorts, BeingRead
    <2> QED BY <1>2, <2>1 DEF ReadRecord
  <1>4. /\ \A p \in RPorts : rp'[p].buf = rp[p].buf /\ (p # r => rp'[p] = rp[p])
        /\ pg'.rp_list = Append(pg.rp_list, r)
    BY <1>1, <1>2 DEF ReadRecord
  <1>5. Range(pg'.rp_list) = Range(pg.rp_list) \cup {r}
    <2>1. ASSUME NEW s \in Seq(RPorts) PROVE Range(Append(s, r)) = Range(s) \cup {r}
      BY ListAppended
    <2> QED BY <1>2, <1>4, <2>1
  <1>6. SomeWoken("NO_ERROR") /\ \A q : Using(q)' = Using(q) /\ Coming(q) \subseteq Coming(q)'
    BY GroupAddKeepsBase, WokenComing
  <1>7. Using(r) = {} /\ ~(Len(rp[r].buf) > 1)
    BY <1>1 DEF Shared
  <1>8. GroupAlone'
    BY <1>4, <1>6, <1>7 DEF Awake, GroupAlone
  <1>9. /\ \A q \in Queues \ {Group} : waitq'[q] = waitq[q]
        /\ waitq'[Group] # <<>> => waitq[Group] # <<>>
        /\ rp[r].buf # <<>> /\ waitq[Group] # <<>> =>
             /\ waitq[Group][1] \in Readers
             /\ reader[waitq[Group][1]].at = Group /\ reader[waitq[Group][1]].blocked
             /\ ~reader'[waitq[Group][1]].blocked /\ reader'[waitq[Group][1]].ret = "NO_ERROR"
    <2>1. CASE rp[r].buf # <<>>
      <3>1. wake_one(Group, "NO_ERROR") /\ Group \in Queues /\ "NO_ERROR" \in WaitResults /\ PortThreads
        BY <1>1, <2>1 DEF Queues, WaitResults, PortBase
      <3> QED BY <3>1, OneWoken
    <2>2. CASE rp[r].buf = <<>>
      BY <1>1, <2>2
    <2> QED BY <2>1, <2>2
  <1>10. ASSUME NEW q \in Queues \ {Group}, waitq'[q] # <<>>
         PROVE  waitq[q] # <<>> /\ Packets(q)' \subseteq Packets(q) /\ Coming(q) \subseteq Coming(q)'
    <2>1. q \in RPorts /\ Range(Sources(q)') = {q} /\ Range(Sources(q)) = {q}
      BY SourcesAre DEF Queues
    <2>2. Packets(q)' \subseteq Packets(q)
      BY <1>4, <2>1, PacketsWithin
    <2> QED BY <1>6, <1>9, <1>10, <2>2
  <1>11. ASSUME waitq'[Group] # <<>>
         PROVE  Cardinality(Packets(Group)') <= Cardinality(Coming(Group)')
    <2>0. waitq[Group] # <<>> /\ Group \in Queues
      BY <1>9, <1>11 DEF Queues
    <2>1. PICK A : A = {<<r, p>> : p \in Range(rp[r].buf)}
      OBVIOUS
    <2>2. Packets(Group)' \subseteq Packets(Group) \cup A
      <3>1. ASSUME NEW x \in Packets(Group)' PROVE x \in Packets(Group) \cup A
        <4>1. PICK s \in Range(Sources(Group)') : \E p \in Range(rp'[s].buf) : x = <<s, p>>
          BY PacketsAre
        <4>2. s \in Range(pg.rp_list) \cup {r} /\ s \in RPorts
          BY <1>5, SourcesAre, PortRecords DEF PortBase
        <4>3. PICK p \in Range(rp[s].buf) : x = <<s, p>>
          BY <1>4, <4>1, <4>2
        <4>4. CASE s \in Range(pg.rp_list)
          BY <4>3, <4>4, SourcesAre, PacketsAre
        <4>5. CASE s = r
          BY <2>1, <4>3, <4>5
        <4> QED BY <4>2, <4>4, <4>5
      <3> QED BY <3>1
    <2>3. CASE rp[r].buf = <<>>
      <3>1. A = {}
        BY <2>1, <2>3 DEF Range
      <3>2. IsFiniteSet(A) /\ Cardinality(A) <= Cardinality({})
        BY <3>1, FS_EmptySet
      <3> QED BY <1>6, <2>0, <2>2, <3>2, MoreAwake
    <2>4. CASE rp[r].buf # <<>>
      <3>1. PICK k : A = {<<r, k>>}
        <4>1. DOMAIN rp[r].buf = {1}
          <5>1. PICK b \in Seq(Nat) : b = rp[r].buf
            BY <1>3
          <5>2. DOMAIN b = 1 .. Len(b) /\ Len(b) \in Nat /\ Len(b) # 0
            BY <2>4, <5>1
          <5>3. Len(b) = 1
            <6>1. ~(Len(b) > 1)
              BY <1>7, <5>1
            <6> QED BY <5>2, <6>1
          <5>4. 1 .. 1 = {1}
            OBVIOUS
          <5> QED BY <5>1, <5>2, <5>3, <5>4
        <4>2. Range(rp[r].buf) = {rp[r].buf[1]}
          BY <4>1 DEF Range
        <4>3. PICK k : k = rp[r].buf[1]
          OBVIOUS
        <4>4. A = {<<r, p>> : p \in {k}}
          BY <2>1, <4>2, <4>3
        <4>5. A = {<<r, k>>}
          BY <4>4
        <4> QED BY <4>5
      <3>2. PICK u : u = waitq[Group][1]
        OBVIOUS
      <3>3. IsFiniteSet(A) /\ Cardinality(A) = 1 /\ Cardinality({u}) = 1
        BY <3>1, FS_Singleton
      <3>4. Cardinality(A) <= Cardinality({u})
        BY <3>3
      <3>5. /\ u \in Readers /\ reader[u].at = Group /\ reader[u].blocked
            /\ ~reader'[u].blocked /\ reader'[u].ret = "NO_ERROR"
        BY <1>9, <2>0, <2>4, <3>2
      <3>6. reader'[u].at = Group
        BY <1>6, <3>5 DEF SomeWoken
      <3>7. \A t \in {u} : t \in Readers /\ reader[t].at = Group /\ reader[t].blocked
                           /\ reader'[t].at = Group /\ ~reader'[t].blocked /\ reader'[t].ret = "NO_ERROR"
        BY <3>5, <3>6
      <3> QED BY <1>6, <2>0, <2>2, <3>3, <3>4, <3>7, MoreAwake
    <2> QED BY <2>3, <2>4
  <1> QED BY <1>8, <1>10, <1>11, AwakeStep

(* The buffers of the ports that have room get the packet, the others stay. *)
LEMMA OneWritten ==
  ASSUME PortBase, NEW w \in WPorts, 1 \in Counts, port_write(w, 1), wp[w].buf = NULL
  PROVE  \A r \in RPorts :
           /\ r \notin TakerPorts(w, 1) => rp'[r] = rp[r]
           /\ r \in TakerPorts(w, 1) => Range(rp'[r].buf) \subseteq Range(rp[r].buf) \cup {written[w] + 1}
  <1> TAKE r \in RPorts
  <1>0. /\ r \notin TakerPorts(w, 1) => rp'[r] = rp[r]
        /\ r \in TakerPorts(w, 1) => rp'[r].buf = rp[r].buf \o NewPackets(w, 1)
    <2>1. PICK c \in Counts : c = 1
      OBVIOUS
    <2>2. port_write(w, c)
      BY <2>1
    <2>3. /\ r \notin TakerPorts(w, c) => rp'[r] = rp[r]
          /\ r \in TakerPorts(w, c) => rp'[r].buf = rp[r].buf \o NewPackets(w, c)
      BY <2>2, WriteTakes
    <2> QED BY <2>1, <2>3
  <1>1. r \notin TakerPorts(w, 1) => rp'[r] = rp[r]
    BY <1>0
  <1>2. ASSUME r \in TakerPorts(w, 1)
        PROVE  Range(rp'[r].buf) \subseteq Range(rp[r].buf) \cup {written[w] + 1}
    <2>1. PICK b \in Seq(Nat) : b = rp[r].buf
      BY <1>2, TakersRead
    <2>2. written[w] + 1 \in Nat
      BY DEF PortBase, PortTypeOK
    <2>3. PICK k \in Nat : k = written[w] + 1
      BY <2>2
    <2>4. NewPackets(w, 1) = <<k>>
      <3>1. 1 .. 1 = {1}
        OBVIOUS
      <3>2. <<k>> = [i \in {1} |-> k]
        OBVIOUS
      <3>3. NewPackets(w, 1) = [i \in {1} |-> written[w] + i]
        BY <3>1 DEF NewPackets
      <3>4. [i \in {1} |-> written[w] + i] = [i \in {1} |-> k]
        BY <2>3
      <3> QED BY <3>2, <3>3, <3>4
    <2>5. rp'[r].buf = b \o <<k>>
      BY <1>0, <1>2, <2>1, <2>4
    <2>6. b \o <<k>> = Append(b, k)
      OBVIOUS
    <2>7. Range(Append(b, k)) = Range(b) \cup {k}
      BY ListAppended
    <2> QED BY <2>1, <2>3, <2>5, <2>6, <2>7
  <1> QED BY <1>1, <1>2

(* A thread waits on its own port, which is then not in the group, and one *)
(* of them is woken for the packet.                                        *)
LEMMA WriteWakesOwn ==
  ASSUME PortBase, PortsFresh, Awake, NEW w \in WPorts, 1 \in Counts, port_write(w, 1), wp[w].buf = NULL,
         NEW q \in RPorts, waitq'[q] # <<>>
  PROVE  \/ waitq[q] # <<>> /\ Packets(q)' \subseteq Packets(q) /\ Coming(q) \subseteq Coming(q)'
         \/ Cardinality(Packets(q)') <= Cardinality(Coming(q)')
  <1>1. PICK n : n = WokenBy(w, 1)
    OBVIOUS
  <1>2. /\ WakeFirst(n, "NO_ERROR") /\ \A p \in Queues : n[p] \in 0 .. Len(waitq[p])
        /\ "NO_ERROR" \in WaitResults /\ PortThreads /\ PortThreads' /\ SomeWoken("NO_ERROR")
    BY <1>1, WriteBuffers, WriteWakes DEF PortBase, WaitResults
  <1>3. q \in Queues /\ q # Group
    BY PortConstants
  <1>4. waitq[q] # <<>>
    <2>1. Range(waitq'[q]) \subseteq Range(waitq[q])
      BY <1>2, <1>3, ThreadsWoken
    <2>2. waitq[q] \in Seq(Readers) /\ waitq'[q] \in Seq(Readers)
      BY <1>2, <1>3 DEF PortThreads
    <2> QED BY <2>1, <2>2, EmptyQueue
  <1>5. Coming(q) \subseteq Coming(q)'
    BY <1>2, WokenComing
  <1>6. Range(Sources(q)) = {q} /\ Range(Sources(q)') = {q}
    BY <1>3, SourcesAre
  <1>7. waitq[q] \in Seq(Readers) /\ Len(waitq[q]) >= 1 /\ Len(waitq[q]) \in Nat
    BY <1>2, <1>3, <1>4 DEF PortThreads
  <1>8. PICK u : u = waitq[q][1]
    OBVIOUS
  <1>9. u \in Readers /\ u \in Range(waitq[q])
    BY <1>7, <1>8 DEF Range
  <1>10. reader[u].at = q /\ reader[u].blocked
    BY <1>2, <1>3, <1>9 DEF PortThreads, ThreadsQueued
  <1>11. ~rp[q].gport
    BY <1>9, <1>10 DEF Awake, GroupAlone, Using
  <1>12. CASE q \notin TakerPorts(w, 1)
    <2>1. rp'[q] = rp[q]
      BY <1>12, OneWritten
    <2>2. Packets(q)' \subseteq Packets(q)
      BY <1>6, <2>1, PacketsWithin
    <2> QED BY <1>4, <1>5, <2>2
  <1>13. CASE q \in TakerPorts(w, 1)
    <2>1. n[q] = 1
      <3>1. PICK i \in Takers(w, 1) : wp[w].readers[i] = q
        BY <1>13 DEF TakerPorts
      <3>2. ~WakesGroup(w, 1, i)
        BY <1>11, <3>1 DEF WakesGroup
      <3>3. n[q] = AtMost(1, q)
        BY <1>1, <1>3, <3>1, <3>2 DEF WokenBy
      <3> QED BY <1>7, <3>3 DEF AtMost
    <2>2. \E i \in 1 .. n[q] : waitq[q][i] = u
      BY <1>8, <2>1
    <2>3. ~reader'[u].blocked /\ reader'[u].ret = "NO_ERROR" /\ reader'[u].at = q
      BY <1>2, <1>3, <1>9, <1>10, <2>2, ThreadsWoken
    <2>4. PICK k : k = written[w] + 1
      OBVIOUS
    <2>5. Packets(q)' \subseteq Packets(q) \cup {<<q, k>>}
      <3>1. Range(rp'[q].buf) \subseteq Range(rp[q].buf) \cup {k}
        BY <1>13, <2>4, OneWritten
      <3>2. ASSUME NEW x \in Packets(q)' PROVE x \in Packets(q) \cup {<<q, k>>}
        <4>1. PICK p \in Range(rp'[q].buf) : x = <<q, p>>
          BY <1>6, PacketsAre
        <4>2. CASE p \in Range(rp[q].buf)
          BY <1>6, <4>1, <4>2, PacketsAre
        <4>3. CASE p = k
          BY <4>1, <4>3
        <4> QED BY <3>1, <4>2, <4>3
      <3> QED BY <3>2
    <2>6. PICK A : A = {<<q, k>>}
      OBVIOUS
    <2>7. IsFiniteSet(A) /\ Cardinality(A) = 1 /\ Cardinality({u}) = 1
      BY <2>6, FS_Singleton
    <2>8. Cardinality(A) <= Cardinality({u})
      BY <2>7
    <2>9. \A t \in {u} : t \in Readers /\ reader[t].at = q /\ reader[t].blocked
                         /\ reader'[t].at = q /\ ~reader'[t].blocked /\ reader'[t].ret = "NO_ERROR"
      BY <1>9, <1>10, <2>3
    <2>10. Cardinality(Packets(q)') <= Cardinality(Coming(q)')
      BY <1>3, <1>4, <1>5, <2>5, <2>6, <2>7, <2>8, <2>9, MoreAwake
    <2> QED BY <2>10
  <1> QED BY <1>12, <1>13

(* Every port of the group that gets the packet wakes a thread of the      *)
(* group, as long as there is one.                                         *)
LEMMA WriteWakesGroup ==
  ASSUME PortBase, PortsFresh, Awake, NEW w \in WPorts, 1 \in Counts, port_write(w, 1), wp[w].buf = NULL,
         waitq'[Group] # <<>>
  PROVE  Cardinality(Packets(Group)') <= Cardinality(Coming(Group)')
  <1>1. PICK n : n = WokenBy(w, 1)
    OBVIOUS
  <1>2. /\ WakeFirst(n, "NO_ERROR") /\ \A p \in Queues : n[p] \in 0 .. Len(waitq[p])
        /\ "NO_ERROR" \in WaitResults /\ PortThreads /\ PortThreads' /\ SomeWoken("NO_ERROR")
    BY <1>1, WriteBuffers, WriteWakes DEF PortBase, WaitResults
  <1>3. Group \in Queues /\ pg' = pg
    BY WriteBuffers DEF Queues
  <1>4. PICK s : s = waitq[Group]
    OBVIOUS
  <1>5. /\ s \in Seq(Readers) /\ Once(s) /\ Len(s) \in Nat
        /\ waitq'[Group] \in Seq(Readers)
    BY <1>2, <1>3, <1>4 DEF PortThreads, ThreadsQueued
  <1>6. PICK G : G = Grouped(w, 1, Len(wp[w].readers))
    OBVIOUS
  <1>7. IsFiniteSet(G) /\ Cardinality(G) \in Nat
    BY <1>6, GroupedFinite DEF PortBase
  <1>8. PICK m \in Nat : m = Cardinality(G)
    BY <1>7
  <1>9. n[Group] = m /\ m \in 0 .. Len(s) /\ s # <<>>
    <2>1. n[Group] = AtMost(m, Group)
      BY <1>1, <1>3, <1>6, <1>8 DEF WokenBy
    <2>2. Len(waitq'[Group]) = Len(s) - n[Group]
      BY <1>2, <1>3, <1>4, ThreadsWoken
    <2>3. Len(waitq'[Group]) \in Nat /\ Len(waitq'[Group]) # 0
      BY <1>5
    <2>4. n[Group] = IF m <= Len(s) THEN m ELSE Len(s)
      BY <1>4, <2>1 DEF AtMost
    <2>5. n[Group] = m /\ m \in 0 .. Len(s) /\ Len(s) # 0
      <3>1. PICK l \in Nat : l = Len(s)
        BY <1>5
      <3>2. PICK r \in Nat : r = Len(waitq'[Group]) /\ r # 0
        BY <2>3
      <3>3. r = l - (IF m <= l THEN m ELSE l)
        BY <2>2, <2>4, <3>1, <3>2
      <3>4. m <= l /\ l # 0
        BY <3>2, <3>3
      <3> QED BY <2>4, <3>1, <3>4
    <2> QED BY <1>5, <2>5
  <1>10. PICK B : B = {s[i] : i \in 1 .. m}
    OBVIOUS
  <1>11. Cardinality(B) = m
    BY <1>5, <1>9, <1>10, FirstOnes
  <1>12. ASSUME NEW t \in B
         PROVE  t \in Readers /\ reader[t].at = Group /\ reader[t].blocked
                /\ reader'[t].at = Group /\ ~reader'[t].blocked /\ reader'[t].ret = "NO_ERROR"
    <2>1. PICK i \in 1 .. m : t = s[i]
      BY <1>10
    <2>2. i \in DOMAIN s
      BY <1>5, <1>9
    <2>3. t \in Readers /\ t \in Range(s)
      BY <1>5, <2>1, <2>2 DEF Range
    <2>4. \E j \in 1 .. n[Group] : waitq[Group][j] = t
      BY <1>4, <1>9, <2>1
    <2> QED BY <1>2, <1>3, <2>3, <2>4, ThreadsWoken
  <1>13. PICK k : k = written[w] + 1
    OBVIOUS
  <1>14. PICK f : f = [j \in G |-> <<wp[w].readers[j], k>>]
    OBVIOUS
  <1>15. PICK A : A = {f[j] : j \in G}
    OBVIOUS
  <1>16. IsFiniteSet(A) /\ Cardinality(A) <= m
    <2>1. f \in [G -> A]
      BY <1>14, <1>15
    <2>2. IsFiniteSet({f[j] : j \in G}) /\ Cardinality({f[j] : j \in G}) <= Cardinality(G)
      BY <1>7, <2>1, ImageFinite
    <2> QED BY <1>8, <1>15, <2>2
  <1>17. Packets(Group)' \subseteq Packets(Group) \cup A
    <2>1. ASSUME NEW x \in Packets(Group)' PROVE x \in Packets(Group) \cup A
      <3>1. PICK r \in Range(Sources(Group)') : \E p \in Range(rp'[r].buf) : x = <<r, p>>
        BY PacketsAre
      <3>2. PICK p \in Range(rp'[r].buf) : x = <<r, p>>
        BY <3>1
      <3>3. r \in Range(Sources(Group)) /\ r \in Range(pg.rp_list)
        BY <1>3, SourcesAre
      <3>4. r \in RPorts /\ rp[r].gport
        BY <3>3, PortRecords DEF PortBase, GroupMembers
      <3>5. CASE p \in Range(rp[r].buf)
        BY <3>2, <3>3, <3>5, PacketsAre
      <3>6. CASE p \notin Range(rp[r].buf)
        <4>1. r \in TakerPorts(w, 1) /\ p = k
          BY <1>13, <3>4, <3>6, OneWritten
        <4>2. PICK j \in Takers(w, 1) : wp[w].readers[j] = r
          BY <4>1 DEF TakerPorts
        <4>3. j <= Len(wp[w].readers)
          <5>1. PICK rs \in Seq(RPorts) : rs = wp[w].readers
            BY PortRecords DEF PortBase
          <5>2. j \in DOMAIN rs
            BY <5>1 DEF Takers
          <5>3. j <= Len(rs)
            BY <5>2
          <5> QED BY <5>1, <5>3
        <4>4. j \in G
          BY <1>6, <3>4, <4>2, <4>3 DEF Grouped
        <4>5. f[j] = <<r, k>>
          BY <1>14, <4>2, <4>4
        <4> QED BY <1>15, <3>2, <4>1, <4>4, <4>5
      <3> QED BY <3>5, <3>6
    <2> QED BY <2>1
  <1>18. waitq[Group] # <<>> /\ Cardinality(A) <= Cardinality(B) /\ Coming(Group) \subseteq Coming(Group)'
    BY <1>2, <1>4, <1>9, <1>11, <1>16, WokenComing
  <1> QED BY <1>3, <1>12, <1>16, <1>17, <1>18, MoreAwake

LEMMA WriteAwake ==
  ASSUME PortBase, PortsFresh, Awake, NEW w \in WPorts, NEW count \in Counts, port_write(w, count),
         "unwoken" \notin misuse'
  PROVE  Awake'
  <1>1. /\ pg' = pg /\ closing' = closing /\ count \in Nat /\ count > 0
        /\ \A r \in RPorts : rp'[r].gport = rp[r].gport
    BY WriteBuffers
  <1>2. CASE wp[w].buf # NULL
    <2>1. rp' = rp /\ waitq' = waitq /\ reader' = reader
      BY <1>2, WriteBuffers
    <2> QED BY <1>1, <2>1, AwakeFrame
  <1>3. CASE wp[w].buf = NULL
    <2>1. misuse' = misuse \cup (IF count > 1 THEN {"unwoken"} ELSE {})
      BY <1>3, WriteBuffers
    <2>2. count = 1
      BY <1>1, <2>1
    <2>3. \A q : Using(q)' = Using(q)
      BY WriteKeepsBase, WokenComing
    <2>4. GroupAlone'
      BY <1>1, <2>3 DEF Awake, GroupAlone
    <2>5. 1 \in Counts /\ port_write(w, 1)
      BY <2>2
    <2>6. ASSUME NEW q \in Queues, waitq'[q] # <<>>
          PROVE  \/ waitq[q] # <<>> /\ Packets(q)' \subseteq Packets(q) /\ Coming(q) \subseteq Coming(q)'
                 \/ Cardinality(Packets(q)') <= Cardinality(Coming(q)')
      <3>1. CASE q \in RPorts
        BY <1>3, <2>5, <2>6, <3>1, WriteWakesOwn
      <3>2. CASE q = Group
        BY <1>3, <2>5, <2>6, <3>2, WriteWakesGroup
      <3> QED BY <3>1, <3>2 DEF Queues
    <2> QED BY <2>4, <2>6, AwakeStep
  <1> QED BY <1>2, <1>3
-----------------------------------------------------------------------------
(* The order in the buffers, also of ports whose write port is gone. *)

LEMMA OrderedKept ==
  ASSUME PortsOrdered, PacketsKept',
         \A r \in RPorts : BeingRead(r)' /\ rp'[r].wport = NULL =>
           BeingRead(r) /\ (rp'[r].buf = rp[r].buf \/ Increasing(rp'[r].buf))
  PROVE  PortsOrdered'
  <1>1. ASSUME NEW r \in RPorts, BeingRead(r)' PROVE Increasing(rp'[r].buf)
    <2>1. CASE rp'[r].wport = NULL
      BY <1>1, <2>1 DEF PortsOrdered
    <2>2. CASE rp'[r].wport # NULL
      <3>1. Continues(rp[r].buf, rp[r].wport, seen[r])'
        BY <1>1, <2>2 DEF PacketsKept
      <3> QED BY <3>1 DEF Continues, HoldsAllAfter, Increasing
    <2> QED BY <2>1, <2>2
  <1> QED BY <1>1 DEF PortsOrdered, Increasing

LEMMA PassOrdered ==
  ASSUME PortBase, PortsOrdered, PacketsKept', NEW t \in Readers, NEW q \in Queues, MakesPass(t, q)
  PROVE  PortsOrdered'
  <1>1. closing' = closing /\ Pass(t, q)
    BY DEF MakesPass
  <1>2. CASE rp' = rp
    BY <1>1, <1>2, OrderedKept DEF BeingRead
  <1>3. CASE (q = Group \/ rp[q].buf # NULL) /\ TakePacket(t, q)
    <2>1. PICK r : r = TakenFrom(q)
      OBVIOUS
    <2>2. /\ rp' = [rp EXCEPT ![r].buf = Tail(@)] /\ seen' = [seen EXCEPT ![r] = Head(rp[r].buf)]
          /\ Ready(q) # {}
      BY <1>3, <2>1 DEF TakePacket, TakenFrom
    <2>3. r \in RPorts /\ rp[r].buf \in Seq(Nat) /\ rp[r].buf # <<>>
      BY <1>3, <2>1, <2>2, TakesFrom
    <2>4. /\ rp'[r].buf = Tail(rp[r].buf)
          /\ \A p \in RPorts : rp'[p].magic = rp[p].magic /\ (p # r => rp'[p] = rp[p])
      BY <2>2, <2>3, PacketTaken
    <2>5. BeingRead(r) => Increasing(rp'[r].buf)
      BY <2>3, <2>4, HeadTaken DEF PortsOrdered
    <2>6. \A p \in RPorts : BeingRead(p)' => BeingRead(p) /\ (rp'[p].buf = rp[p].buf \/ Increasing(rp'[p].buf))
      BY <1>1, <2>4, <2>5 DEF BeingRead
    <2> QED BY <2>6, OrderedKept
  <1>4. rp' = rp \/ ((q = Group \/ rp[q].buf # NULL) /\ TakePacket(t, q))
    BY <1>1 DEF Pass, Block
  <1> QED BY <1>2, <1>3, <1>4

LEMMA OrderedStep ==
  ASSUME PortBase, PortsOrdered, PacketsKept', PortNext
  PROVE  PortsOrdered'
  <1> DEFINE Same == \A r \in RPorts : BeingRead(r)' /\ rp'[r].wport = NULL =>
                       BeingRead(r) /\ (rp'[r].buf = rp[r].buf \/ Increasing(rp'[r].buf))
  <1>1. ASSUME rp' = rp, closing' = closing PROVE Same
    BY <1>1 DEF BeingRead
  <1>3. ASSUME close_group PROVE Same
    <2>1. rp' = rp /\ closing = NULL
      BY <1>3 DEF close_group, Admin
    <2> QED BY <2>1, PortConstants DEF BeingRead
  <1>4. ASSUME NEW w \in WPorts, NEW count \in Counts, port_write(w, count) PROVE Same
    <2>1. /\ closing' = closing
          /\ \A r \in RPorts : rp'[r].magic = rp[r].magic /\ rp'[r].wport = rp[r].wport
      BY <1>4, WriteBuffers
    <2>2. \A r \in RPorts \ TakerPorts(w, count) : rp'[r] = rp[r]
      BY <1>4, WriteTakes
    <2>3. \A r \in TakerPorts(w, count) : rp[r].wport # NULL
      BY TakersRead, PortConstants
    <2> QED BY <2>1, <2>2, <2>3 DEF BeingRead
  <1>5. ASSUME NEW w \in WPorts, port_destroy(w) PROVE Same
    <2>1. /\ closing' = closing
          /\ \A r \in RPorts : rp'[r].magic = rp[r].magic /\ rp'[r].buf = rp[r].buf
      BY <1>5, Destroys
    <2> QED BY <2>1 DEF BeingRead
  <1>6. ASSUME NEW r \in RPorts, NEW name \in Names, Open(r, name) PROVE Same
    <2>1. /\ closing' = closing /\ Named(name) # {} /\ port_open(r, FoundPort(name))
      BY <1>6 DEF Open, FoundPort
    <2>2. FoundPort(name) # NULL
      BY <2>1, OpenFinds, PortConstants DEF PortBase
    <2>3. rp'[r].wport = FoundPort(name) /\ \A q \in RPorts \ {r} : rp'[q] = rp[q]
      BY <2>1 DEF port_open, PortBase, PortTypeOK
    <2> QED BY <2>1, <2>2, <2>3 DEF BeingRead
  <1>7. ASSUME NEW r \in RPorts, port_group_add(r) \/ port_group_remove(r) PROVE Same
    <2>1. closing' = closing /\ (rp' = rp \/ rp' = [rp EXCEPT ![r].gport = TRUE])
      BY <1>7 DEF port_group_add, port_group_remove
    <2>2. \A q \in RPorts : rp'[q].magic = rp[q].magic /\ rp'[q].buf = rp[q].buf
      <3>1. rp \in [RPorts -> ReadRecord] /\ rp[r] \in ReadRecord
        BY DEF PortBase, PortTypeOK
      <3> QED BY <2>1, <3>1 DEF ReadRecord
    <2> QED BY <2>1, <2>2 DEF BeingRead
  <1>8. ASSUME NEW s \in PortLists, port_group(s) PROVE Same
    <2>1. /\ closing' = closing
          /\ rp' = [r \in RPorts |-> IF r \in Range(s) THEN [rp[r] EXCEPT !.gport = TRUE] ELSE rp[r]]
      BY <1>8 DEF port_group
    <2>2. ASSUME NEW q \in RPorts PROVE rp'[q].magic = rp[q].magic /\ rp'[q].buf = rp[q].buf
      <3>1. rp[q] \in ReadRecord
        BY PortRecords DEF PortBase
      <3> QED BY <2>1, <3>1 DEF ReadRecord
    <2> QED BY <2>1, <2>2 DEF BeingRead
  <1>9. ASSUME NEW r \in RPorts, port_close(r) PROVE Same
    <2>1. /\ closing = NULL /\ closing' = r
          /\ \A q \in RPorts : q # r => rp'[q] = rp[q]
      BY <1>9, CloseBuffers
    <2> QED BY <2>1, PortConstants DEF BeingRead
  <1>10. ASSUME port_close_ends PROVE Same
    <2>1. \A q \in RPorts : /\ BeingRead(q) <=> rp'[q].magic = "R"
                            /\ q # closing => rp'[q].buf = rp[q].buf
      BY <1>10, CloseEnds
    <2> QED BY <2>1 DEF BeingRead
  <1>11. ASSUME Same PROVE PortsOrdered'
    BY <1>11, OrderedKept
  <1> HIDE DEF Same
  <1>12. ASSUME NEW t \in Readers, NEW q \in Queues, port_read(t, q) PROVE PortsOrdered'
    BY <1>12, ReadKeepsBase, PassOrdered
  <1>13. ASSUME NEW t \in Readers, port_read_returns(t) PROVE PortsOrdered'
    <2>1. PICK q : q = reader[t].at
      OBVIOUS
    <2>2. /\ rp' = rp \/ Pass(t, q)
          /\ write_port_list' = write_port_list /\ wp' = wp /\ pg' = pg /\ closing' = closing
          /\ written' = written /\ refused' = refused /\ misuse' = misuse
      BY <1>13, <2>1 DEF port_read_returns
    <2>3. q # NULL
      BY <1>13, <2>1 DEF port_read_returns
    <2>4. q \in Queues
      <3>1. reader[t] \in ReaderThread
        BY DEF PortBase, PortThreads
      <3> QED BY <2>1, <2>3, <3>1 DEF ReaderThread
    <2>5. CASE rp' = rp
      BY <1>1, <1>11, <2>2, <2>5
    <2>6. CASE Pass(t, q)
      <3>1. MakesPass(t, q)
        BY <2>2, <2>6 DEF MakesPass
      <3> QED BY <2>4, <3>1, PassOrdered
    <2> QED BY <2>2, <2>5, <2>6
  <1>14. ASSUME NEW w \in WPorts, NEW name \in Names, NEW unicast \in BOOLEAN, port_create(w, name, unicast)
         PROVE  Same
    <2>1. rp' = rp /\ closing' = closing
      BY <1>14 DEF port_create
    <2> QED BY <1>1, <2>1
  <1>15. ASSUME NEW w \in WPorts, port_create_inserts(w) \/ close_write(w) PROVE Same
    <2>1. rp' = rp /\ closing' = closing
      BY <1>15 DEF port_create_inserts, close_write
    <2> QED BY <1>1, <2>1
  <1>16. ASSUME NEW t \in Readers, read_timeout(t) PROVE Same
    <2>1. rp' = rp /\ closing' = closing
      BY <1>16 DEF read_timeout
    <2> QED BY <1>1, <2>1
  <1> QED BY <1>3, <1>4, <1>5, <1>6, <1>7, <1>8, <1>9, <1>10, <1>11, <1>12, <1>13, <1>14, <1>15, <1>16
             DEF PortNext, Queues
-----------------------------------------------------------------------------
(* Nobody sleeps beside a packet. *)

LEMMA AwakePreserved ==
  ASSUME PortBase, PortsFresh, PortsOrdered, Awake, PortNext, misuse' \cap {"unwoken", "stale"} = {}
  PROVE  Awake'
  <1>0. "unwoken" \notin misuse' /\ "stale" \notin misuse'
    OBVIOUS
  <1>1. ASSUME NEW w \in WPorts, NEW name \in Names, NEW unicast \in BOOLEAN, port_create(w, name, unicast)
        PROVE  Awake'
    <2>1. rp' = rp /\ pg' = pg /\ waitq' = waitq /\ reader' = reader /\ closing' = closing
      BY <1>1 DEF port_create
    <2> QED BY <2>1, AwakeFrame
  <1>2. ASSUME NEW w \in WPorts, port_create_inserts(w) \/ close_write(w) PROVE Awake'
    <2>1. rp' = rp /\ pg' = pg /\ waitq' = waitq /\ reader' = reader /\ closing' = closing
      BY <1>2 DEF port_create_inserts, close_write
    <2> QED BY <2>1, AwakeFrame
  <1>3. ASSUME NEW r \in RPorts, port_group_remove(r) PROVE FALSE
    BY <1>0, <1>3 DEF port_group_remove
  <1> QED BY <1>0, <1>1, <1>2, <1>3, OpenAwake, WriteAwake, DestroyAwake, GroupAddAwake, CloseAwake, GroupAwake,
             CloseGroupAwake, CloseEndsAwake, ReadAwake, ReturnsAwake, TimeoutAwake
             DEF PortNext, Queues

PortsAwake == PortsSound /\ PortsOrdered /\ NothingUnwoken

LEMMA AwakeStart == PortInit => PortsOrdered /\ NothingUnwoken
  <1> SUFFICES ASSUME PortInit PROVE PortsOrdered /\ NothingUnwoken
    OBVIOUS
  <1>1. \A r \in RPorts : rp[r].magic = "none" /\ rp[r].gport = FALSE
    BY DEF PortInit
  <1>2. \A q \in Queues : waitq[q] = <<>>
    BY DEF PortInit, Queues
  <1> QED BY <1>1, <1>2 DEF PortsOrdered, BeingRead, NothingUnwoken, Awake, GroupAlone, Covered

LEMMA AwakeInductive ==
  ASSUME PortsAwake, PortsSound', [PortNext]_portvars
  PROVE  PortsOrdered' /\ NothingUnwoken'
  <1>1. CASE PortNext
    <2>1. PortsOrdered'
      BY <1>1, OrderedStep DEF PortsAwake, PortsSound
    <2>2. ASSUME misuse' \cap {"unwoken", "stale"} = {} PROVE Awake'
      <3>1. misuse \cap {"unwoken", "stale"} = {} /\ "stale" \notin misuse
        <4>1. misuse \subseteq misuse'
          BY <1>1, MisuseKept DEF PortsAwake, PortsSound
        <4> QED BY <2>2, <4>1
      <3>2. PortsFresh /\ Awake
        BY <3>1 DEF PortsAwake, PortsSound, NothingStale, NothingUnwoken
      <3> QED BY <1>1, <2>2, <3>2, AwakePreserved DEF PortsAwake, PortsSound
    <2> QED BY <2>1, <2>2 DEF NothingUnwoken
  <1>2. CASE UNCHANGED portvars
    <2>1. /\ rp' = rp /\ pg' = pg /\ waitq' = waitq /\ reader' = reader /\ closing' = closing
          /\ misuse' = misuse
      BY <1>2 DEF portvars, portstate
    <2>2. PortsOrdered'
      BY <2>1 DEF PortsAwake, PortsOrdered, BeingRead
    <2>3. ASSUME misuse \cap {"unwoken", "stale"} = {} PROVE Awake'
      <3>1. PortsFresh /\ Awake /\ PortBase
        BY <2>3 DEF PortsAwake, PortsSound, NothingStale, NothingUnwoken
      <3> QED BY <2>1, <3>1, AwakeFrame
    <2> QED BY <2>1, <2>2, <2>3 DEF NothingUnwoken
  <1> QED BY <1>1, <1>2

(* port_write, port_read, port_group_add: no reader sleeps beside a        *)
(* packet.  While threads wait on a port or on the group, a woken thread   *)
(* comes for every packet there, unless one wake-up was made to stand for  *)
(* several packets, a port is read both ways, or it was taken away from    *)
(* under its readers.                                                      *)
THEOREM NobodyAsleep == PortSpec => []NoReaderAsleep
  <1>1. PortInit => PortsAwake
    BY PortsStart, AwakeStart DEF PortsAwake
  <1>2. PortsAwake /\ [PortNext]_portvars => PortsAwake'
    BY PortsStep, AwakeInductive DEF PortsAwake
  <1>3. PortsAwake => NoReaderAsleep
    <2>1. SUFFICES ASSUME PortsAwake, misuse \cap {"unwoken", "stale"} = {},
                          NEW q \in (RPorts \cup {Group}) \ {closing}, waitq[q] # <<>>
                   PROVE  Cardinality(Packets(q)) <=
                            Cardinality({t \in Using(q) : ~reader[t].blocked /\ reader[t].ret = "NO_ERROR"})
      BY DEF NoReaderAsleep
    <2>2. Covered(q)
      BY <2>1 DEF PortsAwake, NothingUnwoken, Awake, Queues
    <2> QED BY <2>1, <2>2 DEF Covered, Coming
  <1> QED BY <1>1, <1>2, <1>3, PTL DEF PortSpec
=============================================================================
