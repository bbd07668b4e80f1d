----------------------------- MODULE SchedProofs -----------------------------
(***************************************************************************)
(* Proofs about the scheduler of kernel/thread.c, for any threads, wait    *)
(* queues, priorities and quantum: states, run queues, bitmap, wait        *)
(* queues, the running thread and the timers agree in every reachable      *)
(* state, and every context switch is to the highest READY priority.       *)
(* And about kernel/mutex.c on it: the mutex on the real scheduler does    *)
(* only what module Mutex allows.                                          *)
(***************************************************************************)
EXTENDS MutexOnSched, FiniteSetTheorems, WellFoundedInduction, TLAPS

(* The list s holds the threads of S and no other, each once. *)
Lists(s, S) ==
  /\ \A t \in Threads : t \in S <=> \E i \in DOMAIN s : s[i] = t
  /\ \A i, j \in DOMAIN s : s[i] = s[j] => i = j

(* Counting occurrences says the same. *)
LEMMA OccurrencesList ==
  ASSUME NEW s \in Seq(Threads), NEW S
  PROVE  Lists(s, S) <=> \A t \in Threads : Occurrences(s, t) = IF t \in S THEN 1 ELSE 0
  <1> DEFINE At(t) == {i \in DOMAIN s : s[i] = t}
  <1>1. DOMAIN s = 1 .. Len(s) /\ Len(s) \in Nat /\ \A i \in DOMAIN s : s[i] \in Threads
    OBVIOUS
  <1>2. \A t : /\ Occurrences(s, t) = 0 <=> At(t) = {}
               /\ Occurrences(s, t) = 1 <=> \E i : At(t) = {i}
    <2> SUFFICES ASSUME NEW t
                 PROVE  /\ Cardinality(At(t)) = 0 <=> At(t) = {}
                        /\ Cardinality(At(t)) = 1 <=> \E i : At(t) = {i}
      BY DEF Occurrences
    <2>1. IsFiniteSet(1 .. Len(s)) /\ At(t) \in SUBSET (1 .. Len(s))
      BY <1>1, FS_Interval
    <2>2. IsFiniteSet(At(t))
      BY <2>1, FS_Subset
    <2> HIDE DEF At
    <2> QED BY <2>2, FS_EmptySet, FS_Singleton
  <1>3. ASSUME Lists(s, S), NEW t \in Threads
        PROVE  Occurrences(s, t) = IF t \in S THEN 1 ELSE 0
    <2>1. CASE t \in S
      <3>1. PICK i \in DOMAIN s : s[i] = t
        BY <1>3, <2>1 DEF Lists
      <3>2. At(t) = {i}
        BY <1>3, <3>1 DEF Lists
      <3> QED BY <1>2, <2>1, <3>2
    <2>2. CASE t \notin S
      <3>1. At(t) = {}
        BY <1>3, <2>2 DEF Lists
      <3> QED BY <1>2, <2>2, <3>1
    <2> QED BY <2>1, <2>2
  <1>4. ASSUME \A t \in Threads : Occurrences(s, t) = IF t \in S THEN 1 ELSE 0
        PROVE  Lists(s, S)
    <2>1. \A t \in Threads : t \in S <=> \E i \in DOMAIN s : s[i] = t
      <3> SUFFICES ASSUME NEW t \in Threads PROVE t \in S <=> At(t) # {}
        OBVIOUS
      <3> QED BY <1>2, <1>4
    <2>2. ASSUME NEW i \in DOMAIN s, NEW j \in DOMAIN s, s[i] = s[j]
          PROVE  i = j
      <3>1. Occurrences(s, s[i]) = 1
        <4>1. s[i] \in Threads /\ i \in At(s[i])
          BY <1>1
        <4>2. Occurrences(s, s[i]) # 0
          BY <1>2, <4>1
        <4> QED BY <1>4, <4>1, <4>2
      <3>2. PICK k : At(s[i]) = {k}
        BY <1>2, <3>1
      <3>3. i \in At(s[i]) /\ j \in At(s[i])
        BY <2>2
      <3> QED BY <3>2, <3>3
    <2> QED BY <2>1, <2>2 DEF Lists
  <1> QED BY <1>3, <1>4

(* list_add_head and list_add_tail of a thread that is not in the list. *)
LEMMA ListsAdd ==
  ASSUME NEW s \in Seq(Threads), NEW S, Lists(s, S), NEW t \in Threads, t \notin S
  PROVE  /\ <<t>> \o s \in Seq(Threads) /\ Lists(<<t>> \o s, S \cup {t})
         /\ Append(s, t) \in Seq(Threads) /\ Lists(Append(s, t), S \cup {t})
         /\ <<t>> \o s # <<>> /\ Append(s, t) # <<>>
         /\ Len(Append(s, t)) = Len(s) + 1
  <1>0. /\ DOMAIN s = 1 .. Len(s) /\ Len(s) \in Nat
        /\ \A i \in 1 .. Len(s) : s[i] \in Threads /\ s[i] # t
    BY DEF Lists
  <1>1. /\ <<t>> \o s \in Seq(Threads) /\ Len(<<t>> \o s) = Len(s) + 1
        /\ \A i \in 1 .. Len(s) + 1 : (<<t>> \o s)[i] = IF i = 1 THEN t ELSE s[i - 1]
    BY <1>0
  <1>2. /\ Append(s, t) \in Seq(Threads) /\ Len(Append(s, t)) = Len(s) + 1
        /\ \A i \in 1 .. Len(s) + 1 : Append(s, t)[i] = IF i = Len(s) + 1 THEN t ELSE s[i]
    BY <1>0
  <1>3. ASSUME NEW r \in Seq(Threads), Len(r) = Len(s) + 1,
               NEW pos \in 1 .. Len(s) + 1, r[pos] = t,
               \A i \in 1 .. Len(s) + 1 : i < pos => r[i] = s[i],
               \A i \in 1 .. Len(s) + 1 : i > pos => r[i] = s[i - 1]
        PROVE  Lists(r, S \cup {t})
    <2>1. DOMAIN r = 1 .. Len(s) + 1
      BY <1>3
    <2>2. ASSUME NEW u \in Threads, u \in S PROVE \E i \in DOMAIN r : r[i] = u
      <3>1. PICK k \in 1 .. Len(s) : s[k] = u
        BY <1>0, <2>2 DEF Lists
      <3>2. CASE k < pos
        BY <1>0, <1>3, <2>1, <3>1, <3>2
      <3>3. CASE k >= pos
        <4>1. k + 1 \in 1 .. Len(s) + 1 /\ k + 1 > pos /\ r[k + 1] = s[(k + 1) - 1]
          BY <1>0, <1>3, <3>3
        <4>2. (k + 1) - 1 = k
          BY <3>1
        <4> QED BY <2>1, <3>1, <4>1, <4>2
      <3> QED BY <1>0, <3>1, <3>2, <3>3
    <2>3. ASSUME NEW i \in DOMAIN r PROVE r[i] \in S \cup {t}
      <3>1. CASE i = pos
        BY <1>3, <3>1
      <3>2. CASE i < pos
        BY <1>0, <1>3, <2>1, <3>2 DEF Lists
      <3>3. CASE i > pos
        <4>1. i - 1 \in 1 .. Len(s) /\ r[i] = s[i - 1]
          BY <1>0, <1>3, <2>1, <2>3, <3>3
        <4> QED BY <1>0, <4>1 DEF Lists
      <3> QED BY <1>0, <2>1, <3>1, <3>2, <3>3
    <2>4. ASSUME NEW i \in DOMAIN r, NEW j \in DOMAIN r, r[i] = r[j] PROVE i = j
      <3> DEFINE Old(k) == IF k < pos THEN k ELSE k - 1
      <3>1. \A k \in DOMAIN r : k # pos => Old(k) \in 1 .. Len(s) /\ r[k] = s[Old(k)]
        BY <1>0, <1>3, <2>1
      <3>2. \A k \in DOMAIN r : k # pos => r[k] # t
        BY <1>0, <3>1
      <3>3. CASE i = pos \/ j = pos
        BY <1>3, <2>4, <3>2, <3>3
      <3>4. CASE i # pos /\ j # pos
        <4>1. Old(i) = Old(j)
          BY <1>0, <2>4, <3>1, <3>4 DEF Lists
        <4> QED BY <1>0, <2>1, <2>4, <3>4, <4>1
      <3> QED BY <3>3, <3>4
    <2> QED BY <1>3, <2>1, <2>2, <2>3, <2>4 DEF Lists
  <1>4. Lists(<<t>> \o s, S \cup {t})
    <2> DEFINE r == <<t>> \o s
    <2>1. /\ r \in Seq(Threads) /\ Len(r) = Len(s) + 1 /\ 1 \in 1 .. Len(s) + 1 /\ r[1] = t
          /\ \A i \in 1 .. Len(s) + 1 : i < 1 => r[i] = s[i]
          /\ \A i \in 1 .. Len(s) + 1 : i > 1 => r[i] = s[i - 1]
      BY <1>0, <1>1
    <2> HIDE DEF r
    <2>2. Lists(r, S \cup {t})
      BY <2>1, <1>3
    <2> QED BY <2>2 DEF r
  <1>5. Lists(Append(s, t), S \cup {t})
    <2> DEFINE r == Append(s, t)
    <2>1. /\ r \in Seq(Threads) /\ Len(r) = Len(s) + 1
          /\ Len(s) + 1 \in 1 .. Len(s) + 1 /\ r[Len(s) + 1] = t
          /\ \A i \in 1 .. Len(s) + 1 : i < Len(s) + 1 => r[i] = s[i]
          /\ \A i \in 1 .. Len(s) + 1 : i > Len(s) + 1 => r[i] = s[i - 1]
      BY <1>0, <1>2
    <2> HIDE DEF r
    <2>2. Lists(r, S \cup {t})
      BY <2>1, <1>3
    <2> QED BY <2>2 DEF r
  <1>6. <<t>> \o s # <<>> /\ Append(s, t) # <<>>
    <2>1. Len(<<>>) = 0 /\ Len(<<t>> \o s) # 0 /\ Len(Append(s, t)) # 0
      BY <1>0, <1>1, <1>2
    <2> QED BY <2>1
  <1> QED BY <1>1, <1>2, <1>4, <1>5, <1>6

(* list_remove_head. *)
LEMMA ListsTail ==
  ASSUME NEW s \in Seq(Threads), NEW S, Lists(s, S), s # <<>>
  PROVE  /\ Head(s) \in Threads /\ Head(s) \in S
         /\ Tail(s) \in Seq(Threads) /\ Len(Tail(s)) = Len(s) - 1
         /\ Lists(Tail(s), S \ {Head(s)})
  <1>1. /\ DOMAIN s = 1 .. Len(s) /\ Len(s) \in Nat /\ Len(s) >= 1
        /\ Head(s) = s[1] /\ s[1] \in Threads
        /\ Tail(s) \in Seq(Threads) /\ Len(Tail(s)) = Len(s) - 1
        /\ DOMAIN Tail(s) = 1 .. Len(s) - 1
        /\ \A i \in 1 .. Len(s) - 1 : Tail(s)[i] = s[i + 1]
    OBVIOUS
  <1>2. s[1] \in S
    BY <1>1 DEF Lists
  <1>3. ASSUME NEW t \in Threads, t \in S \ {Head(s)} PROVE \E i \in DOMAIN Tail(s) : Tail(s)[i] = t
    <2>1. PICK k \in 1 .. Len(s) : s[k] = t
      BY <1>1, <1>3 DEF Lists
    <2>2. k - 1 \in 1 .. Len(s) - 1 /\ Tail(s)[k - 1] = s[(k - 1) + 1] /\ (k - 1) + 1 = k
      BY <1>1, <1>3, <2>1
    <2> QED BY <1>1, <2>1, <2>2
  <1>4. ASSUME NEW i \in DOMAIN Tail(s) PROVE Tail(s)[i] \in S /\ Tail(s)[i] # Head(s)
    <2>1. i + 1 \in 1 .. Len(s) /\ Tail(s)[i] = s[i + 1] /\ i + 1 # 1
      BY <1>1, <1>4
    <2> QED BY <1>1, <2>1 DEF Lists
  <1>5. ASSUME NEW i \in DOMAIN Tail(s), NEW j \in DOMAIN Tail(s), Tail(s)[i] = Tail(s)[j]
        PROVE  i = j
    <2>1. i + 1 \in 1 .. Len(s) /\ j + 1 \in 1 .. Len(s) /\ s[i + 1] = s[j + 1]
      BY <1>1, <1>5
    <2>2. i + 1 = j + 1
      BY <1>1, <2>1 DEF Lists
    <2> QED BY <1>1, <1>5, <2>2
  <1> QED BY <1>1, <1>2, <1>3, <1>4, <1>5 DEF Lists

(* list_delete of a thread in the list. *)
LEMMA ListsWithout ==
  ASSUME NEW s \in Seq(Threads), NEW S, Lists(s, S), NEW t \in Threads, t \in S
  PROVE  /\ Without(s, t) \in Seq(Threads)
         /\ Len(Without(s, t)) = Len(s) - 1
         /\ Len(s) >= 1
         /\ Lists(Without(s, t), S \ {t})
  <1> DEFINE pos == CHOOSE k \in DOMAIN s : s[k] = t
             r == Without(s, t)
             Old(k) == IF k < pos THEN k ELSE k + 1
  <1>0. DOMAIN s = 1 .. Len(s) /\ Len(s) \in Nat /\ \A i \in 1 .. Len(s) : s[i] \in Threads
    OBVIOUS
  <1>1. pos \in 1 .. Len(s) /\ s[pos] = t
    BY <1>0 DEF Lists
  <1>2. r = [j \in 1 .. Len(s) - 1 |-> IF j < pos THEN s[j] ELSE s[j + 1]]
    BY DEF Without
  <1> HIDE DEF pos, r
  <1>3. /\ DOMAIN r = 1 .. Len(s) - 1
        /\ \A k \in 1 .. Len(s) - 1 : Old(k) \in 1 .. Len(s) /\ Old(k) # pos /\ r[k] = s[Old(k)]
    BY <1>0, <1>1, <1>2
  <1>4. r \in Seq(Threads) /\ Len(r) = Len(s) - 1
    <2>1. \A k \in 1 .. Len(s) - 1 : r[k] \in Threads
      BY <1>0, <1>3
    <2>2. Len(s) - 1 \in Nat
      BY <1>0, <1>1
    <2> QED BY <1>2, <2>1, <2>2
  <1>5. ASSUME NEW u \in Threads, u \in S \ {t} PROVE \E i \in DOMAIN r : r[i] = u
    <2>1. PICK k \in 1 .. Len(s) : s[k] = u /\ k # pos
      BY <1>0, <1>1, <1>5 DEF Lists
    <2>2. CASE k < pos
      BY <1>0, <1>1, <1>2, <1>3, <2>1, <2>2
    <2>3. CASE k > pos
      <3>1. k - 1 \in 1 .. Len(s) - 1 /\ ~(k - 1 < pos) /\ (k - 1) + 1 = k
        BY <1>0, <1>1, <2>1, <2>3
      <3> QED BY <1>2, <1>3, <2>1, <3>1
    <2> QED BY <1>0, <1>1, <2>1, <2>2, <2>3
  <1>6. ASSUME NEW i \in DOMAIN r PROVE r[i] \in S /\ r[i] # t
    BY <1>0, <1>1, <1>3 DEF Lists
  <1>7. ASSUME NEW i \in DOMAIN r, NEW j \in DOMAIN r, r[i] = r[j] PROVE i = j
    <2>1. Old(i) = Old(j)
      BY <1>0, <1>3, <1>7 DEF Lists
    <2> QED BY <1>0, <1>1, <1>3, <1>7, <2>1
  <1>8. Lists(r, S \ {t})
    BY <1>5, <1>6, <1>7 DEF Lists
  <1> QED BY <1>0, <1>1, <1>4, <1>8 DEF r

(* Only an empty list holds nobody. *)
LEMMA ListsEmpty ==
  ASSUME NEW s \in Seq(Threads), NEW S \in SUBSET Threads, Lists(s, S)
  PROVE  s = <<>> <=> S = {}
  <1>1. Len(s) \in Nat /\ DOMAIN s = 1 .. Len(s) /\ (s # <<>> => 1 \in DOMAIN s)
        /\ (s = <<>> => DOMAIN s = {})
    OBVIOUS
  <1>2. s # <<>> => s[1] \in S
    BY <1>1 DEF Lists
  <1> QED BY <1>1, <1>2 DEF Lists
-----------------------------------------------------------------------------
(* The threads that are READY with priority p, in states st and priorities *)
(* pr.                                                                     *)
ReadyAt(st, pr, p) == {t \in Threads : st[t] = "READY" /\ pr[t] = p}

StateType == [Threads \cup {Idle} -> ThreadState]
PriorityType == [Threads -> Priorities \ {IDLE_PRIORITY}]

(* Run queues rq and bitmap bm say who is READY. *)
RunQueues(rq, bm, st, pr) ==
  /\ rq \in [Priorities -> Seq(Threads)]
  /\ bm \in SUBSET Priorities
  /\ \A p \in Priorities : Lists(rq[p], ReadyAt(st, pr, p))
  /\ \A p \in Priorities : p \in bm <=> rq[p] # <<>>

(* They go on saying so as long as nobody becomes or ceases to be READY. *)
LEMMA RunQueuesSame ==
  ASSUME NEW rq, NEW bm, NEW st, NEW st2, NEW pr, NEW pr2, RunQueues(rq, bm, st, pr),
         \A t \in Threads : st2[t] = "READY" <=> st[t] = "READY",
         \A t \in Threads : st[t] = "READY" => pr2[t] = pr[t]
  PROVE  RunQueues(rq, bm, st2, pr2)
  <1>1. \A p : ReadyAt(st2, pr2, p) = ReadyAt(st, pr, p)
    BY DEF ReadyAt
  <1> QED BY <1>1 DEF RunQueues

(* insert_in_run_queue_head and _tail with the bit of the bitmap: the      *)
(* thread was not READY and becomes so, with priority p.                   *)
LEMMA InsertReady ==
  ASSUME NEW rq, NEW bm, NEW st \in StateType, NEW pr \in PriorityType, RunQueues(rq, bm, st, pr),
         NEW t \in Threads, st[t] # "READY", NEW p \in Priorities \ {IDLE_PRIORITY}
  PROVE  /\ RunQueues(InsertHead(rq, t, p), bm \cup {p},
                      [st EXCEPT ![t] = "READY"], [pr EXCEPT ![t] = p])
         /\ RunQueues(InsertTail(rq, t, p), bm \cup {p},
                      [st EXCEPT ![t] = "READY"], [pr EXCEPT ![t] = p])
  <1> DEFINE st2 == [st EXCEPT ![t] = "READY"]
             pr2 == [pr EXCEPT ![t] = p]
  <1>1. p \in Priorities /\ rq \in [Priorities -> Seq(Threads)]
    BY DEF RunQueues
  <1>2. ReadyAt(st2, pr2, p) = ReadyAt(st, pr, p) \cup {t} /\ t \notin ReadyAt(st, pr, p)
    BY DEF ReadyAt, StateType, PriorityType
  <1>3. \A r \in Priorities : r # p => ReadyAt(st2, pr2, r) = ReadyAt(st, pr, r)
    BY DEF ReadyAt, StateType, PriorityType
  <1>4. rq[p] \in Seq(Threads) /\ Lists(rq[p], ReadyAt(st, pr, p))
    BY <1>1 DEF RunQueues
  <1>5. ASSUME NEW s \in Seq(Threads), s # <<>>, Lists(s, ReadyAt(st, pr, p) \cup {t}),
               NEW new, new = [rq EXCEPT ![p] = s]
        PROVE  RunQueues(new, bm \cup {p}, st2, pr2)
    <2>1. new \in [Priorities -> Seq(Threads)] /\ bm \cup {p} \in SUBSET Priorities
      BY <1>1, <1>5 DEF RunQueues
    <2>2. new[p] = s /\ \A r \in Priorities : r # p => new[r] = rq[r]
      BY <1>1, <1>5
    <2> HIDE DEF st2, pr2
    <2>3. ASSUME NEW r \in Priorities
          PROVE  Lists(new[r], ReadyAt(st2, pr2, r)) /\ (r \in bm \cup {p} <=> new[r] # <<>>)
      <3>1. CASE r = p
        BY <1>2, <1>5, <2>2, <3>1
      <3>2. CASE r # p
        BY <1>3, <2>2, <3>2 DEF RunQueues
      <3> QED BY <3>1, <3>2
    <2> QED BY <2>1, <2>3 DEF RunQueues
  <1>6. /\ <<t>> \o rq[p] \in Seq(Threads) /\ <<t>> \o rq[p] # <<>>
        /\ Lists(<<t>> \o rq[p], ReadyAt(st, pr, p) \cup {t})
        /\ Append(rq[p], t) \in Seq(Threads) /\ Append(rq[p], t) # <<>>
        /\ Lists(Append(rq[p], t), ReadyAt(st, pr, p) \cup {t})
    BY <1>2, <1>4, ListsAdd
  <1>7. /\ InsertHead(rq, t, p) = [rq EXCEPT ![p] = <<t>> \o rq[p]]
        /\ InsertTail(rq, t, p) = [rq EXCEPT ![p] = Append(rq[p], t)]
    BY DEF InsertHead, InsertTail
  <1> HIDE DEF st2, pr2
  <1>8. RunQueues(InsertHead(rq, t, p), bm \cup {p}, st2, pr2)
    BY <1>5, <1>6, <1>7
  <1>9. RunQueues(InsertTail(rq, t, p), bm \cup {p}, st2, pr2)
    BY <1>5, <1>6, <1>7
  <1> QED BY <1>8, <1>9 DEF st2, pr2

(* ... with the priority it has. *)
LEMMA InsertReadyAgain ==
  ASSUME NEW rq, NEW bm, NEW st \in StateType, NEW pr \in PriorityType, RunQueues(rq, bm, st, pr),
         NEW t \in Threads, st[t] # "READY"
  PROVE  /\ RunQueues(InsertHead(rq, t, pr[t]), bm \cup {pr[t]}, [st EXCEPT ![t] = "READY"], pr)
         /\ RunQueues(InsertTail(rq, t, pr[t]), bm \cup {pr[t]}, [st EXCEPT ![t] = "READY"], pr)
  <1>1. pr[t] \in Priorities \ {IDLE_PRIORITY} /\ [pr EXCEPT ![t] = pr[t]] = pr
    BY DEF PriorityType
  <1> DEFINE p == pr[t]
  <1>2. p \in Priorities \ {IDLE_PRIORITY} /\ [pr EXCEPT ![t] = p] = pr
    BY <1>1
  <1> HIDE DEF p
  <1>3. /\ RunQueues(InsertHead(rq, t, p), bm \cup {p}, [st EXCEPT ![t] = "READY"], pr)
        /\ RunQueues(InsertTail(rq, t, p), bm \cup {p}, [st EXCEPT ![t] = "READY"], pr)
    BY <1>2, InsertReady
  <1> QED BY <1>3 DEF p

(* A set of priorities that is not empty has a highest one. *)
LEMMA HighestExists ==
  ASSUME NEW P \in SUBSET Priorities, P # {}
  PROVE  \E p \in P : \A r \in P : r <= p
  <1> DEFINE Above(p) == {r \in P : p < r}
             T == {Above(p) : p \in P}
             Order == StrictSubsetOrdering(Priorities)
  <1>1. IsFiniteSet(Priorities) /\ Priorities \subseteq Int
    BY SchedAssumption, FS_Interval DEF Priorities, IDLE_PRIORITY
  <1>2. T \subseteq FiniteSubsetsOf(Priorities) /\ T # {}
    <2>1. \A U \in SUBSET Priorities : IsFiniteSet(U)
      BY <1>1, FS_Subset
    <2>2. \A p \in P : Above(p) \in SUBSET Priorities
      OBVIOUS
    <2> HIDE DEF Above
    <2>3. \A p \in P : Above(p) \in FiniteSubsetsOf(Priorities)
      BY <2>1, <2>2 DEF FiniteSubsetsOf
    <2> QED BY <2>3
  <1>3. IsWellFoundedOn(Order, FiniteSubsetsOf(Priorities))
    BY FS_StrictSubsetOrderingWellFounded
  <1> HIDE DEF T, Order
  <1>4. PICK U \in T : \A V \in T : <<V, U>> \notin Order
    BY <1>2, <1>3, WFMin
  <1>5. PICK p \in P : U = Above(p)
    BY DEF T
  <1>6. ASSUME NEW r \in P, p < r PROVE FALSE
    <2>1. Above(r) \in T
      BY DEF T
    <2>2. Above(r) \subseteq Above(p) /\ r \in Above(p) /\ r \notin Above(r)
      <3>1. \A x \in P : x \in Int
        BY <1>1
      <3> QED BY <1>6, <3>1
    <2>3. <<Above(r), Above(p)>> \in Order
      BY <2>2 DEF Order, StrictSubsetOrdering
    <2> QED BY <1>4, <1>5, <2>1, <2>3
  <1> QED BY <1>1, <1>6

(* get_top_thread: the head of the highest run queue that has a thread. *)
LEMMA TopQueueIsHighest ==
  ASSUME NEW rq, NEW bm, NEW st, NEW pr, RunQueues(rq, bm, st, pr)
  PROVE  /\ Candidates(rq, bm) = {} => \A t \in Threads, p \in Priorities : t \notin ReadyAt(st, pr, p)
         /\ Candidates(rq, bm) # {} =>
              /\ TopQueue(rq, bm) \in Priorities
              /\ rq[TopQueue(rq, bm)] # <<>>
              /\ \A p \in Priorities : ReadyAt(st, pr, p) # {} => p <= TopQueue(rq, bm)
  <1>1. \A p \in Priorities : ReadyAt(st, pr, p) # {} => p \in Candidates(rq, bm)
    BY ListsEmpty DEF RunQueues, Candidates, ReadyAt
  <1>2. Candidates(rq, bm) \in SUBSET Priorities
    BY DEF Candidates, RunQueues
  <1>3. ASSUME Candidates(rq, bm) # {}
        PROVE  /\ TopQueue(rq, bm) \in Candidates(rq, bm)
               /\ \A r \in Candidates(rq, bm) : r <= TopQueue(rq, bm)
    BY <1>2, <1>3, HighestExists DEF TopQueue
  <1>4. \A p \in Candidates(rq, bm) : p \in Priorities /\ rq[p] # <<>>
    BY <1>2 DEF Candidates
  <1> QED BY <1>1, <1>3, <1>4

(* thread_resched, entered with nobody RUNNING and the run queues in       *)
(* order: it takes one READY thread out of them and runs it, and no READY  *)
(* thread has a higher priority.                                           *)
LEMMA ReschedDispatches ==
  ASSUME NEW rq, NEW bm, NEW st \in StateType, NEW pr \in PriorityType,
         NEW qu \in [Threads -> 0 .. InitialQuantum],
         NEW tm \in [Threads -> {"none", "sleep", "wait"}],
         RunQueues(rq, bm, st, pr),
         \A t \in Threads \cup {Idle} : st[t] # "RUNNING",
         thread_resched(rq, bm, st, qu, tm)
  PROVE  /\ RunQueues(run_queue', bitmap', state', pr)
         /\ current' \in Threads \cup {Idle}
         /\ state' = [st EXCEPT ![current'] = "RUNNING"]
         /\ state' \in StateType
         /\ \A t \in Threads \cup {Idle} : state'[t] = "RUNNING" <=> t = current'
         /\ current' # Idle => current' \in Threads /\ st[current'] = "READY"
         /\ quantum' \in [Threads -> 0 .. InitialQuantum]
         /\ timer' = IF current' = Idle THEN tm ELSE [tm EXCEPT ![current'] = "none"]
         /\ \A t \in Threads : state'[t] = "READY" => current' # Idle /\ pr[t] <= pr[current']
  <1> DEFINE new == get_top_thread(rq, bm)
             top == TopQueue(rq, bm)
  <1>0. /\ current' = new /\ state' = [st EXCEPT ![new] = "RUNNING"]
        /\ new = Idle => run_queue' = rq /\ bitmap' = bm /\ quantum' = qu /\ timer' = tm
        /\ new # Idle =>
             /\ run_queue' = [rq EXCEPT ![top] = Tail(@)]
             /\ bitmap' = IF Tail(rq[top]) = <<>> THEN bm \ {top} ELSE bm
             /\ quantum' = IF new # current /\ qu[new] <= 0
                            THEN [qu EXCEPT ![new] = InitialQuantum] ELSE qu
             /\ timer' = [tm EXCEPT ![new] = "none"]
    BY DEF thread_resched
  <1>r. rq \in [Priorities -> Seq(Threads)] /\ bm \in SUBSET Priorities
    BY DEF RunQueues
  <1>p. \A t \in Threads : pr[t] \in Priorities /\ (st[t] = "READY" => t \in ReadyAt(st, pr, pr[t]))
    BY DEF ReadyAt, PriorityType
  <1>1. CASE Candidates(rq, bm) = {}
    <2>1. new = Idle
      BY <1>1 DEF get_top_thread
    <2>2. \A t \in Threads : st[t] # "READY"
      BY <1>1, <1>p, TopQueueIsHighest
    <2> HIDE DEF new
    <2>3. state' \in StateType /\ \A t \in Threads : state'[t] = st[t]
      BY <1>0, <2>1, SchedAssumption DEF StateType, ThreadState
    <2>4. \A t \in Threads \cup {Idle} : state'[t] = "RUNNING" <=> t = current'
      BY <1>0, <2>1, <2>3 DEF StateType
    <2>5. RunQueues(run_queue', bitmap', state', pr)
      <3>1. \A t \in Threads : state'[t] = "READY" <=> st[t] = "READY"
        BY <2>3
      <3>2. RunQueues(rq, bm, state', pr)
        BY <3>1, RunQueuesSame
      <3> QED BY <1>0, <2>1, <3>2
    <2> QED BY <1>0, <2>1, <2>2, <2>3, <2>4, <2>5
  <1>2. CASE Candidates(rq, bm) # {}
    <2>1. /\ top \in Priorities /\ rq[top] # <<>> /\ rq[top] \in Seq(Threads)
          /\ Lists(rq[top], ReadyAt(st, pr, top))
          /\ \A p \in Priorities : ReadyAt(st, pr, p) # {} => p <= top
          /\ new = Head(rq[top])
      BY <1>2, <1>r, TopQueueIsHighest DEF get_top_thread, RunQueues
    <2> HIDE DEF new, top
    <2>2. /\ new \in Threads /\ new \in ReadyAt(st, pr, top)
          /\ Tail(rq[top]) \in Seq(Threads)
          /\ Lists(Tail(rq[top]), ReadyAt(st, pr, top) \ {new})
      BY <2>1, ListsTail
    <2>3. new # Idle /\ st[new] = "READY" /\ pr[new] = top
      BY <2>2, SchedAssumption DEF ReadyAt
    <2>4. state' \in StateType /\ \A t \in Threads \cup {Idle} : t # new => state'[t] = st[t]
      BY <1>0, <2>2 DEF StateType, ThreadState
    <2>5. state'[new] = "RUNNING"
      BY <1>0, <2>2 DEF StateType
    <2>6. /\ ReadyAt(state', pr, top) = ReadyAt(st, pr, top) \ {new}
          /\ \A p \in Priorities : p # top => ReadyAt(state', pr, p) = ReadyAt(st, pr, p)
      BY <2>2, <2>3, <2>4, <2>5 DEF ReadyAt
    <2>7. /\ run_queue' \in [Priorities -> Seq(Threads)]
          /\ run_queue'[top] = Tail(rq[top])
          /\ \A p \in Priorities : p # top => run_queue'[p] = rq[p]
      BY <1>0, <1>r, <2>1, <2>2, <2>3
    <2>8. RunQueues(run_queue', bitmap', state', pr)
      <3>1. bitmap' \in SUBSET Priorities
        BY <1>0, <1>r, <2>3
      <3>2. ASSUME NEW p \in Priorities
            PROVE  /\ Lists(run_queue'[p], ReadyAt(state', pr, p))
                   /\ p \in bitmap' <=> run_queue'[p] # <<>>
        <4>1. CASE p = top
          BY <1>0, <2>1, <2>2, <2>3, <2>6, <2>7, <4>1 DEF RunQueues
        <4>2. CASE p # top
          BY <1>0, <2>3, <2>6, <2>7, <4>2 DEF RunQueues
        <4> QED BY <4>1, <4>2
      <3> QED BY <2>7, <3>1, <3>2 DEF RunQueues
    <2>9. \A t \in Threads : state'[t] = "READY" => pr[t] <= pr[new]
      <3> SUFFICES ASSUME NEW t \in Threads, state'[t] = "READY" PROVE pr[t] <= top
        BY <2>3
      <3>1. st[t] = "READY"
        BY <2>4, <2>5
      <3> QED BY <1>p, <2>1, <3>1
    <2>10. quantum' \in [Threads -> 0 .. InitialQuantum]
      BY <1>0, <2>2, <2>3, SchedAssumption
    <2>11. \A t \in Threads \cup {Idle} : state'[t] = "RUNNING" <=> t = current'
      BY <1>0, <2>4, <2>5
    <2> QED BY <1>0, <2>2, <2>3, <2>4, <2>8, <2>9, <2>10, <2>11
  <1> QED BY <1>1, <1>2
-----------------------------------------------------------------------------
(* The threads blocked on q, in states st with blocking_wait_queue bo. *)
BlockedOn(st, bo, q) == {t \in Threads : st[t] = "BLOCKED" /\ bo[t] = q}

(* Lists wl and counts wc of the wait queues say who is BLOCKED. *)
WaitQueues(wl, wc, st, bo) ==
  /\ wl \in [Queues -> Seq(Threads)]
  /\ wc \in [Queues -> Nat]
  /\ bo \in [Threads -> Queues \cup {NoQueue}]
  /\ \A q \in Queues : Lists(wl[q], BlockedOn(st, bo, q)) /\ wc[q] = Len(wl[q])
  /\ \A t \in Threads : st[t] = "BLOCKED" <=> bo[t] # NoQueue

(* TimersOwned in states st with timers tm. *)
TimersFor(st, tm) ==
  \A t \in Threads : /\ tm[t] = "sleep" <=> st[t] = "SLEEPING"
                     /\ tm[t] = "wait" => st[t] \in {"BLOCKED", "READY"}

(* A wait_queue_wake_all in progress is on a queue, and it is not the      *)
(* timer interrupt's.                                                      *)
WakingShape ==
  /\ waking # NotWaking => waking.queue \in Queues
  /\ irq = "timer" => waking = NotWaking

(* The inductive invariant of the scheduler. *)
SchedIndInv ==
  /\ TypeOK
  /\ RunQueues(run_queue, bitmap, state, priority)
  /\ WaitQueues(wait_list, wait_count, state, blocked_on)
  /\ OneRunning
  /\ TimersFor(state, timer)
  /\ WakingShape

(* It says what SchedInv says, with lists for numbers of occurrences. *)
LEMMA SchedIndInvImplies == SchedIndInv => SchedInv
  <1> SUFFICES ASSUME SchedIndInv PROVE SchedInv
    OBVIOUS
  <1>1. ASSUME NEW t \in Threads, NEW p \in Priorities
        PROVE  Occurrences(run_queue[p], t) = IF state[t] = "READY" /\ priority[t] = p THEN 1 ELSE 0
    <2>1. Lists(run_queue[p], ReadyAt(state, priority, p)) /\ run_queue[p] \in Seq(Threads)
      BY DEF SchedIndInv, RunQueues
    <2>2. t \in ReadyAt(state, priority, p) <=> state[t] = "READY" /\ priority[t] = p
      BY DEF ReadyAt
    <2> QED BY <2>1, <2>2, OccurrencesList
  <1>2. ASSUME NEW t \in Threads, NEW q \in Queues
        PROVE  Occurrences(wait_list[q], t) = IF state[t] = "BLOCKED" /\ blocked_on[t] = q THEN 1 ELSE 0
    <2>1. Lists(wait_list[q], BlockedOn(state, blocked_on, q)) /\ wait_list[q] \in Seq(Threads)
      BY DEF SchedIndInv, WaitQueues
    <2>2. t \in BlockedOn(state, blocked_on, q) <=> state[t] = "BLOCKED" /\ blocked_on[t] = q
      BY DEF BlockedOn
    <2> QED BY <2>1, <2>2, OccurrencesList
  <1>3. ReadyThreadsQueued /\ BlockedThreadsQueued /\ BitmapExact /\ TimersOwned
    BY <1>1, <1>2
    DEF SchedIndInv, ReadyThreadsQueued, BlockedThreadsQueued, BitmapExact, TimersOwned,
        RunQueues, WaitQueues, TimersFor
  <1> QED BY <1>3 DEF SchedIndInv, SchedInv

(* The wait queues stay right as long as nobody becomes or ceases to be    *)
(* BLOCKED.                                                                *)
LEMMA WaitQueuesSame ==
  ASSUME NEW wl, NEW wc, NEW st, NEW st2, NEW bo, WaitQueues(wl, wc, st, bo),
         \A t \in Threads : st2[t] = "BLOCKED" <=> st[t] = "BLOCKED"
  PROVE  WaitQueues(wl, wc, st2, bo)
  <1>1. \A q : BlockedOn(st2, bo, q) = BlockedOn(st, bo, q)
    BY DEF BlockedOn
  <1> QED BY <1>1 DEF WaitQueues

(* wait_queue_block. *)
LEMMA WaitQueuesJoin ==
  ASSUME NEW wl, NEW wc, NEW st \in StateType, NEW bo, WaitQueues(wl, wc, st, bo),
         NEW t \in Threads, NEW q \in Queues, st[t] # "BLOCKED"
  PROVE  WaitQueues([wl EXCEPT ![q] = Append(@, t)], [wc EXCEPT ![q] = @ + 1],
                    [st EXCEPT ![t] = "BLOCKED"], [bo EXCEPT ![t] = q])
  <1> DEFINE wl2 == [wl EXCEPT ![q] = Append(@, t)]
             wc2 == [wc EXCEPT ![q] = @ + 1]
             st2 == [st EXCEPT ![t] = "BLOCKED"]
             bo2 == [bo EXCEPT ![t] = q]
  <1>0. /\ wl \in [Queues -> Seq(Threads)] /\ wc \in [Queues -> Nat]
        /\ bo \in [Threads -> Queues \cup {NoQueue}]
    BY DEF WaitQueues
  <1>1. BlockedOn(st2, bo2, q) = BlockedOn(st, bo, q) \cup {t} /\ t \notin BlockedOn(st, bo, q)
    BY <1>0 DEF BlockedOn, StateType
  <1>2. \A r \in Queues : r # q => BlockedOn(st2, bo2, r) = BlockedOn(st, bo, r)
    BY <1>0 DEF BlockedOn, StateType
  <1>3. /\ Append(wl[q], t) \in Seq(Threads) /\ Len(Append(wl[q], t)) = Len(wl[q]) + 1
        /\ Lists(Append(wl[q], t), BlockedOn(st, bo, q) \cup {t})
    BY <1>0, <1>1, ListsAdd DEF WaitQueues
  <1>4. /\ wl2 \in [Queues -> Seq(Threads)] /\ wl2[q] = Append(wl[q], t)
        /\ \A r \in Queues : r # q => wl2[r] = wl[r]
    BY <1>0, <1>3
  <1>5. /\ wc2 \in [Queues -> Nat] /\ wc2[q] = wc[q] + 1
        /\ \A r \in Queues : r # q => wc2[r] = wc[r]
    BY <1>0
  <1>6. /\ bo2 \in [Threads -> Queues \cup {NoQueue}]
        /\ \A u \in Threads : st2[u] = "BLOCKED" <=> bo2[u] # NoQueue
    BY <1>0, SchedAssumption DEF WaitQueues, StateType
  <1> HIDE DEF wl2, wc2, st2, bo2
  <1>7. ASSUME NEW r \in Queues
        PROVE  Lists(wl2[r], BlockedOn(st2, bo2, r)) /\ wc2[r] = Len(wl2[r])
    <2>1. CASE r = q
      BY <1>1, <1>3, <1>4, <1>5, <2>1 DEF WaitQueues
    <2>2. CASE r # q
      BY <1>2, <1>4, <1>5, <2>2 DEF WaitQueues
    <2> QED BY <2>1, <2>2
  <1>8. WaitQueues(wl2, wc2, st2, bo2)
    BY <1>4, <1>5, <1>6, <1>7 DEF WaitQueues
  <1> QED BY <1>8 DEF wl2, wc2, st2, bo2

(* A thread leaves its wait queue: the rest of the list is s. *)
LEMMA WaitQueuesLeave ==
  ASSUME NEW wl, NEW wc, NEW st, NEW st2, NEW bo, WaitQueues(wl, wc, st, bo),
         NEW q \in Queues, NEW t \in BlockedOn(st, bo, q),
         NEW s \in Seq(Threads), Len(s) = Len(wl[q]) - 1, Lists(s, BlockedOn(st, bo, q) \ {t}),
         st2[t] # "BLOCKED",
         \A u \in Threads \ {t} : st2[u] = "BLOCKED" <=> st[u] = "BLOCKED"
  PROVE  WaitQueues([wl EXCEPT ![q] = s], [wc EXCEPT ![q] = @ - 1], st2,
                    [bo EXCEPT ![t] = NoQueue])
  <1> DEFINE wl2 == [wl EXCEPT ![q] = s]
             wc2 == [wc EXCEPT ![q] = @ - 1]
             bo2 == [bo EXCEPT ![t] = NoQueue]
  <1>0. /\ wl \in [Queues -> Seq(Threads)] /\ wc \in [Queues -> Nat] /\ t \in Threads
        /\ bo \in [Threads -> Queues \cup {NoQueue}] /\ bo[t] = q
    BY DEF WaitQueues, BlockedOn
  <1>1. BlockedOn(st2, bo2, q) = BlockedOn(st, bo, q) \ {t}
    BY <1>0 DEF BlockedOn
  <1>2. \A r \in Queues : r # q => BlockedOn(st2, bo2, r) = BlockedOn(st, bo, r)
    BY <1>0, SchedAssumption DEF BlockedOn
  <1>3. /\ wl2 \in [Queues -> Seq(Threads)] /\ wl2[q] = s
        /\ \A r \in Queues : r # q => wl2[r] = wl[r]
    BY <1>0
  <1>4. /\ wc2 \in [Queues -> Nat] /\ wc2[q] = wc[q] - 1
        /\ \A r \in Queues : r # q => wc2[r] = wc[r]
    <2>1. wc[q] = Len(wl[q]) /\ Len(s) \in Nat /\ Len(wl[q]) \in Nat /\ wc[q] - 1 \in Nat
      BY <1>0 DEF WaitQueues
    <2> QED BY <1>0, <2>1
  <1>5. /\ bo2 \in [Threads -> Queues \cup {NoQueue}]
        /\ \A u \in Threads : st2[u] = "BLOCKED" <=> bo2[u] # NoQueue
    BY <1>0 DEF WaitQueues
  <1> HIDE DEF wl2, wc2, bo2
  <1>6. ASSUME NEW r \in Queues
        PROVE  Lists(wl2[r], BlockedOn(st2, bo2, r)) /\ wc2[r] = Len(wl2[r])
    <2>1. CASE r = q
      BY <1>1, <1>3, <1>4, <2>1 DEF WaitQueues
    <2>2. CASE r # q
      BY <1>2, <1>3, <1>4, <2>2 DEF WaitQueues
    <2> QED BY <2>1, <2>2
  <1>7. WaitQueues(wl2, wc2, st2, bo2)
    BY <1>3, <1>4, <1>5, <1>6 DEF WaitQueues
  <1> QED BY <1>7 DEF wl2, wc2, bo2

(* A step leaves the processor where it is or gives it to the highest      *)
(* READY priority.                                                         *)
SwitchesToHighest ==
  current' # current =>
    \A t \in Threads : state'[t] = "READY" =>
       current' # Idle /\ priority'[t] <= priority'[current']

(* What a step that ends in thread_resched has to bring about first. *)
LEMMA SwitchInv ==
  ASSUME NEW rq, NEW bm, NEW st \in StateType,
         NEW qu \in [Threads -> 0 .. InitialQuantum],
         NEW tm \in [Threads -> {"none", "sleep", "wait"}],
         priority' \in PriorityType,
         RunQueues(rq, bm, st, priority'),
         WaitQueues(wait_list', wait_count', st, blocked_on'),
         \A t \in Threads \cup {Idle} : st[t] # "RUNNING",
         TimersFor(st, tm),
         thread_resched(rq, bm, st, qu, tm),
         yielding' \in SUBSET Threads,
         block_ret' \in [Threads -> Status],
         irq' \in {"none", "timer", "device"},
         resched' \in BOOLEAN,
         waking' = NotWaking
  PROVE  SchedIndInv' /\ SwitchesToHighest
  <1> DEFINE pr == priority'
  <1>1. pr \in PriorityType /\ RunQueues(rq, bm, st, pr)
    OBVIOUS
  <1> HIDE DEF pr
  <1>2. /\ RunQueues(run_queue', bitmap', state', pr)
        /\ current' \in Threads \cup {Idle}
        /\ state' = [st EXCEPT ![current'] = "RUNNING"]
        /\ state' \in StateType
        /\ \A t \in Threads \cup {Idle} : state'[t] = "RUNNING" <=> t = current'
        /\ current' # Idle => current' \in Threads /\ st[current'] = "READY"
        /\ quantum' \in [Threads -> 0 .. InitialQuantum]
        /\ timer' = IF current' = Idle THEN tm ELSE [tm EXCEPT ![current'] = "none"]
        /\ \A t \in Threads : state'[t] = "READY" => current' # Idle /\ pr[t] <= pr[current']
    BY <1>1, ReschedDispatches
  <1>3. \A t \in Threads : state'[t] = "BLOCKED" <=> st[t] = "BLOCKED"
    BY <1>2, SchedAssumption DEF StateType
  <1>4. WaitQueues(wait_list, wait_count, state, blocked_on)'
    <2> DEFINE wl == wait_list' wc == wait_count' bo == blocked_on' st2 == state'
    <2>1. WaitQueues(wl, wc, st, bo) /\ \A t \in Threads : st2[t] = "BLOCKED" <=> st[t] = "BLOCKED"
      BY <1>3
    <2> HIDE DEF wl, wc, bo, st2
    <2>2. WaitQueues(wl, wc, st2, bo)
      BY <2>1, WaitQueuesSame
    <2> QED BY <2>2 DEF wl, wc, bo, st2, WaitQueues, BlockedOn
  <1>5. TimersFor(state, timer)'
    BY <1>2, SchedAssumption DEF TimersFor, StateType
  <1>6. RunQueues(run_queue, bitmap, state, priority)'
    BY <1>2 DEF RunQueues, pr, ReadyAt
  <1>7. OneRunning'
    BY <1>2 DEF OneRunning
  <1>8. TypeOK'
    <2>1. waking' \in [queue : Queues \cup {NoQueue}, reschedule : BOOLEAN, woken : Nat]
      BY DEF NotWaking
    <2>2. timer' \in [Threads -> {"none", "sleep", "wait"}]
      BY <1>2
    <2> QED BY <1>1, <1>2, <1>4, <1>6, <2>1, <2>2
            DEF TypeOK, RunQueues, WaitQueues, StateType, PriorityType, pr
  <1>9. WakingShape'
    BY DEF WakingShape
  <1>10. SwitchesToHighest
    BY <1>2 DEF SwitchesToHighest, pr
  <1> QED BY <1>4, <1>5, <1>6, <1>7, <1>8, <1>9, <1>10 DEF SchedIndInv
-----------------------------------------------------------------------------
(* What the invariant says of the processor outside wait_queue_wake_all. *)
LEMMA RunningFacts ==
  ASSUME SchedIndInv, waking = NotWaking
  PROVE  /\ state \in StateType /\ priority \in PriorityType
         /\ quantum \in [Threads -> 0 .. InitialQuantum]
         /\ timer \in [Threads -> {"none", "sleep", "wait"}]
         /\ current \in Threads \cup {Idle}
         /\ \A t \in Threads \cup {Idle} : state[t] = "RUNNING" <=> t = current
         /\ \A t \in Threads : t = current => timer[t] = "none"
  <1>1. \A t \in Threads \cup {Idle} : state[t] = "RUNNING" <=> t = current
    BY DEF SchedIndInv, OneRunning
  <1>2. timer \in [Threads -> {"none", "sleep", "wait"}]
    BY DEF SchedIndInv, TypeOK
  <1>3. \A t \in Threads : t = current => timer[t] = "none"
    BY <1>1, <1>2 DEF SchedIndInv, TimersFor
  <1> QED BY <1>1, <1>2, <1>3 DEF SchedIndInv, TypeOK, StateType, PriorityType

(* The running thread gives up the processor in state x. *)
LEMMA GivesUp ==
  ASSUME SchedIndInv, waking = NotWaking, NEW x \in ThreadState, x # "RUNNING"
  PROVE  /\ [state EXCEPT ![current] = x] \in StateType
         /\ [state EXCEPT ![current] = x][current] = x
         /\ \A u \in Threads \cup {Idle} : [state EXCEPT ![current] = x][u] # "RUNNING"
         /\ \A u \in Threads : u # current => [state EXCEPT ![current] = x][u] = state[u]
  BY RunningFacts DEF StateType

(* A switch by a step that leaves priorities and wait queues alone. *)
LEMMA SwitchUnchanged ==
  ASSUME SchedIndInv,
         NEW rq, NEW bm, NEW st \in StateType,
         NEW qu \in [Threads -> 0 .. InitialQuantum],
         NEW tm \in [Threads -> {"none", "sleep", "wait"}],
         RunQueues(rq, bm, st, priority),
         \A t \in Threads : st[t] = "BLOCKED" <=> state[t] = "BLOCKED",
         \A t \in Threads \cup {Idle} : st[t] # "RUNNING",
         TimersFor(st, tm),
         thread_resched(rq, bm, st, qu, tm),
         UNCHANGED <<priority, waitvars>>,
         yielding' \in SUBSET Threads,
         irq' \in {"none", "timer", "device"},
         resched' \in BOOLEAN,
         waking' = NotWaking
  PROVE  SchedIndInv' /\ SwitchesToHighest
  <1>1. priority' \in PriorityType /\ block_ret' \in [Threads -> Status]
    BY DEF SchedIndInv, TypeOK, PriorityType, waitvars
  <1>2. RunQueues(rq, bm, st, priority')
    <2>1. priority' = priority
      OBVIOUS
    <2> QED BY <2>1
  <1>3. WaitQueues(wait_list', wait_count', st, blocked_on')
    <2>1. WaitQueues(wait_list, wait_count, st, blocked_on)
      BY WaitQueuesSame DEF SchedIndInv
    <2>2. wait_list' = wait_list /\ wait_count' = wait_count /\ blocked_on' = blocked_on
      BY DEF waitvars
    <2> QED BY <2>1, <2>2
  <1> QED BY <1>1, <1>2, <1>3, SwitchInv

LEMMA YieldStep ==
  ASSUME SchedIndInv, NEW t \in Threads, thread_yield(t)
  PROVE  SchedIndInv' /\ SwitchesToHighest
  <1> DEFINE st == [state EXCEPT ![t] = "READY"]
             qu == [quantum EXCEPT ![t] = 0]
             rq == InsertTail(run_queue, t, priority[t])
             bm == bitmap \cup {priority[t]}
  <1>1. /\ t = current /\ irq = "none" /\ waking = NotWaking
        /\ thread_resched(rq, bm, st, qu, timer)
        /\ yielding' = yielding \ {t}
        /\ UNCHANGED <<priority, waitvars, irq, resched, waking>>
    BY DEF thread_yield, Executing
  <1>2. /\ state \in StateType /\ priority \in PriorityType
        /\ quantum \in [Threads -> 0 .. InitialQuantum]
        /\ timer \in [Threads -> {"none", "sleep", "wait"}]
        /\ state[t] = "RUNNING" /\ timer[t] = "none"
    BY <1>1, RunningFacts
  <1>3. RunQueues(rq, bm, st, priority)
    BY <1>2, InsertReadyAgain DEF SchedIndInv
  <1>4. qu \in [Threads -> 0 .. InitialQuantum]
    BY <1>2, SchedAssumption
  <1>5. /\ st \in StateType /\ st[t] = "READY"
        /\ \A u \in Threads \cup {Idle} : st[u] # "RUNNING"
        /\ \A u \in Threads : u # t => st[u] = state[u]
    <2>1. /\ t = current /\ waking = NotWaking
          /\ "READY" \in ThreadState /\ "READY" # "RUNNING" /\ st = [state EXCEPT ![current] = "READY"]
      BY <1>1 DEF ThreadState
    <2> HIDE DEF st
    <2> QED BY <2>1, GivesUp
  <1> HIDE DEF st, qu, rq, bm
  <1>6. TimersFor(st, timer)
    BY <1>2, <1>5 DEF SchedIndInv, TimersFor
  <1>7. \A u \in Threads : st[u] = "BLOCKED" <=> state[u] = "BLOCKED"
    BY <1>2, <1>5
  <1>8. /\ yielding' \in SUBSET Threads /\ irq' \in {"none", "timer", "device"}
        /\ resched' \in BOOLEAN /\ waking' = NotWaking
    BY <1>1 DEF SchedIndInv, TypeOK
  <1> QED BY <1>1, <1>2, <1>3, <1>4, <1>5, <1>6, <1>7, <1>8, SwitchUnchanged

(* thread_sleep and thread_exit: the thread gives up the processor in a    *)
(* state that is in no queue.                                              *)
LEMMA StopStep ==
  ASSUME SchedIndInv, NEW t \in Threads, thread_sleep(t) \/ thread_exit(t)
  PROVE  SchedIndInv' /\ SwitchesToHighest
  <1>1. PICK x \in {"SLEEPING", "DEATH"} :
          /\ t = current /\ irq = "none" /\ waking = NotWaking
          /\ thread_resched(run_queue, bitmap, [state EXCEPT ![t] = x], quantum,
                            IF x = "SLEEPING" THEN [timer EXCEPT ![t] = "sleep"] ELSE timer)
          /\ UNCHANGED <<priority, yielding, waitvars, irq, resched, waking>>
    BY DEF thread_sleep, thread_exit, Calls, Executing
  <1> DEFINE st == [state EXCEPT ![t] = x]
             tm == IF x = "SLEEPING" THEN [timer EXCEPT ![t] = "sleep"] ELSE timer
  <1>2. /\ state \in StateType /\ priority \in PriorityType
        /\ quantum \in [Threads -> 0 .. InitialQuantum]
        /\ timer \in [Threads -> {"none", "sleep", "wait"}]
        /\ state[t] = "RUNNING" /\ timer[t] = "none"
    BY <1>1, RunningFacts
  <1>3. /\ st \in StateType /\ st[t] = x
        /\ \A u \in Threads \cup {Idle} : st[u] # "RUNNING"
        /\ \A u \in Threads : u # t => st[u] = state[u]
    <2>1. /\ t = current /\ waking = NotWaking
          /\ x \in ThreadState /\ x # "RUNNING" /\ st = [state EXCEPT ![current] = x]
      BY <1>1 DEF ThreadState
    <2> HIDE DEF st
    <2> QED BY <2>1, GivesUp
  <1>4. thread_resched(run_queue, bitmap, st, quantum, tm)
    BY <1>1
  <1> HIDE DEF st
  <1>5. RunQueues(run_queue, bitmap, st, priority)
    <2>1. \A u \in Threads : st[u] = "READY" <=> state[u] = "READY"
      BY <1>2, <1>3
    <2> QED BY <2>1, RunQueuesSame DEF SchedIndInv
  <1>6. tm \in [Threads -> {"none", "sleep", "wait"}]
    BY <1>1, <1>2
  <1>7. TimersFor(st, tm)
    BY <1>1, <1>2, <1>3 DEF SchedIndInv, TimersFor
  <1>8. \A u \in Threads : st[u] = "BLOCKED" <=> state[u] = "BLOCKED"
    BY <1>2, <1>3
  <1>9. /\ yielding' \in SUBSET Threads /\ irq' \in {"none", "timer", "device"}
        /\ resched' \in BOOLEAN /\ waking' = NotWaking
    BY <1>1 DEF SchedIndInv, TypeOK
  <1>10. UNCHANGED <<priority, waitvars>>
    BY <1>1
  <1> HIDE DEF tm
  <1> QED BY <1>2, <1>3, <1>4, <1>5, <1>6, <1>7, <1>8, <1>9, <1>10, SwitchUnchanged

LEMMA SetPriorityStep ==
  ASSUME SchedIndInv, NEW t \in Threads, NEW arg \in SettablePriorities,
         thread_set_priority(t, arg)
  PROVE  SchedIndInv' /\ SwitchesToHighest
  <1> DEFINE p == Clamp(arg)
             st == [state EXCEPT ![t] = "READY"]
             pr == [priority EXCEPT ![t] = p]
             rq == InsertHead(run_queue, t, p)
             bm == bitmap \cup {p}
  <1>1. /\ t = current /\ irq = "none" /\ waking = NotWaking
        /\ priority' = pr
        /\ thread_resched(rq, bm, st, quantum, timer)
        /\ UNCHANGED <<yielding, waitvars, irq, resched, waking>>
    BY DEF thread_set_priority, Calls, Executing
  <1>2. /\ state \in StateType /\ priority \in PriorityType
        /\ quantum \in [Threads -> 0 .. InitialQuantum]
        /\ timer \in [Threads -> {"none", "sleep", "wait"}]
        /\ state[t] = "RUNNING" /\ timer[t] = "none"
    BY <1>1, RunningFacts
  <1>3. p \in Priorities \ {IDLE_PRIORITY}
    BY SchedAssumption DEF Clamp, Priorities, IDLE_PRIORITY
  <1>4. /\ st \in StateType /\ st[t] = "READY"
        /\ \A u \in Threads \cup {Idle} : st[u] # "RUNNING"
        /\ \A u \in Threads : u # t => st[u] = state[u]
    <2>1. /\ t = current /\ waking = NotWaking
          /\ "READY" \in ThreadState /\ "READY" # "RUNNING" /\ st = [state EXCEPT ![current] = "READY"]
      BY <1>1 DEF ThreadState
    <2> HIDE DEF st
    <2> QED BY <2>1, GivesUp
  <1> HIDE DEF p
  <1>5. pr \in PriorityType
    BY <1>2, <1>3 DEF PriorityType
  <1>6. RunQueues(rq, bm, st, pr)
    BY <1>2, <1>3, InsertReady DEF SchedIndInv
  <1> HIDE DEF st, pr, rq, bm
  <1>7. TimersFor(st, timer)
    BY <1>2, <1>4 DEF SchedIndInv, TimersFor
  <1>8. WaitQueues(wait_list', wait_count', st, blocked_on')
    <2>1. \A u \in Threads : st[u] = "BLOCKED" <=> state[u] = "BLOCKED"
      BY <1>2, <1>4
    <2>2. WaitQueues(wait_list, wait_count, st, blocked_on)
      BY <2>1, WaitQueuesSame DEF SchedIndInv
    <2>3. wait_list' = wait_list /\ wait_count' = wait_count /\ blocked_on' = blocked_on
      BY <1>1 DEF waitvars
    <2> QED BY <2>2, <2>3
  <1>9. /\ yielding' \in SUBSET Threads /\ irq' \in {"none", "timer", "device"}
        /\ resched' \in BOOLEAN /\ waking' = NotWaking /\ block_ret' \in [Threads -> Status]
    BY <1>1 DEF SchedIndInv, TypeOK, waitvars
  <1>10. priority' \in PriorityType /\ RunQueues(rq, bm, st, priority')
    BY <1>1, <1>5, <1>6
  <1> QED BY <1>1, <1>2, <1>4, <1>7, <1>8, <1>9, <1>10, SwitchInv

LEMMA BlockStep ==
  ASSUME SchedIndInv, NEW t \in Threads, NEW q \in Queues,
         NEW timeout \in {"finite", "infinite"}, wait_queue_block(t, q, timeout)
  PROVE  SchedIndInv' /\ SwitchesToHighest
  <1> DEFINE st == [state EXCEPT ![t] = "BLOCKED"]
             tm == [timer EXCEPT ![t] = IF timeout = "finite" THEN "wait" ELSE "none"]
  <1>1. /\ t = current /\ irq = "none" /\ waking = NotWaking
        /\ wait_list' = [wait_list EXCEPT ![q] = Append(@, t)]
        /\ wait_count' = [wait_count EXCEPT ![q] = @ + 1]
        /\ blocked_on' = [blocked_on EXCEPT ![t] = q]
        /\ block_ret' = [block_ret EXCEPT ![t] = "NO_ERROR"]
        /\ thread_resched(run_queue, bitmap, st, quantum, tm)
        /\ UNCHANGED <<priority, yielding, irq, resched, waking>>
    BY DEF wait_queue_block, Calls, Executing
  <1>2. /\ state \in StateType /\ priority \in PriorityType
        /\ quantum \in [Threads -> 0 .. InitialQuantum]
        /\ timer \in [Threads -> {"none", "sleep", "wait"}]
        /\ state[t] = "RUNNING" /\ timer[t] = "none"
    BY <1>1, RunningFacts
  <1>3. /\ st \in StateType /\ st[t] = "BLOCKED"
        /\ \A u \in Threads \cup {Idle} : st[u] # "RUNNING"
        /\ \A u \in Threads : u # t => st[u] = state[u]
    <2>1. /\ t = current /\ waking = NotWaking
          /\ "BLOCKED" \in ThreadState /\ "BLOCKED" # "RUNNING" /\ st = [state EXCEPT ![current] = "BLOCKED"]
      BY <1>1 DEF ThreadState
    <2> HIDE DEF st
    <2> QED BY <2>1, GivesUp
  <1>4. /\ tm \in [Threads -> {"none", "sleep", "wait"}]
        /\ tm[t] \in {"none", "wait"} /\ \A u \in Threads : u # t => tm[u] = timer[u]
    BY <1>2
  <1>5. WaitQueues(wait_list', wait_count', st, blocked_on')
    <2>1. WaitQueues([wait_list EXCEPT ![q] = Append(@, t)], [wait_count EXCEPT ![q] = @ + 1],
                     st, [blocked_on EXCEPT ![t] = q])
      BY <1>2, WaitQueuesJoin DEF SchedIndInv
    <2> HIDE DEF st
    <2> QED BY <1>1, <2>1
  <1> HIDE DEF st, tm
  <1>6. RunQueues(run_queue, bitmap, st, priority)
    <2>1. \A u \in Threads : st[u] = "READY" <=> state[u] = "READY"
      BY <1>2, <1>3
    <2> QED BY <2>1, RunQueuesSame DEF SchedIndInv
  <1>7. TimersFor(st, tm)
    BY <1>3, <1>4 DEF SchedIndInv, TimersFor
  <1>8. /\ yielding' \in SUBSET Threads /\ irq' \in {"none", "timer", "device"}
        /\ resched' \in BOOLEAN /\ waking' = NotWaking /\ block_ret' \in [Threads -> Status]
    BY <1>1 DEF SchedIndInv, TypeOK, Status
  <1>9. priority' \in PriorityType /\ RunQueues(run_queue, bitmap, st, priority')
    BY <1>1, <1>2, <1>6
  <1> QED BY <1>1, <1>2, <1>3, <1>4, <1>5, <1>7, <1>8, <1>9, SwitchInv

(* The head of a wait queue leaves it for state READY (st2 says so, and    *)
(* BLOCKED of nobody else than before).                                    *)
LEMMA PopWaiterLeaves ==
  ASSUME SchedIndInv, NEW q \in Queues, wait_list[q] # <<>>, PopWaiter(q),
         NEW w, w = Head(wait_list[q]), NEW st2, st2[w] = "READY",
         \A u \in Threads \ {w} : st2[u] = "BLOCKED" <=> state[u] = "BLOCKED"
  PROVE  /\ w \in Threads /\ state[w] = "BLOCKED" /\ blocked_on[w] = q
         /\ WaitQueues(wait_list', wait_count', st2, blocked_on')
         /\ block_ret' \in [Threads -> Status]
         /\ wait_count' = [wait_count EXCEPT ![q] = @ - 1]
         /\ wait_count[q] > 0
  <1>1. /\ wait_list[q] \in Seq(Threads) /\ wait_count[q] = Len(wait_list[q])
        /\ Lists(wait_list[q], BlockedOn(state, blocked_on, q))
        /\ WaitQueues(wait_list, wait_count, state, blocked_on)
    BY DEF SchedIndInv, WaitQueues
  <1> DEFINE s == Tail(wait_list[q])
  <1>2. /\ w \in Threads /\ w \in BlockedOn(state, blocked_on, q)
        /\ s \in Seq(Threads) /\ Len(s) = Len(wait_list[q]) - 1
        /\ Lists(s, BlockedOn(state, blocked_on, q) \ {w})
    BY <1>1, ListsTail
  <1>3. /\ wait_list' = [wait_list EXCEPT ![q] = s]
        /\ wait_count' = [wait_count EXCEPT ![q] = @ - 1]
        /\ blocked_on' = [blocked_on EXCEPT ![w] = NoQueue]
        /\ block_ret' = [block_ret EXCEPT ![w] = "NO_ERROR"]
    BY DEF PopWaiter
  <1> HIDE DEF s
  <1>4. WaitQueues([wait_list EXCEPT ![q] = s], [wait_count EXCEPT ![q] = @ - 1], st2,
                   [blocked_on EXCEPT ![w] = NoQueue])
    BY <1>1, <1>2, WaitQueuesLeave
  <1>5. WaitQueues(wait_list', wait_count', st2, blocked_on')
    BY <1>3, <1>4
  <1>6. block_ret' \in [Threads -> Status]
    BY <1>2, <1>3 DEF SchedIndInv, TypeOK, Status
  <1>7. wait_count[q] > 0
    BY <1>1
  <1> QED BY <1>2, <1>3, <1>5, <1>6, <1>7 DEF BlockedOn

LEMMA WakeOneSwitchStep ==
  ASSUME SchedIndInv, NEW t \in Threads, NEW q \in Queues, wait_queue_wake_one(t, q, TRUE)
  PROVE  SchedIndInv' /\ SwitchesToHighest
  <1> DEFINE w == Head(wait_list[q])
             st1 == [state EXCEPT ![t] = "READY"]
             rq1 == InsertHead(run_queue, t, priority[t])
             bm1 == bitmap \cup {priority[t]}
             st == [st1 EXCEPT ![w] = "READY"]
             rq == InsertHead(rq1, w, priority[w])
             bm == bm1 \cup {priority[w]}
  <1>1. /\ t = current /\ irq = "none" /\ waking = NotWaking
        /\ wait_list[q] # <<>> /\ PopWaiter(q)
        /\ thread_resched(rq, bm, st, quantum, timer)
        /\ UNCHANGED <<priority, yielding, irq, resched, waking>>
    <2>1. bm = bitmap \cup {priority[t], priority[w]}
      OBVIOUS
    <2>2. st = [state EXCEPT ![t] = "READY", ![w] = "READY"]
      OBVIOUS
    <2> QED BY <2>1, <2>2 DEF wait_queue_wake_one, Calls, Executing
  <1>2. /\ state \in StateType /\ priority \in PriorityType
        /\ quantum \in [Threads -> 0 .. InitialQuantum]
        /\ timer \in [Threads -> {"none", "sleep", "wait"}]
        /\ state[t] = "RUNNING" /\ timer[t] = "none"
    BY <1>1, RunningFacts
  <1>3. /\ st1 \in StateType /\ st1[t] = "READY"
        /\ \A u \in Threads \cup {Idle} : st1[u] # "RUNNING"
        /\ \A u \in Threads : u # t => st1[u] = state[u]
    <2>1. /\ t = current /\ waking = NotWaking
          /\ "READY" \in ThreadState /\ "READY" # "RUNNING" /\ st1 = [state EXCEPT ![current] = "READY"]
      BY <1>1 DEF ThreadState
    <2> HIDE DEF st1
    <2> QED BY <2>1, GivesUp
  <1>4. w \in Threads /\ state[w] = "BLOCKED"
    <2>1. /\ wait_list[q] \in Seq(Threads)
          /\ Lists(wait_list[q], BlockedOn(state, blocked_on, q))
      BY DEF SchedIndInv, WaitQueues
    <2>2. w \in BlockedOn(state, blocked_on, q)
      BY <1>1, <2>1, ListsTail
    <2> QED BY <2>2 DEF BlockedOn
  <1>5. RunQueues(rq1, bm1, st1, priority)
    BY <1>2, InsertReadyAgain DEF SchedIndInv
  <1>6. w # t /\ st1[w] # "READY"
    BY <1>2, <1>3, <1>4
  <1>x. w = Head(wait_list[q])
    OBVIOUS
  <1> HIDE DEF rq1, bm1, st1, w
  <1>7. RunQueues(rq, bm, st, priority)
    BY <1>2, <1>3, <1>4, <1>5, <1>6, InsertReadyAgain
  <1>8. /\ st \in StateType /\ st[w] = "READY"
        /\ \A u \in Threads \cup {Idle} : st[u] # "RUNNING"
        /\ \A u \in Threads : u # w => st[u] = st1[u]
    BY <1>3, <1>4 DEF StateType, ThreadState
  <1> HIDE DEF rq, bm, st
  <1>9. \A u \in Threads \ {w} : st[u] = "BLOCKED" <=> state[u] = "BLOCKED"
    BY <1>2, <1>3, <1>8
  <1>10. /\ WaitQueues(wait_list', wait_count', st, blocked_on')
         /\ block_ret' \in [Threads -> Status]
    BY <1>1, <1>x, <1>8, <1>9, PopWaiterLeaves
  <1>11. TimersFor(st, timer)
    <2>1. \A u \in Threads : st[u] = "READY" \/ st[u] = state[u]
      BY <1>3, <1>8
    <2>2. timer[w] # "sleep"
      BY <1>4 DEF SchedIndInv, TimersFor
    <2>3. \A u \in Threads : st[u] = "SLEEPING" <=> state[u] = "SLEEPING"
      BY <1>2, <1>3, <1>4, <1>8
    <2>4. ASSUME NEW u \in Threads, timer[u] = "wait" PROVE st[u] \in {"BLOCKED", "READY"}
      BY <2>1, <2>4 DEF SchedIndInv, TimersFor
    <2> QED BY <2>3, <2>4 DEF SchedIndInv, TimersFor
  <1>12. /\ yielding' \in SUBSET Threads /\ irq' \in {"none", "timer", "device"}
         /\ resched' \in BOOLEAN /\ waking' = NotWaking
    BY <1>1 DEF SchedIndInv, TypeOK
  <1>13. priority' \in PriorityType /\ RunQueues(rq, bm, st, priority')
    BY <1>1, <1>2, <1>7
  <1> QED BY <1>1, <1>2, <1>8, <1>10, <1>11, <1>12, <1>13, SwitchInv

(* The quanta after the tick. *)
LEMMA TickType ==
  ASSUME SchedIndInv
  PROVE  Tick \in [Threads -> 0 .. InitialQuantum]
  <1>1. quantum \in [Threads -> 0 .. InitialQuantum] /\ current \in Threads \cup {Idle}
    BY DEF SchedIndInv, TypeOK
  <1>2. CASE irq = "timer" /\ current # Idle /\ quantum[current] > 0
    <2>1. current \in Threads /\ quantum[current] - 1 \in 0 .. InitialQuantum
      BY <1>1, <1>2, SchedAssumption
    <2> QED BY <1>1, <1>2, <2>1 DEF Tick
  <1>3. CASE ~(irq = "timer" /\ current # Idle /\ quantum[current] > 0)
    BY <1>1, <1>3 DEF Tick
  <1> QED BY <1>2, <1>3

LEMMA PreemptStep ==
  ASSUME SchedIndInv, waking = NotWaking, NEW qu \in [Threads -> 0 .. InitialQuantum],
         thread_preempt(qu), irq' = "none", resched' = FALSE
  PROVE  SchedIndInv' /\ SwitchesToHighest
  <1> DEFINE st == [state EXCEPT ![current] = "READY"]
  <1>1. UNCHANGED <<priority, yielding, waitvars, waking>>
    BY DEF thread_preempt
  <1>2. /\ state \in StateType /\ priority \in PriorityType
        /\ timer \in [Threads -> {"none", "sleep", "wait"}]
        /\ current \in Threads \cup {Idle}
        /\ state[current] = "RUNNING"
        /\ \A u \in Threads : u = current => timer[u] = "none"
    BY RunningFacts
  <1>3. /\ st \in StateType /\ st[current] = "READY"
        /\ \A u \in Threads \cup {Idle} : st[u] # "RUNNING"
        /\ \A u \in Threads : u # current => st[u] = state[u]
    <2>1. "READY" \in ThreadState /\ st = [state EXCEPT ![current] = "READY"]
      BY DEF ThreadState
    <2> HIDE DEF st
    <2> QED BY <2>1, GivesUp
  <1>4. PICK rq, bm : RunQueues(rq, bm, st, priority) /\ thread_resched(rq, bm, st, qu, timer)
    <2>1. CASE current = Idle
      <3>1. \A u \in Threads : st[u] = "READY" <=> state[u] = "READY"
        BY <1>3, <2>1, SchedAssumption
      <3>2. RunQueues(run_queue, bitmap, st, priority)
        <4> HIDE DEF st
        <4> QED BY <3>1, RunQueuesSame DEF SchedIndInv
      <3> QED BY <2>1, <3>2 DEF thread_preempt
    <2>2. CASE current # Idle
      <3>1. current \in Threads /\ state[current] # "READY"
        BY <1>2, <2>2
      <3>2. /\ RunQueues(InsertHead(run_queue, current, priority[current]),
                         bitmap \cup {priority[current]}, st, priority)
            /\ RunQueues(InsertTail(run_queue, current, priority[current]),
                         bitmap \cup {priority[current]}, st, priority)
        BY <1>2, <3>1, InsertReadyAgain DEF SchedIndInv
      <3> HIDE DEF st
      <3>3. \/ thread_resched(InsertHead(run_queue, current, priority[current]),
                              bitmap \cup {priority[current]}, st, qu, timer)
            \/ thread_resched(InsertTail(run_queue, current, priority[current]),
                              bitmap \cup {priority[current]}, st, qu, timer)
        BY <2>2 DEF thread_preempt, st
      <3> QED BY <3>2, <3>3
    <2> QED BY <2>1, <2>2
  <1> HIDE DEF st
  <1>5. TimersFor(st, timer)
    BY <1>2, <1>3 DEF SchedIndInv, TimersFor
  <1>6. \A u \in Threads : st[u] = "BLOCKED" <=> state[u] = "BLOCKED"
    BY <1>2, <1>3
  <1>7. /\ yielding' \in SUBSET Threads /\ irq' \in {"none", "timer", "device"}
        /\ resched' \in BOOLEAN /\ waking' = NotWaking
    BY <1>1 DEF SchedIndInv, TypeOK
  <1> QED BY <1>1, <1>2, <1>3, <1>4, <1>5, <1>6, <1>7, SwitchUnchanged

(* A step that ends with the processor where it was. *)
LEMMA StayInv ==
  ASSUME state' \in StateType, priority' \in PriorityType,
         quantum' \in [Threads -> 0 .. InitialQuantum],
         RunQueues(run_queue', bitmap', state', priority'),
         WaitQueues(wait_list', wait_count', state', blocked_on'),
         current' \in Threads \cup {Idle}, current' = current,
         OneRunning', TimersFor(state', timer'), WakingShape',
         yielding' \in SUBSET Threads,
         block_ret' \in [Threads -> Status],
         timer' \in [Threads -> {"none", "sleep", "wait"}],
         irq' \in {"none", "timer", "device"},
         resched' \in BOOLEAN,
         waking' \in [queue : Queues \cup {NoQueue}, reschedule : BOOLEAN, woken : Nat]
  PROVE  SchedIndInv' /\ SwitchesToHighest
  <1>1. RunQueues(run_queue, bitmap, state, priority)'
    BY DEF RunQueues, ReadyAt
  <1>2. WaitQueues(wait_list, wait_count, state, blocked_on)'
    BY DEF WaitQueues, BlockedOn
  <1>3. TimersFor(state, timer)'
    BY DEF TimersFor
  <1>4. TypeOK'
    BY <1>1, <1>2 DEF TypeOK, RunQueues, WaitQueues, StateType, PriorityType
  <1>5. SwitchesToHighest
    BY DEF SwitchesToHighest
  <1> QED BY <1>1, <1>2, <1>3, <1>4, <1>5 DEF SchedIndInv

(* A thread that was not READY is put at the head of its run queue. *)
LEMMA MadeReady ==
  ASSUME SchedIndInv, NEW w \in Threads, state[w] # "READY",
         state' = [state EXCEPT ![w] = "READY"],
         run_queue' = InsertHead(run_queue, w, priority[w]),
         bitmap' = bitmap \cup {priority[w]},
         priority' = priority
  PROVE  /\ RunQueues(run_queue', bitmap', state', priority')
         /\ state' \in StateType /\ priority' \in PriorityType
         /\ state'[w] = "READY"
         /\ \A u \in Threads \cup {Idle} : u # w => state'[u] = state[u]
  <1>1. state \in StateType /\ priority \in PriorityType
    BY DEF SchedIndInv, TypeOK, StateType, PriorityType
  <1>2. RunQueues(InsertHead(run_queue, w, priority[w]), bitmap \cup {priority[w]},
                  [state EXCEPT ![w] = "READY"], priority)
    BY <1>1, InsertReadyAgain DEF SchedIndInv
  <1>3. RunQueues(run_queue', bitmap', state', priority')
    BY <1>2
  <1> QED BY <1>1, <1>3 DEF StateType, ThreadState

LEMMA ResumeStep ==
  ASSUME SchedIndInv, NEW t \in Threads, NEW s \in Threads, thread_resume(t, s)
  PROVE  SchedIndInv' /\ SwitchesToHighest
  <1>1. /\ waking = NotWaking /\ state[s] = "SUSPENDED" /\ yielding' = yielding \cup {t}
        /\ state' = [state EXCEPT ![s] = "READY"]
        /\ run_queue' = InsertHead(run_queue, s, priority[s])
        /\ bitmap' = bitmap \cup {priority[s]}
        /\ UNCHANGED <<priority, quantum, current, waitvars, timer, irq, resched, waking>>
    BY DEF thread_resume, Calls, Executing
  <1>2. /\ RunQueues(run_queue', bitmap', state', priority')
        /\ state' \in StateType /\ priority' \in PriorityType
        /\ state'[s] = "READY"
        /\ \A u \in Threads \cup {Idle} : u # s => state'[u] = state[u]
    BY <1>1, MadeReady
  <1>3. WaitQueues(wait_list', wait_count', state', blocked_on')
    <2>1. \A u \in Threads : state'[u] = "BLOCKED" <=> state[u] = "BLOCKED"
      BY <1>1, <1>2
    <2>2. WaitQueues(wait_list, wait_count, state', blocked_on)
      BY <2>1, WaitQueuesSame DEF SchedIndInv
    <2>3. wait_list' = wait_list /\ wait_count' = wait_count /\ blocked_on' = blocked_on
      BY <1>1 DEF waitvars
    <2> QED BY <2>2, <2>3
  <1>4. OneRunning'
    BY <1>1, <1>2 DEF SchedIndInv, OneRunning, waitvars
  <1>5. TimersFor(state', timer')
    BY <1>1, <1>2 DEF SchedIndInv, TimersFor
  <1>6. WakingShape'
    BY <1>1 DEF SchedIndInv, WakingShape
  <1>7. /\ quantum' \in [Threads -> 0 .. InitialQuantum]
        /\ current' \in Threads \cup {Idle} /\ current' = current
        /\ yielding' \in SUBSET Threads /\ block_ret' \in [Threads -> Status]
        /\ timer' \in [Threads -> {"none", "sleep", "wait"}]
        /\ irq' \in {"none", "timer", "device"} /\ resched' \in BOOLEAN
        /\ waking' \in [queue : Queues \cup {NoQueue}, reschedule : BOOLEAN, woken : Nat]
    BY <1>1 DEF SchedIndInv, TypeOK, waitvars
  <1> QED BY <1>2, <1>3, <1>4, <1>5, <1>6, <1>7, StayInv

LEMMA WakeOneStayStep ==
  ASSUME SchedIndInv, NEW t \in Threads, NEW q \in Queues, wait_queue_wake_one(t, q, FALSE)
  PROVE  SchedIndInv' /\ SwitchesToHighest
  <1> DEFINE w == Head(wait_list[q])
  <1>1. /\ waking = NotWaking /\ wait_list[q] # <<>> /\ PopWaiter(q)
        /\ state' = [state EXCEPT ![w] = "READY"]
        /\ run_queue' = InsertHead(run_queue, w, priority[w])
        /\ bitmap' = bitmap \cup {priority[w]}
        /\ UNCHANGED <<priority, quantum, current, timer, yielding, irq, resched, waking>>
    BY DEF wait_queue_wake_one, Calls, Executing
  <1>2. w \in Threads /\ state[w] = "BLOCKED"
    <2>1. /\ wait_list[q] \in Seq(Threads)
          /\ Lists(wait_list[q], BlockedOn(state, blocked_on, q))
      BY DEF SchedIndInv, WaitQueues
    <2>2. w \in BlockedOn(state, blocked_on, q)
      BY <1>1, <2>1, ListsTail
    <2> QED BY <2>2 DEF BlockedOn
  <1>x. w = Head(wait_list[q])
    OBVIOUS
  <1> HIDE DEF w
  <1>3. /\ RunQueues(run_queue', bitmap', state', priority')
        /\ state' \in StateType /\ priority' \in PriorityType
        /\ state'[w] = "READY"
        /\ \A u \in Threads \cup {Idle} : u # w => state'[u] = state[u]
    BY <1>1, <1>2, MadeReady
  <1>4. /\ WaitQueues(wait_list', wait_count', state', blocked_on')
        /\ block_ret' \in [Threads -> Status]
    <2> DEFINE st2 == state'
    <2>1. st2[w] = "READY" /\ \A u \in Threads \ {w} : st2[u] = "BLOCKED" <=> state[u] = "BLOCKED"
      BY <1>3
    <2>2. wait_list[q] # <<>> /\ PopWaiter(q)
      BY <1>1
    <2> HIDE DEF st2
    <2>3. WaitQueues(wait_list', wait_count', st2, blocked_on') /\ block_ret' \in [Threads -> Status]
      BY <1>x, <2>1, <2>2, PopWaiterLeaves
    <2> QED BY <2>3 DEF st2
  <1>5. OneRunning'
    <2>1. \A u \in Threads \cup {Idle} : state[u] = "RUNNING" <=> u = current
      BY <1>1, RunningFacts
    <2> QED BY <1>1, <1>2, <1>3, <2>1 DEF OneRunning
  <1>6. TimersFor(state', timer')
    BY <1>1, <1>2, <1>3 DEF SchedIndInv, TimersFor
  <1>7. WakingShape'
    BY <1>1 DEF SchedIndInv, WakingShape
  <1>8. /\ quantum' \in [Threads -> 0 .. InitialQuantum]
        /\ current' \in Threads \cup {Idle} /\ current' = current
        /\ yielding' \in SUBSET Threads
        /\ timer' \in [Threads -> {"none", "sleep", "wait"}]
        /\ irq' \in {"none", "timer", "device"} /\ resched' \in BOOLEAN
        /\ waking' \in [queue : Queues \cup {NoQueue}, reschedule : BOOLEAN, woken : Nat]
    BY <1>1 DEF SchedIndInv, TypeOK
  <1> QED BY <1>3, <1>4, <1>5, <1>6, <1>7, <1>8, StayInv

LEMMA WakeAllStep ==
  ASSUME SchedIndInv, NEW t \in Threads, NEW q \in Queues, NEW reschedule \in BOOLEAN,
         wait_queue_wake_all(t, q, reschedule)
  PROVE  SchedIndInv' /\ SwitchesToHighest
  <1>1. /\ t = current /\ irq = "none" /\ waking = NotWaking
        /\ waking' = [queue |-> q, reschedule |-> reschedule, woken |-> 0]
        /\ UNCHANGED <<priority, quantum, current, yielding, waitvars, timer, irq, resched>>
    BY DEF wait_queue_wake_all, Calls, Executing
  <1>2. /\ state \in StateType /\ priority \in PriorityType
        /\ state[t] = "RUNNING" /\ timer[t] = "none"
        /\ \A u \in Threads \cup {Idle} : state[u] = "RUNNING" <=> u = current
    <2>1. t = current /\ waking = NotWaking
      BY <1>1
    <2> QED BY <2>1, RunningFacts
  <1>3. /\ waking'.queue = q /\ waking'.woken = 0 /\ waking' # NotWaking
        /\ waking'.reschedule <=> reschedule
        /\ wait_count' = wait_count /\ wait_count[q] \in Nat
    BY <1>1, SchedAssumption DEF NotWaking, SchedIndInv, TypeOK, waitvars
  <1>4. /\ RunQueues(run_queue', bitmap', state', priority')
        /\ state' \in StateType /\ priority' \in PriorityType
        /\ OneRunning'
        /\ \A u \in Threads : state'[u] = state[u] \/ (u = t /\ state'[u] = "READY")
    <2>1. CASE reschedule /\ wait_count[q] > 0
      <3>1. /\ state' = [state EXCEPT ![t] = "READY"]
            /\ run_queue' = InsertHead(run_queue, t, priority[t])
            /\ bitmap' = bitmap \cup {priority[t]}
        BY <2>1 DEF wait_queue_wake_all
      <3>2. /\ RunQueues(run_queue', bitmap', state', priority')
            /\ state' \in StateType /\ priority' \in PriorityType
            /\ state'[t] = "READY"
            /\ \A u \in Threads \cup {Idle} : u # t => state'[u] = state[u]
        BY <1>1, <1>2, <3>1, MadeReady
      <3>3. \A u \in Threads \cup {Idle} : state'[u] # "RUNNING"
        BY <1>1, <1>2, <3>2
      <3>4. waking'.reschedule /\ waking'.woken + wait_count'[waking'.queue] > 0
        BY <1>3, <2>1
      <3>5. OneRunning'
        BY <1>3, <3>3, <3>4 DEF OneRunning
      <3> QED BY <3>2, <3>5
    <2>2. CASE ~(reschedule /\ wait_count[q] > 0)
      <3>1. state' = state /\ run_queue' = run_queue /\ bitmap' = bitmap /\ priority' = priority
        BY <1>1, <2>2 DEF wait_queue_wake_all, runvars
      <3>2. RunQueues(run_queue', bitmap', state', priority')
        BY <3>1 DEF SchedIndInv
      <3>3. ~(waking'.reschedule /\ waking'.woken + wait_count'[waking'.queue] > 0)
        BY <1>3, <2>2
      <3>4. \A u \in Threads \cup {Idle} : state'[u] = "RUNNING" <=> u = current'
        BY <1>1, <1>2, <3>1
      <3>5. OneRunning'
        BY <3>3, <3>4 DEF OneRunning
      <3> QED BY <1>2, <3>1, <3>2, <3>5
    <2> QED BY <2>1, <2>2
  <1>5. WaitQueues(wait_list', wait_count', state', blocked_on')
    <2> DEFINE st2 == state'
    <2>1. \A u \in Threads : st2[u] = "BLOCKED" <=> state[u] = "BLOCKED"
      BY <1>2, <1>4
    <2>2. wait_list' = wait_list /\ wait_count' = wait_count /\ blocked_on' = blocked_on
      BY <1>1 DEF waitvars
    <2> HIDE DEF st2
    <2>3. WaitQueues(wait_list, wait_count, st2, blocked_on)
      BY <2>1, WaitQueuesSame DEF SchedIndInv
    <2> QED BY <2>2, <2>3 DEF st2
  <1>6. TimersFor(state', timer')
    BY <1>1, <1>2, <1>4 DEF SchedIndInv, TimersFor
  <1>7. WakingShape'
    BY <1>1, <1>3 DEF WakingShape
  <1>8. /\ quantum' \in [Threads -> 0 .. InitialQuantum]
        /\ current' \in Threads \cup {Idle} /\ current' = current
        /\ yielding' \in SUBSET Threads /\ block_ret' \in [Threads -> Status]
        /\ timer' \in [Threads -> {"none", "sleep", "wait"}]
        /\ irq' \in {"none", "timer", "device"} /\ resched' \in BOOLEAN
    BY <1>1 DEF SchedIndInv, TypeOK, waitvars
  <1>9. waking' \in [queue : Queues \cup {NoQueue}, reschedule : BOOLEAN, woken : Nat]
    BY <1>1
  <1> QED BY <1>4, <1>5, <1>6, <1>7, <1>8, <1>9, StayInv

LEMMA WakeAllIterationStep ==
  ASSUME SchedIndInv, wake_all_iteration
  PROVE  SchedIndInv' /\ SwitchesToHighest
  <1> DEFINE q == waking.queue
             w == Head(wait_list[q])
  <1>1. /\ waking # NotWaking /\ wait_list[q] # <<>> /\ PopWaiter(q)
        /\ state' = [state EXCEPT ![w] = "READY"]
        /\ run_queue' = InsertHead(run_queue, w, priority[w])
        /\ bitmap' = bitmap \cup {priority[w]}
        /\ waking' = [waking EXCEPT !.woken = @ + 1]
        /\ UNCHANGED <<priority, quantum, current, yielding, timer, irq, resched>>
    BY DEF wake_all_iteration
  <1>2. /\ q \in Queues /\ irq # "timer"
        /\ waking \in [queue : Queues \cup {NoQueue}, reschedule : BOOLEAN, woken : Nat]
    BY <1>1 DEF SchedIndInv, WakingShape, TypeOK
  <1>3. /\ waking' \in [queue : Queues \cup {NoQueue}, reschedule : BOOLEAN, woken : Nat]
        /\ waking'.queue = q /\ waking'.reschedule = waking.reschedule
        /\ waking'.woken = waking.woken + 1 /\ waking.woken \in Nat
    BY <1>1, <1>2
  <1>4. waking' # NotWaking
    BY <1>2, <1>3, SchedAssumption DEF NotWaking
  <1>x. w = Head(wait_list[q])
    OBVIOUS
  <1> HIDE DEF q
  <1>5. w \in Threads /\ state[w] = "BLOCKED"
    <2>1. /\ wait_list[q] \in Seq(Threads)
          /\ Lists(wait_list[q], BlockedOn(state, blocked_on, q))
      BY <1>2 DEF SchedIndInv, WaitQueues
    <2>2. w \in BlockedOn(state, blocked_on, q)
      BY <1>1, <2>1, ListsTail
    <2> QED BY <2>2 DEF BlockedOn
  <1> HIDE DEF w
  <1>6. /\ RunQueues(run_queue', bitmap', state', priority')
        /\ state' \in StateType /\ priority' \in PriorityType
        /\ state'[w] = "READY"
        /\ \A u \in Threads \cup {Idle} : u # w => state'[u] = state[u]
    BY <1>1, <1>5, MadeReady
  <1>7. /\ WaitQueues(wait_list', wait_count', state', blocked_on')
        /\ block_ret' \in [Threads -> Status]
        /\ wait_count' = [wait_count EXCEPT ![q] = @ - 1]
    <2> DEFINE st2 == state'
    <2>1. st2[w] = "READY" /\ \A u \in Threads \ {w} : st2[u] = "BLOCKED" <=> state[u] = "BLOCKED"
      BY <1>6
    <2>2. wait_list[q] # <<>> /\ PopWaiter(q)
      BY <1>1
    <2> HIDE DEF st2
    <2>3. /\ WaitQueues(wait_list', wait_count', st2, blocked_on')
          /\ block_ret' \in [Threads -> Status]
          /\ wait_count' = [wait_count EXCEPT ![q] = @ - 1]
      BY <1>x, <1>2, <2>1, <2>2, PopWaiterLeaves
    <2> QED BY <2>3 DEF st2
  <1>8. waking'.woken + wait_count'[waking'.queue] = waking.woken + wait_count[waking.queue]
    <2>1. wait_count \in [Queues -> Nat]
      BY DEF SchedIndInv, TypeOK
    <2>2. wait_count'[q] = wait_count[q] - 1 /\ wait_count[q] \in Nat
      BY <1>2, <1>7, <2>1
    <2> QED BY <1>3, <2>2 DEF q
  <1>9. OneRunning'
    <2> SUFFICES ASSUME NEW u \in Threads \cup {Idle}
                 PROVE  state'[u] = "RUNNING" <=>
                          /\ u = current
                          /\ ~(waking.reschedule /\ waking.woken + wait_count[waking.queue] > 0)
      BY <1>1, <1>3, <1>4, <1>8 DEF OneRunning
    <2>1. state'[u] = "RUNNING" <=> state[u] = "RUNNING"
      BY <1>5, <1>6
    <2> QED BY <1>1, <2>1 DEF SchedIndInv, OneRunning
  <1>10. TimersFor(state', timer')
    BY <1>1, <1>5, <1>6 DEF SchedIndInv, TimersFor
  <1>11. WakingShape'
    BY <1>1, <1>2, <1>3 DEF WakingShape
  <1>12. /\ quantum' \in [Threads -> 0 .. InitialQuantum]
        /\ current' \in Threads \cup {Idle} /\ current' = current
        /\ yielding' \in SUBSET Threads
        /\ timer' \in [Threads -> {"none", "sleep", "wait"}]
        /\ irq' \in {"none", "timer", "device"} /\ resched' \in BOOLEAN
    BY <1>1 DEF SchedIndInv, TypeOK
  <1> QED BY <1>3, <1>6, <1>7, <1>9, <1>10, <1>11, <1>12, StayInv

LEMMA WakeAllEndStep ==
  ASSUME SchedIndInv, wake_all_end
  PROVE  SchedIndInv' /\ SwitchesToHighest
  <1> DEFINE q == waking.queue
  <1>1. /\ waking # NotWaking /\ wait_list[q] = <<>> /\ waking' = NotWaking
        /\ resched' = (resched \/ (irq # "none" /\ waking.woken > 0))
        /\ UNCHANGED <<priority, yielding, waitvars, irq>>
    BY DEF wake_all_end
  <1>2. /\ q \in Queues
        /\ waking \in [queue : Queues \cup {NoQueue}, reschedule : BOOLEAN, woken : Nat]
    BY <1>1 DEF SchedIndInv, WakingShape, TypeOK
  <1>3. wait_count[q] = 0
    <2>1. wait_count[q] = Len(wait_list[q])
      BY <1>2 DEF SchedIndInv, WaitQueues
    <2> QED BY <1>1, <2>1
  <1>4. waking.woken \in Nat /\ waking.reschedule \in BOOLEAN
    BY <1>2
  <1>5. \A u \in Threads \cup {Idle} :
          state[u] = "RUNNING" <=> u = current /\ ~(waking.reschedule /\ waking.woken > 0)
    BY <1>1, <1>3, <1>4 DEF SchedIndInv, OneRunning
  <1>6. /\ state \in StateType /\ quantum \in [Threads -> 0 .. InitialQuantum]
        /\ timer \in [Threads -> {"none", "sleep", "wait"}]
        /\ priority' \in PriorityType /\ current \in Threads \cup {Idle}
        /\ yielding' \in SUBSET Threads /\ irq' \in {"none", "timer", "device"}
        /\ block_ret' \in [Threads -> Status]
    BY <1>1 DEF SchedIndInv, TypeOK, StateType, PriorityType, waitvars
  <1>7. resched' \in BOOLEAN
    BY <1>1
  <1>8. CASE waking.woken > 0 /\ waking.reschedule
    <2>1. thread_resched(run_queue, bitmap, state, quantum, timer)
      BY <1>8 DEF wake_all_end
    <2>2. \A u \in Threads \cup {Idle} : state[u] # "RUNNING"
      BY <1>5, <1>8
    <2>3. RunQueues(run_queue, bitmap, state, priority) /\ TimersFor(state, timer)
      BY DEF SchedIndInv
    <2>4. UNCHANGED <<priority, waitvars>>
      BY <1>1
    <2> QED BY <1>1, <1>6, <1>7, <2>1, <2>2, <2>3, <2>4, SwitchUnchanged
  <1>9. CASE ~(waking.woken > 0 /\ waking.reschedule)
    <2>1. /\ state' = state /\ quantum' = quantum /\ current' = current /\ timer' = timer
          /\ run_queue' = run_queue /\ bitmap' = bitmap /\ priority' = priority
          /\ wait_list' = wait_list /\ wait_count' = wait_count /\ blocked_on' = blocked_on
      BY <1>1, <1>9 DEF wake_all_end, runvars, waitvars
    <2>2. /\ RunQueues(run_queue', bitmap', state', priority')
          /\ WaitQueues(wait_list', wait_count', state', blocked_on')
          /\ TimersFor(state', timer')
      BY <2>1 DEF SchedIndInv
    <2>3. OneRunning'
      BY <1>1, <1>5, <1>9, <2>1 DEF OneRunning
    <2>4. WakingShape'
      BY <1>1 DEF WakingShape
    <2>5. waking' \in [queue : Queues \cup {NoQueue}, reschedule : BOOLEAN, woken : Nat]
      BY <1>1 DEF NotWaking
    <2> QED BY <1>6, <1>7, <2>1, <2>2, <2>3, <2>4, <2>5, StayInv
  <1> QED BY <1>8, <1>9

(* The start of an interrupt touches neither queues nor threads. *)
LEMMA InterruptEntryStep ==
  ASSUME SchedIndInv, timer_interrupt \/ \E q \in Queues : device_interrupt(q)
  PROVE  SchedIndInv' /\ SwitchesToHighest
  <1>1. /\ waking = NotWaking
        /\ UNCHANGED <<state, priority, quantum, runvars, current, yielding, waitvars,
                       timer, resched>>
        /\ \/ irq' = "timer" /\ waking' = NotWaking
           \/ \E q \in Queues :
                irq' = "device" /\ waking' = [queue |-> q, reschedule |-> FALSE, woken |-> 0]
    BY DEF timer_interrupt, device_interrupt, Executing
  <1>2. /\ irq' \in {"none", "timer", "device"}
        /\ waking' \in [queue : Queues \cup {NoQueue}, reschedule : BOOLEAN, woken : Nat]
        /\ waking'.reschedule = FALSE
        /\ WakingShape'
    <2>1. CASE irq' = "timer" /\ waking' = NotWaking
      BY <2>1 DEF NotWaking, WakingShape
    <2>2. CASE \E q \in Queues :
                 irq' = "device" /\ waking' = [queue |-> q, reschedule |-> FALSE, woken |-> 0]
      BY <2>2 DEF WakingShape
    <2> QED BY <1>1, <2>1, <2>2
  <1>3. /\ state' = state /\ priority' = priority /\ quantum' = quantum
        /\ run_queue' = run_queue /\ bitmap' = bitmap /\ current' = current
        /\ yielding' = yielding /\ timer' = timer /\ resched' = resched
        /\ wait_list' = wait_list /\ wait_count' = wait_count
        /\ blocked_on' = blocked_on /\ block_ret' = block_ret
    BY <1>1 DEF runvars, waitvars
  <1>4. /\ RunQueues(run_queue', bitmap', state', priority')
        /\ WaitQueues(wait_list', wait_count', state', blocked_on')
        /\ TimersFor(state', timer')
    BY <1>3 DEF SchedIndInv
  <1>5. OneRunning'
    <2>1. \A u \in Threads \cup {Idle} : state'[u] = "RUNNING" <=> u = current'
      BY <1>1, <1>3, RunningFacts
    <2> QED BY <1>2, <2>1 DEF OneRunning
  <1>6. /\ state' \in StateType /\ priority' \in PriorityType
        /\ quantum' \in [Threads -> 0 .. InitialQuantum]
        /\ current' \in Threads \cup {Idle} /\ current' = current
        /\ yielding' \in SUBSET Threads /\ block_ret' \in [Threads -> Status]
        /\ timer' \in [Threads -> {"none", "sleep", "wait"}]
        /\ resched' \in BOOLEAN
    BY <1>3 DEF SchedIndInv, TypeOK, StateType, PriorityType
  <1> QED BY <1>2, <1>4, <1>5, <1>6, StayInv

LEMMA SleepHandlerStep ==
  ASSUME SchedIndInv, NEW t \in Threads, thread_sleep_handler(t)
  PROVE  SchedIndInv' /\ SwitchesToHighest
  <1>1. /\ irq = "timer" /\ timer[t] = "sleep"
        /\ timer' = [timer EXCEPT ![t] = "none"]
        /\ state' = [state EXCEPT ![t] = "READY"]
        /\ run_queue' = InsertHead(run_queue, t, priority[t])
        /\ bitmap' = bitmap \cup {priority[t]}
        /\ resched' = TRUE
        /\ UNCHANGED <<priority, quantum, current, yielding, waitvars, irq, waking>>
    BY DEF thread_sleep_handler, WakeFromTimer
  <1>2. /\ waking = NotWaking /\ state[t] = "SLEEPING"
        /\ timer \in [Threads -> {"none", "sleep", "wait"}]
    BY <1>1 DEF SchedIndInv, WakingShape, TimersFor, TypeOK
  <1>3. /\ RunQueues(run_queue', bitmap', state', priority')
        /\ state' \in StateType /\ priority' \in PriorityType
        /\ state'[t] = "READY"
        /\ \A u \in Threads \cup {Idle} : u # t => state'[u] = state[u]
    BY <1>1, <1>2, MadeReady
  <1>4. WaitQueues(wait_list', wait_count', state', blocked_on')
    <2> DEFINE st2 == state'
    <2>1. \A u \in Threads : st2[u] = "BLOCKED" <=> state[u] = "BLOCKED"
      BY <1>2, <1>3
    <2>2. wait_list' = wait_list /\ wait_count' = wait_count /\ blocked_on' = blocked_on
      BY <1>1 DEF waitvars
    <2> HIDE DEF st2
    <2>3. WaitQueues(wait_list, wait_count, st2, blocked_on)
      BY <2>1, WaitQueuesSame DEF SchedIndInv
    <2> QED BY <2>2, <2>3 DEF st2
  <1>5. OneRunning'
    <2>1. \A u \in Threads \cup {Idle} : state[u] = "RUNNING" <=> u = current
      BY <1>2, RunningFacts
    <2> QED BY <1>1, <1>2, <1>3, <2>1 DEF OneRunning
  <1>6. TimersFor(state', timer')
    BY <1>1, <1>2, <1>3 DEF SchedIndInv, TimersFor
  <1>7. WakingShape'
    BY <1>1 DEF SchedIndInv, WakingShape
  <1>8. /\ quantum' \in [Threads -> 0 .. InitialQuantum]
        /\ current' \in Threads \cup {Idle} /\ current' = current
        /\ yielding' \in SUBSET Threads /\ block_ret' \in [Threads -> Status]
        /\ timer' \in [Threads -> {"none", "sleep", "wait"}]
        /\ irq' \in {"none", "timer", "device"} /\ resched' \in BOOLEAN
        /\ waking' \in [queue : Queues \cup {NoQueue}, reschedule : BOOLEAN, woken : Nat]
    BY <1>1, <1>2 DEF SchedIndInv, TypeOK, waitvars
  <1> QED BY <1>3, <1>4, <1>5, <1>6, <1>7, <1>8, StayInv

LEMMA TimeoutHandlerStep ==
  ASSUME SchedIndInv, NEW t \in Threads, wait_queue_timeout_handler(t)
  PROVE  SchedIndInv' /\ SwitchesToHighest
  <1>1. /\ irq = "timer" /\ timer[t] = "wait"
        /\ timer' = [timer EXCEPT ![t] = "none"]
        /\ UNCHANGED <<priority, quantum, current, yielding, irq, waking>>
    BY DEF wait_queue_timeout_handler
  <1>2. /\ waking = NotWaking /\ state[t] # "SLEEPING" /\ state[t] # "RUNNING"
        /\ timer \in [Threads -> {"none", "sleep", "wait"}]
    <2>1. timer \in [Threads -> {"none", "sleep", "wait"}]
      BY DEF SchedIndInv, TypeOK
    <2> QED BY <1>1, <2>1 DEF SchedIndInv, WakingShape, TimersFor
  <1>3. /\ RunQueues(run_queue', bitmap', state', priority')
        /\ WaitQueues(wait_list', wait_count', state', blocked_on')
        /\ state' \in StateType /\ priority' \in PriorityType
        /\ block_ret' \in [Threads -> Status]
        /\ resched' \in BOOLEAN
        /\ \A u \in Threads \cup {Idle} : u # t => state'[u] = state[u]
        /\ state'[t] \in {state[t], "READY"}
    <2>1. CASE state[t] # "BLOCKED"
      <3>1. /\ state' = state /\ run_queue' = run_queue /\ bitmap' = bitmap
            /\ wait_list' = wait_list /\ wait_count' = wait_count /\ blocked_on' = blocked_on
            /\ block_ret' = block_ret /\ resched' = resched /\ priority' = priority
        BY <1>1, <2>1 DEF wait_queue_timeout_handler, runvars, waitvars
      <3>2. /\ RunQueues(run_queue', bitmap', state', priority')
            /\ WaitQueues(wait_list', wait_count', state', blocked_on')
        BY <3>1 DEF SchedIndInv
      <3> QED BY <3>1, <3>2 DEF SchedIndInv, TypeOK, StateType, PriorityType
    <2>2. CASE state[t] = "BLOCKED"
      <3> DEFINE q == blocked_on[t]
                 s == Without(wait_list[q], t)
                 st2 == state'
      <3>1. /\ state' = [state EXCEPT ![t] = "READY"]
            /\ run_queue' = InsertHead(run_queue, t, priority[t])
            /\ bitmap' = bitmap \cup {priority[t]}
            /\ resched' = TRUE
            /\ wait_list' = [wait_list EXCEPT ![q] = s]
            /\ wait_count' = [wait_count EXCEPT ![q] = @ - 1]
            /\ blocked_on' = [blocked_on EXCEPT ![t] = NoQueue]
            /\ block_ret' = [block_ret EXCEPT ![t] = "ERR_TIMED_OUT"]
        BY <2>2 DEF wait_queue_timeout_handler, WakeFromTimer
      <3>2. /\ RunQueues(run_queue', bitmap', state', priority')
            /\ state' \in StateType /\ priority' \in PriorityType
            /\ state'[t] = "READY"
            /\ \A u \in Threads \cup {Idle} : u # t => state'[u] = state[u]
        BY <1>1, <2>2, <3>1, MadeReady
      <3>3. /\ WaitQueues(wait_list, wait_count, state, blocked_on)
            /\ q \in Queues /\ t \in BlockedOn(state, blocked_on, q)
            /\ wait_list[q] \in Seq(Threads)
            /\ Lists(wait_list[q], BlockedOn(state, blocked_on, q))
        BY <2>2 DEF SchedIndInv, WaitQueues, BlockedOn
      <3>4. s \in Seq(Threads) /\ Len(s) = Len(wait_list[q]) - 1
            /\ Lists(s, BlockedOn(state, blocked_on, q) \ {t})
        BY <3>3, ListsWithout
      <3>5. st2[t] # "BLOCKED" /\ \A u \in Threads \ {t} : st2[u] = "BLOCKED" <=> state[u] = "BLOCKED"
        BY <3>2
      <3> HIDE DEF s, q, st2
      <3>6. WaitQueues([wait_list EXCEPT ![q] = s], [wait_count EXCEPT ![q] = @ - 1], st2,
                       [blocked_on EXCEPT ![t] = NoQueue])
        BY <3>3, <3>4, <3>5, WaitQueuesLeave
      <3>7. WaitQueues(wait_list', wait_count', state', blocked_on')
        BY <3>1, <3>6 DEF st2
      <3>8. block_ret' \in [Threads -> Status] /\ resched' \in BOOLEAN
        BY <3>1 DEF SchedIndInv, TypeOK, Status
      <3> QED BY <3>2, <3>7, <3>8
    <2> QED BY <2>1, <2>2
  <1>4. OneRunning'
    <2>1. \A u \in Threads \cup {Idle} : state[u] = "RUNNING" <=> u = current
      BY <1>2, RunningFacts
    <2>2. \A u \in Threads \cup {Idle} : state'[u] = "RUNNING" <=> state[u] = "RUNNING"
      BY <1>2, <1>3
    <2> QED BY <1>1, <1>2, <2>1, <2>2 DEF OneRunning
  <1>5. TimersFor(state', timer')
    BY <1>1, <1>2, <1>3 DEF SchedIndInv, TimersFor
  <1>6. WakingShape'
    BY <1>1 DEF SchedIndInv, WakingShape
  <1>7. /\ quantum' \in [Threads -> 0 .. InitialQuantum]
        /\ current' \in Threads \cup {Idle} /\ current' = current
        /\ yielding' \in SUBSET Threads
        /\ timer' \in [Threads -> {"none", "sleep", "wait"}]
        /\ irq' \in {"none", "timer", "device"}
        /\ waking' \in [queue : Queues \cup {NoQueue}, reschedule : BOOLEAN, woken : Nat]
    BY <1>1, <1>2 DEF SchedIndInv, TypeOK
  <1> QED BY <1>3, <1>4, <1>5, <1>6, <1>7, StayInv

LEMMA InterruptReturnStep ==
  ASSUME SchedIndInv, interrupt_return
  PROVE  SchedIndInv' /\ SwitchesToHighest
  <1>1. waking = NotWaking /\ irq' = "none" /\ resched' = FALSE
    BY DEF interrupt_return
  <1>2. Tick \in [Threads -> 0 .. InitialQuantum]
    BY TickType
  <1>3. CASE thread_preempt(Tick)
    BY <1>1, <1>2, <1>3, PreemptStep
  <1>4. CASE /\ quantum' = Tick
             /\ UNCHANGED <<state, priority, runvars, current, yielding, waitvars, timer, waking>>
    <2>1. /\ state' = state /\ priority' = priority
          /\ run_queue' = run_queue /\ bitmap' = bitmap /\ current' = current
          /\ yielding' = yielding /\ timer' = timer /\ waking' = waking
          /\ wait_list' = wait_list /\ wait_count' = wait_count
          /\ blocked_on' = blocked_on /\ block_ret' = block_ret
      BY <1>4 DEF runvars, waitvars
    <2>2. /\ RunQueues(run_queue', bitmap', state', priority')
          /\ WaitQueues(wait_list', wait_count', state', blocked_on')
          /\ TimersFor(state', timer')
      BY <2>1 DEF SchedIndInv
    <2>3. OneRunning' /\ WakingShape'
      BY <1>1, <2>1 DEF SchedIndInv, OneRunning, WakingShape
    <2>4. /\ state' \in StateType /\ priority' \in PriorityType
          /\ quantum' \in [Threads -> 0 .. InitialQuantum]
          /\ current' \in Threads \cup {Idle} /\ current' = current
          /\ yielding' \in SUBSET Threads /\ block_ret' \in [Threads -> Status]
          /\ timer' \in [Threads -> {"none", "sleep", "wait"}]
          /\ irq' \in {"none", "timer", "device"} /\ resched' \in BOOLEAN
          /\ waking' \in [queue : Queues \cup {NoQueue}, reschedule : BOOLEAN, woken : Nat]
      BY <1>1, <1>2, <1>4, <2>1 DEF SchedIndInv, TypeOK, StateType, PriorityType
    <2> QED BY <2>2, <2>3, <2>4, StayInv
  <1> QED BY <1>3, <1>4 DEF interrupt_return
-----------------------------------------------------------------------------
LEMMA SchedInit == Init => SchedIndInv
  <1> SUFFICES ASSUME Init PROVE SchedIndInv
    OBVIOUS
  <1>1. PICK boot \in Threads :
          /\ current = boot
          /\ state = [t \in Threads \cup {Idle} |-> CASE t = boot -> "RUNNING"
                                                    [] t = Idle -> "READY"
                                                    [] OTHER    -> "SUSPENDED"]
          /\ quantum = [t \in Threads |-> IF t = boot THEN InitialQuantum ELSE 0]
    BY DEF Init
  <1>2. /\ \A t \in Threads : state[t] = IF t = boot THEN "RUNNING" ELSE "SUSPENDED"
        /\ state[Idle] = "READY"
        /\ state \in StateType
    BY <1>1, SchedAssumption DEF StateType, ThreadState
  <1>3. quantum \in [Threads -> 0 .. InitialQuantum]
    BY <1>1, SchedAssumption
  <1>4. /\ waking \in [queue : Queues \cup {NoQueue}, reschedule : BOOLEAN, woken : Nat]
        /\ WakingShape
    BY DEF Init, NotWaking, WakingShape
  <1>5. TypeOK
    <2>1. /\ run_queue = [p \in Priorities |-> <<>>] /\ priority = [t \in Threads |-> DEFAULT_PRIORITY]
          /\ wait_list = [q \in Queues |-> <<>>] /\ wait_count = [q \in Queues |-> 0]
          /\ blocked_on = [t \in Threads |-> NoQueue] /\ block_ret = [t \in Threads |-> "NO_ERROR"]
          /\ timer = [t \in Threads |-> "none"]
          /\ bitmap = {} /\ yielding = {} /\ irq = "none" /\ resched = FALSE
      BY DEF Init
    <2>2. <<>> \in Seq(Threads)
      OBVIOUS
    <2>3. run_queue \in [Priorities -> Seq(Threads)] /\ wait_list \in [Queues -> Seq(Threads)]
      BY <2>1, <2>2
    <2>4. /\ priority \in [Threads -> Priorities \ {IDLE_PRIORITY}]
          /\ wait_count \in [Queues -> Nat] /\ blocked_on \in [Threads -> Queues \cup {NoQueue}]
          /\ block_ret \in [Threads -> Status] /\ timer \in [Threads -> {"none", "sleep", "wait"}]
      BY <2>1, SchedAssumption DEF Status
    <2>5. bitmap \in SUBSET Priorities /\ yielding \in SUBSET Threads
          /\ irq \in {"none", "timer", "device"} /\ resched \in BOOLEAN
      BY <2>1
    <2> QED BY <1>1, <1>2, <1>3, <1>4, <2>3, <2>4, <2>5 DEF TypeOK, StateType
  <1>6. RunQueues(run_queue, bitmap, state, priority)
    <2>1. \A p \in Priorities : ReadyAt(state, priority, p) = {}
      BY <1>2 DEF ReadyAt
    <2>2. Lists(<<>>, {})
      BY DEF Lists
    <2>3. \A p \in Priorities : run_queue[p] = <<>> /\ p \notin bitmap
      BY DEF Init
    <2> QED BY <1>5, <2>1, <2>2, <2>3 DEF TypeOK, RunQueues
  <1>7. WaitQueues(wait_list, wait_count, state, blocked_on)
    <2>1. \A q \in Queues : BlockedOn(state, blocked_on, q) = {}
      BY <1>2 DEF BlockedOn
    <2>2. Lists(<<>>, {})
      BY DEF Lists
    <2>3. /\ \A q \in Queues : wait_list[q] = <<>> /\ wait_count[q] = Len(wait_list[q])
          /\ \A t \in Threads : blocked_on[t] = NoQueue
      BY DEF Init
    <2> QED BY <1>2, <1>5, <2>1, <2>2, <2>3 DEF TypeOK, WaitQueues
  <1>8. OneRunning
    BY <1>1, <1>2, SchedAssumption DEF OneRunning, Init
  <1>9. TimersFor(state, timer)
    BY <1>2 DEF Init, TimersFor
  <1> QED BY <1>4, <1>5, <1>6, <1>7, <1>8, <1>9 DEF SchedIndInv

(* Every step keeps the invariant, and switches to the highest priority.   *)
LEMMA SchedStep == SchedIndInv /\ [Next]_vars => SchedIndInv' /\ SwitchesToHighest
  <1> SUFFICES ASSUME SchedIndInv, [Next]_vars PROVE SchedIndInv' /\ SwitchesToHighest
    OBVIOUS
  <1>1. ASSUME NEW t \in Threads, ThreadStep(t) PROVE SchedIndInv' /\ SwitchesToHighest
    <2>1. CASE \E s \in Threads : thread_resume(t, s)
      BY <2>1, ResumeStep
    <2>2. CASE thread_yield(t)
      BY <2>2, YieldStep
    <2>3. CASE thread_sleep(t) \/ thread_exit(t)
      BY <2>3, StopStep
    <2>4. CASE \E p \in SettablePriorities : thread_set_priority(t, p)
      BY <2>4, SetPriorityStep
    <2>5. ASSUME NEW q \in Queues, NEW timeout \in {"finite", "infinite"},
                 wait_queue_block(t, q, timeout)
          PROVE  SchedIndInv' /\ SwitchesToHighest
      BY <2>5, BlockStep
    <2>6. ASSUME NEW q \in Queues, NEW reschedule \in BOOLEAN, wait_queue_wake_one(t, q, reschedule)
          PROVE  SchedIndInv' /\ SwitchesToHighest
      <3>1. CASE reschedule = TRUE
        BY <2>6, <3>1, WakeOneSwitchStep
      <3>2. CASE reschedule = FALSE
        BY <2>6, <3>2, WakeOneStayStep
      <3> QED BY <3>1, <3>2
    <2>7. ASSUME NEW q \in Queues, NEW reschedule \in BOOLEAN, wait_queue_wake_all(t, q, reschedule)
          PROVE  SchedIndInv' /\ SwitchesToHighest
      BY <2>7, WakeAllStep
    <2> QED BY <1>1, <2>1, <2>2, <2>3, <2>4, <2>5, <2>6, <2>7 DEF ThreadStep
  <1>2. CASE InterruptStep
    BY <1>2, InterruptEntryStep, SleepHandlerStep, TimeoutHandlerStep, InterruptReturnStep
       DEF InterruptStep
  <1>3. CASE UNCHANGED vars
    BY <1>3 DEF vars, runvars, waitvars, SchedIndInv, TypeOK, RunQueues, ReadyAt, WaitQueues,
                BlockedOn, OneRunning, TimersFor, WakingShape, SwitchesToHighest
  <1> QED BY <1>1, <1>2, <1>3, WakeAllIterationStep, WakeAllEndStep DEF Next

(* kernel/thread.c, for any threads, wait queues and priorities: at every  *)
(* release of THREAD_LOCK a READY thread is in the one run queue of its    *)
(* priority, a BLOCKED one in the wait queue it points to, nobody is in    *)
(* two lists through its one queue_node, bitmap and counts are exact, one  *)
(* thread runs, and every timer belongs to a thread that sleeps or waits.  *)
THEOREM SchedulerConsistent == Spec => []SchedInv
  <1>1. Init => SchedIndInv
    BY SchedInit
  <1>2. SchedIndInv /\ [Next]_vars => SchedIndInv'
    BY SchedStep
  <1> QED BY <1>1, <1>2, SchedIndInvImplies, PTL DEF Spec

(* Every context switch, by whichever of the eight ways into               *)
(* thread_resched, is to a thread of the highest READY priority.           *)
THEOREM SwitchesToHighestPriority == Spec => DispatchesHighest
  <1>1. Init => SchedIndInv
    BY SchedInit
  <1>2. SchedIndInv /\ [Next]_vars => SchedIndInv'
    BY SchedStep
  <1>3. SchedIndInv /\ [Next]_vars => [current' # current =>
           \A t \in Threads : state'[t] = "READY" =>
              current' # Idle /\ priority'[t] <= priority'[current']]_vars
    BY SchedStep DEF SwitchesToHighest
  <1> QED BY <1>1, <1>2, <1>3, PTL DEF Spec, DispatchesHighest
-----------------------------------------------------------------------------
(* The mutex on this scheduler. *)

(* The threads of the composition block on the mutex only, and a queued    *)
(* wait timer is one that module Mutex knows of.                           *)
MutexUses ==
  /\ \A t \in Threads : blocked_on[t] \in {MutexQueue, NoQueue}
  /\ \A t \in Threads : timer[t] = "wait" => t \in armed

(* The inductive invariant of the composition. *)
OnSchedInv == SchedIndInv /\ MutexUses

(* Apart from the mutex's own fields, a step is one of the scheduler's. *)
LEMMA MutexStepIsSchedStep ==
  ASSUME [MutexNext]_allvars
  PROVE  [Next]_vars
  <1>1. ASSUME NEW t \in Threads, mutex_acquire_returns(t) PROVE UNCHANGED vars
    BY <1>1 DEF mutex_acquire_returns
  <1>2. ASSUME NEW t \in Threads, NEW timeout \in TimeoutsUsed, mutex_acquire_timeout(t, timeout)
        PROVE  [Next]_vars
    <2>1. CASE UNCHANGED vars
      BY <2>1
    <2>2. CASE timeout # "zero" /\ wait_queue_block(t, MutexQueue, timeout)
      <3>1. timeout \in {"finite", "infinite"} /\ MutexQueue \in Queues
        BY <2>2, MutexOnSchedAssumption
      <3> QED BY <2>2, <3>1 DEF Next, ThreadStep
    <2> QED BY <1>2, <2>1, <2>2 DEF mutex_acquire_timeout
  <1>3. ASSUME NEW t \in Threads, mutex_release(t) PROVE [Next]_vars
    <2>1. UNCHANGED vars \/ wait_queue_wake_one(t, MutexQueue, TRUE)
      BY <1>3 DEF mutex_release
    <2>2. MutexQueue \in Queues /\ TRUE \in BOOLEAN
      BY MutexOnSchedAssumption
    <2> QED BY <2>1, <2>2 DEF Next, ThreadStep
  <1>4. ASSUME NEW t \in Threads, OtherStep(t) PROVE Next
    BY <1>4 DEF OtherStep, Next, ThreadStep
  <1>5. CASE Interrupt
    BY <1>5 DEF Interrupt, Next, InterruptStep
  <1>6. CASE UNCHANGED allvars
    BY <1>6 DEF allvars
  <1> QED BY <1>1, <1>2, <1>3, <1>4, <1>5, <1>6 DEF MutexNext

(* thread_resched sets no timer. *)
LEMMA ReschedArmsNobody ==
  ASSUME NEW rq, NEW bm, NEW st, NEW qu, NEW tm, thread_resched(rq, bm, st, qu, tm),
         DOMAIN tm = Threads
  PROVE  \A t \in Threads : timer'[t] = "wait" => tm[t] = "wait"
  <1>1. timer' = tm \/ timer' = [tm EXCEPT ![get_top_thread(rq, bm)] = "none"]
    BY DEF thread_resched
  <1> QED BY <1>1

(* What an allowed step does to the queue, the states and the timers of    *)
(* module Mutex if it leaves the wait queues alone.                        *)
LEMMA QueuesLeftAlone ==
  ASSUME OnSchedInv, SchedIndInv', UNCHANGED waitvars,
         \A t \in Threads : timer'[t] = "wait" => timer[t] = "wait",
         armed \subseteq armed'
  PROVE  /\ MutexUses'
         /\ \A t \in Threads : state'[t] = "BLOCKED" <=> state[t] = "BLOCKED"
  <1>1. /\ \A t \in Threads : state[t] = "BLOCKED" <=> blocked_on[t] # NoQueue
        /\ \A t \in Threads : state'[t] = "BLOCKED" <=> blocked_on'[t] # NoQueue
        /\ blocked_on' = blocked_on
    BY DEF OnSchedInv, SchedIndInv, WaitQueues, waitvars
  <1> QED BY <1>1 DEF OnSchedInv, MutexUses

(* The thread states as module Mutex sees them. *)
Seen(st) == [t \in Threads |-> IF st[t] = "BLOCKED" THEN "BLOCKED" ELSE "READY"]

LEMMA SeenSame ==
  ASSUME \A t \in Threads : state'[t] = "BLOCKED" <=> state[t] = "BLOCKED"
  PROVE  Seen(state') = Seen(state)
  BY DEF Seen

(* The current thread, between two steps of the kernel, is not BLOCKED. *)
LEMMA ExecutingIsReady ==
  ASSUME OnSchedInv, NEW t \in Threads, Executing(t)
  PROVE  state[t] = "RUNNING" /\ Seen(state)[t] = "READY" /\ timer[t] # "wait"
         /\ blocked_on[t] = NoQueue
  <1>1. state[t] = "RUNNING"
    BY DEF OnSchedInv, SchedIndInv, OneRunning, Executing
  <1> QED BY <1>1 DEF OnSchedInv, SchedIndInv, TimersFor, WaitQueues, Seen

(* Nothing that module Mutex can see has changed. *)
LEMMA MutexStutters ==
  ASSUME UNCHANGED waitvars, UNCHANGED mutexvars,
         \A t \in Threads : state'[t] = "BLOCKED" <=> state[t] = "BLOCKED"
  PROVE  UNCHANGED M!vars
  <1>1. Seen(state') = Seen(state)
    BY SeenSame
  <1> QED BY <1>1 DEF M!vars, M!wqvars, Seen, waitvars, mutexvars

LEMMA AcquireImplements ==
  ASSUME OnSchedInv, SchedIndInv', NEW t \in Threads, NEW timeout \in TimeoutsUsed,
         mutex_acquire_timeout(t, timeout)
  PROVE  MutexUses' /\ M!mutex_acquire_timeout(t, timeout)
  <1>1. CASE /\ count + 1 <= 1 /\ count' = count + 1 /\ holder' = t /\ Goto(t, "hold")
             /\ UNCHANGED <<vars, armed>>
    <2>1. UNCHANGED <<waitvars, state, timer>>
      BY <1>1 DEF vars
    <2>2. MutexUses'
      BY <1>1, <2>1, QueuesLeftAlone DEF waitvars
    <2>3. M!mutex_acquire_timeout(t, timeout)
      BY <1>1, <2>1 DEF mutex_acquire_timeout, Goto, waitvars, M!mutex_acquire_timeout, M!Goto, M!wqvars
    <2> QED BY <2>2, <2>3
  <1>2. CASE /\ count + 1 > 1 /\ timeout # "zero" /\ count' = count + 1
             /\ wait_queue_block(t, MutexQueue, timeout) /\ Goto(t, "block")
             /\ armed' = (IF timeout = "finite" THEN armed \cup {t} ELSE armed)
             /\ UNCHANGED holder
    <2>1. /\ Executing(t) /\ MutexQueue \in Queues /\ NoQueue \notin Queues
          /\ wait_list' = [wait_list EXCEPT ![MutexQueue] = Append(@, t)]
          /\ blocked_on' = [blocked_on EXCEPT ![t] = MutexQueue]
          /\ block_ret' = [block_ret EXCEPT ![t] = "NO_ERROR"]
          /\ thread_resched(run_queue, bitmap, [state EXCEPT ![t] = "BLOCKED"], quantum,
                    [timer EXCEPT ![t] = IF timeout = "finite" THEN "wait" ELSE "none"])
      BY <1>2, MutexOnSchedAssumption, SchedAssumption DEF wait_queue_block, Calls
    <2>2. /\ timer \in [Threads -> {"none", "sleep", "wait"}]
          /\ blocked_on \in [Threads -> Queues \cup {NoQueue}]
          /\ wait_list \in [Queues -> Seq(Threads)]
      BY DEF OnSchedInv, SchedIndInv, TypeOK
    <2>3. \A u \in Threads : timer'[u] = "wait" => u \in armed'
      <3>1. PICK tm : tm = [timer EXCEPT ![t] = IF timeout = "finite" THEN "wait" ELSE "none"]
        OBVIOUS
      <3>2. /\ DOMAIN tm = Threads
            /\ thread_resched(run_queue, bitmap, [state EXCEPT ![t] = "BLOCKED"], quantum, tm)
        BY <2>1, <2>2, <3>1
      <3>3. \A u \in Threads : timer'[u] = "wait" => tm[u] = "wait"
        BY <3>2, ReschedArmsNobody
      <3> QED BY <1>2, <2>2, <3>1, <3>3 DEF OnSchedInv, MutexUses
    <2>4. \A u \in Threads : blocked_on'[u] = IF u = t THEN MutexQueue ELSE blocked_on[u]
      BY <2>1, <2>2
    <2>5. MutexUses'
      BY <2>3, <2>4 DEF OnSchedInv, MutexUses
    <2>6. Seen(state') = [Seen(state) EXCEPT ![t] = "BLOCKED"]
      <3>1. \A u \in Threads : state'[u] = "BLOCKED" <=> u = t \/ state[u] = "BLOCKED"
        BY <2>1, <2>4 DEF OnSchedInv, SchedIndInv, WaitQueues
      <3> QED BY <3>1 DEF Seen
    <2>7. wait_list'[MutexQueue] = Append(wait_list[MutexQueue], t)
      BY <2>1, <2>2
    <2>8. M!wait_queue_block(t, timeout)
      BY <1>2, <2>1, <2>6, <2>7 DEF Seen, M!wait_queue_block, M!NO_ERROR, M!FINITE
    <2>9. M!mutex_acquire_timeout(t, timeout)
      BY <1>2, <2>8 DEF mutex_acquire_timeout, Goto, M!mutex_acquire_timeout, M!Goto, M!ZERO
    <2> QED BY <2>5, <2>9
  <1> QED BY <1>1, <1>2 DEF mutex_acquire_timeout

LEMMA AcquireReturnsImplements ==
  ASSUME OnSchedInv, NEW t \in Threads, mutex_acquire_returns(t)
  PROVE  MutexUses' /\ M!mutex_acquire_returns(t)
  <1>1. Executing(t) /\ at[t] = "block" /\ armed' = armed \ {t} /\ UNCHANGED <<vars, expired>>
    BY DEF mutex_acquire_returns
  <1>2. Seen(state)[t] = "READY" /\ timer[t] # "wait"
    BY <1>1, ExecutingIsReady
  <1>3. UNCHANGED <<waitvars, state, timer>>
    BY <1>1 DEF vars
  <1>4. MutexUses'
    BY <1>1, <1>2, <1>3 DEF OnSchedInv, MutexUses, waitvars
  <1>5. M!wait_queue_block_returns(t)
    BY <1>1, <1>2, <1>3 DEF Seen, waitvars, M!wait_queue_block_returns
  <1>6. M!mutex_acquire_returns(t)
    BY <1>1, <1>5 DEF mutex_acquire_returns, Goto, M!mutex_acquire_returns, M!Goto,
                      M!NO_ERROR, M!ERR_TIMED_OUT
  <1> QED BY <1>4, <1>6

LEMMA ReleaseImplements ==
  ASSUME OnSchedInv, SchedIndInv', NEW t \in Threads, mutex_release(t)
  PROVE  MutexUses' /\ M!mutex_release(t)
  <1>1. /\ at[t] = "hold" /\ holder = t /\ holder' = NoThread /\ count' = count - 1
        /\ Goto(t, "out") /\ UNCHANGED <<expired, armed>>
        /\ IF count - 1 >= 1 /\ wait_list[MutexQueue] # <<>>
           THEN wait_queue_wake_one(t, MutexQueue, TRUE)
           ELSE UNCHANGED vars
    BY DEF mutex_release
  <1>2. CASE ~(count - 1 >= 1 /\ wait_list[MutexQueue] # <<>>)
    <2>1. UNCHANGED <<waitvars, state, timer>>
      BY <1>1, <1>2 DEF vars
    <2>2. MutexUses'
      BY <1>1, <2>1 DEF OnSchedInv, MutexUses, waitvars
    <2>3. M!mutex_release(t)
      BY <1>1, <1>2, <2>1 DEF Goto, waitvars, M!mutex_release, M!Goto, M!wqvars, M!wait_queue_wake_one
    <2> QED BY <2>2, <2>3
  <1>3. CASE count - 1 >= 1 /\ wait_list[MutexQueue] # <<>>
    <2>1. PICK w : w = Head(wait_list[MutexQueue])
      OBVIOUS
    <2>2. /\ timer \in [Threads -> {"none", "sleep", "wait"}]
          /\ blocked_on \in [Threads -> Queues \cup {NoQueue}]
          /\ wait_list \in [Queues -> Seq(Threads)]
          /\ MutexQueue \in Queues /\ NoQueue \notin Queues
      BY MutexOnSchedAssumption, SchedAssumption DEF OnSchedInv, SchedIndInv, TypeOK
    <2>3. w \in Threads
      <3>1. wait_list[MutexQueue] \in Seq(Threads)
        BY <2>2
      <3> QED BY <1>3, <2>1, <3>1
    <2>4. /\ wait_list' = [wait_list EXCEPT ![MutexQueue] = Tail(@)]
          /\ blocked_on' = [blocked_on EXCEPT ![w] = NoQueue]
          /\ block_ret' = [block_ret EXCEPT ![w] = "NO_ERROR"]
      BY <1>1, <1>3, <2>1 DEF wait_queue_wake_one, PopWaiter
    <2>5. \A u \in Threads : timer'[u] = "wait" => timer[u] = "wait"
      <3>1. \E rq, bm, st : thread_resched(rq, bm, st, quantum, timer)
        BY <1>1, <1>3 DEF wait_queue_wake_one
      <3> QED BY <2>2, <3>1, ReschedArmsNobody
    <2>6. \A u \in Threads : blocked_on'[u] = IF u = w THEN NoQueue ELSE blocked_on[u]
      BY <2>2, <2>4
    <2>7. MutexUses'
      BY <1>1, <2>5, <2>6 DEF OnSchedInv, MutexUses
    <2>8. Seen(state') = [Seen(state) EXCEPT ![w] = "READY"]
      <3>1. \A u \in Threads : state'[u] = "BLOCKED" <=> u # w /\ state[u] = "BLOCKED"
        BY <2>6 DEF OnSchedInv, SchedIndInv, WaitQueues
      <3> QED BY <2>3, <3>1 DEF Seen
    <2>9. wait_list'[MutexQueue] = Tail(wait_list[MutexQueue])
      BY <2>2, <2>4
    <2>10. M!wait_queue_wake_one("NO_ERROR")
      BY <1>1, <1>3, <2>1, <2>4, <2>8, <2>9 DEF Seen, M!wait_queue_wake_one
    <2>11. M!mutex_release(t)
      BY <1>1, <1>3, <2>10 DEF Goto, M!mutex_release, M!Goto, M!NO_ERROR
    <2> QED BY <2>7, <2>11
  <1> QED BY <1>2, <1>3

LEMMA TimeoutImplements ==
  ASSUME OnSchedInv, SchedIndInv', NEW t \in Threads, wait_queue_timeout_handler(t),
         armed' = armed \ {t}, expired' = (expired \/ state[t] = "BLOCKED"),
         UNCHANGED <<holder, count, at>>
  PROVE  MutexUses' /\ M!timeout_interrupt(t)
  <1>1. timer[t] = "wait" /\ timer' = [timer EXCEPT ![t] = "none"] /\ t \in armed
    BY DEF wait_queue_timeout_handler, OnSchedInv, MutexUses
  <1>2. /\ timer \in [Threads -> {"none", "sleep", "wait"}]
        /\ blocked_on \in [Threads -> Queues \cup {NoQueue}]
        /\ wait_list \in [Queues -> Seq(Threads)]
        /\ MutexQueue \in Queues /\ NoQueue \notin Queues
    BY MutexOnSchedAssumption, SchedAssumption DEF OnSchedInv, SchedIndInv, TypeOK
  <1>3. \A u \in Threads : timer'[u] = "wait" => u \in armed'
    BY <1>1, <1>2 DEF OnSchedInv, MutexUses
  <1>4. Seen(state)[t] = "BLOCKED" <=> state[t] = "BLOCKED"
    BY DEF Seen
  <1>5. CASE state[t] # "BLOCKED"
    <2>1. UNCHANGED <<state, waitvars>>
      BY <1>5 DEF wait_queue_timeout_handler
    <2>2. MutexUses'
      BY <1>3, <2>1 DEF OnSchedInv, MutexUses, waitvars
    <2>3. M!wait_queue_timeout_handler(t)
      BY <1>1, <1>4, <1>5, <2>1 DEF Seen, waitvars, M!wait_queue_timeout_handler
    <2>4. M!timeout_interrupt(t)
      BY <2>3, <1>5 DEF M!timeout_interrupt
    <2> QED BY <2>2, <2>4
  <1>6. CASE state[t] = "BLOCKED"
    <2>1. blocked_on[t] = MutexQueue
      BY <1>6 DEF OnSchedInv, SchedIndInv, WaitQueues, MutexUses
    <2>2. /\ wait_list' = [wait_list EXCEPT ![MutexQueue] = Without(@, t)]
          /\ blocked_on' = [blocked_on EXCEPT ![t] = NoQueue]
          /\ block_ret' = [block_ret EXCEPT ![t] = "ERR_TIMED_OUT"]
      BY <1>6, <2>1 DEF wait_queue_timeout_handler
    <2>3. \A u \in Threads : blocked_on'[u] = IF u = t THEN NoQueue ELSE blocked_on[u]
      BY <1>2, <2>2
    <2>4. MutexUses'
      BY <1>3, <2>3 DEF OnSchedInv, MutexUses
    <2>5. Seen(state') = [Seen(state) EXCEPT ![t] = "READY"]
      <3>1. \A u \in Threads : state'[u] = "BLOCKED" <=> u # t /\ state[u] = "BLOCKED"
        BY <2>3 DEF OnSchedInv, SchedIndInv, WaitQueues
      <3> QED BY <3>1 DEF Seen
    <2>6. wait_list'[MutexQueue] = M!Without(wait_list[MutexQueue], t)
      BY <1>2, <2>2 DEF Without, M!Without
    <2>7. M!wait_queue_timeout_handler(t)
      BY <1>1, <1>4, <1>6, <2>2, <2>5, <2>6 DEF Seen, M!wait_queue_timeout_handler, M!ERR_TIMED_OUT
    <2>8. M!timeout_interrupt(t)
      BY <2>7, <1>6 DEF M!timeout_interrupt
    <2> QED BY <2>4, <2>8
  <1> QED BY <1>5, <1>6

(* The scheduler's own steps are none of the mutex's. *)
LEMMA OthersStutter ==
  ASSUME OnSchedInv, SchedIndInv', UNCHANGED mutexvars,
         \/ \E t \in Threads : \/ \E s \in Threads : thread_resume(t, s)
                               \/ thread_yield(t)
                               \/ thread_sleep(t)
                               \/ thread_sleep_handler(t)
         \/ timer_interrupt
         \/ interrupt_return
  PROVE  MutexUses' /\ UNCHANGED M!vars
  <1>1. timer \in [Threads -> {"none", "sleep", "wait"}]
    BY DEF OnSchedInv, SchedIndInv, TypeOK
  <1>2. UNCHANGED waitvars
    BY DEF thread_resume, thread_yield, thread_sleep, thread_sleep_handler, timer_interrupt,
           interrupt_return, thread_preempt
  <1>3. \A u \in Threads : timer'[u] = "wait" => timer[u] = "wait"
    <2>1. ASSUME NEW t \in Threads, \/ \E s \in Threads : thread_resume(t, s)
                                    \/ thread_sleep_handler(t)
          PROVE  \A u \in Threads : timer'[u] = "wait" => timer[u] = "wait"
      BY <1>1, <2>1 DEF thread_resume, thread_sleep_handler
    <2>2. ASSUME NEW t \in Threads, thread_yield(t)
          PROVE  \A u \in Threads : timer'[u] = "wait" => timer[u] = "wait"
      BY <1>1, <2>2, ReschedArmsNobody DEF thread_yield
    <2>3. ASSUME NEW t \in Threads, thread_sleep(t)
          PROVE  \A u \in Threads : timer'[u] = "wait" => timer[u] = "wait"
      <3>1. PICK tm : tm = [timer EXCEPT ![t] = "sleep"]
        OBVIOUS
      <3>2. /\ DOMAIN tm = Threads
            /\ thread_resched(run_queue, bitmap, [state EXCEPT ![t] = "SLEEPING"], quantum, tm)
        BY <1>1, <2>3, <3>1 DEF thread_sleep
      <3>3. \A u \in Threads : timer'[u] = "wait" => tm[u] = "wait"
        BY <3>2, ReschedArmsNobody
      <3> QED BY <1>1, <3>1, <3>3
    <2>4. CASE interrupt_return
      <3>1. UNCHANGED timer \/ \E rq, bm, st, qu : thread_resched(rq, bm, st, qu, timer)
        BY <2>4 DEF interrupt_return, thread_preempt
      <3> QED BY <1>1, <3>1, ReschedArmsNobody
    <2>5. CASE timer_interrupt
      BY <2>5 DEF timer_interrupt
    <2> QED BY <2>1, <2>2, <2>3, <2>4, <2>5
  <1>4. armed \subseteq armed'
    BY DEF mutexvars
  <1>5. MutexUses' /\ \A u \in Threads : state'[u] = "BLOCKED" <=> state[u] = "BLOCKED"
    BY <1>2, <1>3, <1>4, QueuesLeftAlone
  <1> QED BY <1>2, <1>5, MutexStutters

LEMMA CompositionStart ==
  ASSUME MutexInit
  PROVE  OnSchedInv /\ M!Init
  <1>1. SchedIndInv
    BY SchedInit DEF MutexInit
  <1>2. MutexUses
    BY DEF MutexUses, MutexInit, Init
  <1>3. \A t \in Threads : state[t] # "BLOCKED"
    BY <1>1 DEF SchedIndInv, WaitQueues, MutexInit, Init
  <1>4. Seen(state) = [t \in Threads |-> "READY"]
    BY <1>3 DEF Seen
  <1>5. wait_list[MutexQueue] = <<>> /\ block_ret = [t \in Threads |-> "NO_ERROR"]
    BY MutexOnSchedAssumption DEF MutexInit, Init
  <1> QED BY <1>1, <1>2, <1>4, <1>5 DEF OnSchedInv, MutexInit, Seen, M!Init, M!WaitQueueInit, M!NO_ERROR

LEMMA CompositionStep ==
  ASSUME OnSchedInv, [MutexNext]_allvars
  PROVE  OnSchedInv' /\ [M!Next]_(M!vars)
  <1>1. SchedIndInv'
    BY MutexStepIsSchedStep, SchedStep DEF OnSchedInv
  <1>2. ASSUME NEW t \in Threads, mutex_acquire_returns(t) PROVE MutexUses' /\ M!Next
    BY <1>2, AcquireReturnsImplements DEF M!Next
  <1>3. ASSUME NEW t \in Threads, NEW timeout \in TimeoutsUsed, mutex_acquire_timeout(t, timeout)
        PROVE  MutexUses' /\ M!Next
    BY <1>1, <1>3, AcquireImplements DEF M!Next
  <1>4. ASSUME NEW t \in Threads, mutex_release(t) PROVE MutexUses' /\ M!Next
    BY <1>1, <1>4, ReleaseImplements DEF M!Next
  <1>5. ASSUME NEW t \in Threads, OtherStep(t) PROVE MutexUses' /\ UNCHANGED M!vars
    BY <1>1, <1>5, OthersStutter DEF OtherStep
  <1>6. CASE Interrupt
    <2>1. ASSUME NEW t \in Threads, wait_queue_timeout_handler(t), armed' = armed \ {t},
                 expired' = (expired \/ state[t] = "BLOCKED"), UNCHANGED <<holder, count, at>>
          PROVE  MutexUses' /\ M!Next
      BY <1>1, <2>1, TimeoutImplements DEF M!Next
    <2>2. CASE (timer_interrupt \/ interrupt_return) /\ UNCHANGED mutexvars
      BY <1>1, <2>2, OthersStutter DEF OnSchedInv
    <2>3. ASSUME NEW t \in Threads, thread_sleep_handler(t), UNCHANGED mutexvars
          PROVE  MutexUses' /\ UNCHANGED M!vars
      BY <1>1, <2>3, OthersStutter
    <2> QED BY <1>1, <1>6, <2>1, <2>2, <2>3 DEF Interrupt, OnSchedInv
  <1>7. CASE UNCHANGED allvars
    <2>1. UNCHANGED vars /\ UNCHANGED mutexvars
      BY <1>7 DEF allvars
    <2>2. UNCHANGED <<waitvars, state, timer>>
      BY <2>1 DEF vars
    <2>3. MutexUses'
      BY <2>1, <2>2 DEF OnSchedInv, MutexUses, waitvars, mutexvars
    <2>4. UNCHANGED waitvars /\ state' = state
      BY <2>2
    <2> QED BY <1>1, <2>1, <2>3, <2>4, MutexStutters DEF OnSchedInv
  <1> QED BY <1>1, <1>2, <1>3, <1>4, <1>5, <1>6, <1>7 DEF MutexNext, OnSchedInv

(* mutex.c on thread.c, for any threads, priorities and timeouts: whatever *)
(* the run queues, the timer interrupts and thread_resched do, acquire,    *)
(* release and timeout are the steps of module Mutex, so that exclusion,   *)
(* exact count and final grants hold on the real scheduler.                *)
THEOREM SchedulerServesMutex == MutexSpec => ImplementsMutex
  <1>1. MutexInit => OnSchedInv /\ M!Init
    BY CompositionStart
  <1>2. OnSchedInv /\ [MutexNext]_allvars => OnSchedInv' /\ [M!Next]_(M!vars)
    BY CompositionStep
  <1> QED BY <1>1, <1>2, PTL DEF MutexSpec, ImplementsMutex, M!Spec
=============================================================================
