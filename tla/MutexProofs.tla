----------------------------- MODULE MutexProofs -----------------------------
(***************************************************************************)
(* What each wait queue operation does to the types and to the agreement   *)
(* between the queue and the states of the threads, stated on the          *)
(* operations for the proofs of the objects that are built on them; and    *)
(* proofs about the first of these, kernel/mutex.c, for any finite set of  *)
(* threads, any timeouts and any interleaving of acquire, release, destroy *)
(* and timer interrupts.                                                   *)
(***************************************************************************)
EXTENDS Mutex, FiniteSetTheorems, TLAPS

(* The invariant that every operation preserves. *)
WaitQueueInv == WaitQueueTypeOK /\ QueueMatchesState

(* No thread is in an empty queue, and the threads of a queue are those at *)
(* its positions.                                                          *)
LEMMA WaitingPositions ==
  ASSUME WaitQueueTypeOK
  PROVE  /\ Waiting \subseteq Threads
         /\ \A t : t \in Waiting <=> \E k \in 1 .. Len(wait) : wait[k] = t
         /\ wait = <<>> <=> Waiting = {}
  <1>1. wait \in Seq(Threads) /\ DOMAIN wait = 1 .. Len(wait) /\ Len(wait) \in Nat
    BY DEF WaitQueueTypeOK
  <1>2. \A t : t \in Waiting <=> \E k \in 1 .. Len(wait) : wait[k] = t
    BY <1>1 DEF Waiting
  <1>3. Waiting \subseteq Threads
    BY <1>1, <1>2
  <1>4. ASSUME wait # <<>> PROVE wait[1] \in Waiting
    <2>1. Len(wait) >= 1
      BY <1>1, <1>4
    <2> QED BY <1>1, <1>2, <2>1
  <1>5. ASSUME wait = <<>> PROVE Waiting = {}
    BY <1>2, <1>5
  <1> QED BY <1>2, <1>3, <1>4, <1>5

(* The head of a queue that is not empty is in the queue. *)
LEMMA HeadIsWaiting ==
  ASSUME WaitQueueTypeOK, wait # <<>>
  PROVE  Head(wait) \in Waiting
  BY DEF WaitQueueTypeOK, Waiting

(* Appending a thread that is not queued keeps the positions of the        *)
(* others.                                                                 *)
LEMMA BlockPreserves ==
  ASSUME WaitQueueInv, NEW t \in Threads, tstate[t] = "READY",
         NEW timeout, wait_queue_block(t, timeout)
  PROVE  WaitQueueInv' /\ Waiting' = Waiting \cup {t}
  <1> USE DEF WaitQueueInv
  <1>1. WaitQueueTypeOK'
    BY DEF WaitQueueTypeOK, wait_queue_block, Status, NO_ERROR
  <1>2. /\ Len(wait') = Len(wait) + 1
        /\ \A k \in 1 .. Len(wait) : wait'[k] = wait[k]
        /\ wait'[Len(wait) + 1] = t
    BY DEF WaitQueueTypeOK, wait_queue_block
  <1>3. \A u : u \in Waiting' <=> u \in Waiting \/ u = t
    <2>1. DOMAIN wait = 1 .. Len(wait) /\ DOMAIN wait' = 1 .. Len(wait) + 1 /\ Len(wait) \in Nat
      BY <1>1, <1>2 DEF WaitQueueTypeOK
    <2>2. \A u : u \in Waiting \/ u = t => u \in Waiting'
      BY <1>2, <2>1 DEF Waiting
    <2>3. \A u : u \in Waiting' => u \in Waiting \/ u = t
      <3> SUFFICES ASSUME NEW k \in 1 .. Len(wait) + 1 PROVE wait'[k] \in Waiting \/ wait'[k] = t
        BY <2>1 DEF Waiting
      <3> QED BY <1>2, <2>1 DEF Waiting
    <2> QED BY <2>2, <2>3
  <1>4. t \notin Waiting
    BY DEF QueueMatchesState
  <1>5. \A j, k \in DOMAIN wait' : wait'[j] = wait'[k] => j = k
    BY <1>1, <1>2, <1>4 DEF QueueMatchesState, WaitQueueTypeOK, Waiting
  <1>6. \A u \in Threads : tstate'[u] = "BLOCKED" <=> u \in Waiting'
    BY <1>3 DEF QueueMatchesState, WaitQueueTypeOK, wait_queue_block
  <1> QED BY <1>1, <1>3, <1>5, <1>6 DEF QueueMatchesState

(* Waking the head removes that thread and no other. *)
LEMMA WakeOnePreserves ==
  ASSUME WaitQueueInv, NEW ret \in Status, wait_queue_wake_one(ret), wait # <<>>
  PROVE  /\ WaitQueueInv'
         /\ Head(wait) \in Waiting
         /\ Waiting' = Waiting \ {Head(wait)}
  <1> USE DEF WaitQueueInv
  <1>1. /\ Len(wait) >= 1
        /\ Head(wait) = wait[1]
        /\ wait' = Tail(wait)
    BY DEF WaitQueueTypeOK, wait_queue_wake_one
  <1>2. /\ wait' \in Seq(Threads)
        /\ Len(wait') = Len(wait) - 1
        /\ \A k \in 1 .. Len(wait') : wait'[k] = wait[k + 1]
    BY <1>1 DEF WaitQueueTypeOK
  <1>3. WaitQueueTypeOK'
    BY <1>1, <1>2 DEF WaitQueueTypeOK, wait_queue_wake_one
  <1>4. Head(wait) \in Waiting /\ Head(wait) \in Threads
    BY <1>1 DEF WaitQueueTypeOK, Waiting
  <1>5. \A u : u \in Waiting' => u \in Waiting /\ u # Head(wait)
    <2> SUFFICES ASSUME NEW u \in Waiting'
                 PROVE  u \in Waiting /\ u # Head(wait)
      OBVIOUS
    <2>1. PICK k \in 1 .. Len(wait') : wait'[k] = u
      BY <1>2 DEF Waiting
    <2>2. k + 1 \in DOMAIN wait /\ 1 \in DOMAIN wait /\ wait[k + 1] = u
      BY <1>1, <1>2, <2>1 DEF WaitQueueTypeOK
    <2> QED BY <1>1, <2>2 DEF QueueMatchesState, WaitQueueTypeOK, Waiting
  <1>6. \A u : u \in Waiting /\ u # Head(wait) => u \in Waiting'
    <2> SUFFICES ASSUME NEW u \in Waiting, u # Head(wait)
                 PROVE  u \in Waiting'
      OBVIOUS
    <2>1. PICK k \in 1 .. Len(wait) : wait[k] = u
      BY DEF Waiting, WaitQueueTypeOK
    <2>2. k - 1 \in 1 .. Len(wait') /\ wait'[k - 1] = u
      BY <1>1, <1>2, <2>1 DEF WaitQueueTypeOK
    <2> QED BY <1>2, <2>2 DEF Waiting
  <1>7. \A j, k \in DOMAIN wait' : wait'[j] = wait'[k] => j = k
    <2> SUFFICES ASSUME NEW j \in DOMAIN wait', NEW k \in DOMAIN wait',
                        wait'[j] = wait'[k]
                 PROVE  j = k
      OBVIOUS
    <2>1. j \in 1 .. Len(wait') /\ k \in 1 .. Len(wait')
      BY <1>2
    <2>2. j + 1 \in DOMAIN wait /\ k + 1 \in DOMAIN wait /\ wait[j + 1] = wait[k + 1]
      BY <1>1, <1>2, <2>1 DEF WaitQueueTypeOK
    <2>3. j + 1 = k + 1
      BY <2>2 DEF QueueMatchesState
    <2> QED BY <2>1, <2>3
  <1>8. \A u \in Threads : tstate'[u] = "BLOCKED" <=> u \in Waiting'
    BY <1>4, <1>5, <1>6 DEF QueueMatchesState, WaitQueueTypeOK, wait_queue_wake_one
  <1> QED BY <1>3, <1>4, <1>5, <1>6, <1>7, <1>8 DEF QueueMatchesState

(* Waking everybody leaves nobody BLOCKED. *)
LEMMA WakeAllPreserves ==
  ASSUME WaitQueueInv, NEW ret \in Status, wait_queue_wake_all(ret)
  PROVE  WaitQueueInv' /\ Waiting' = {}
  <1>1. WaitQueueTypeOK'
    BY DEF WaitQueueInv, WaitQueueTypeOK, wait_queue_wake_all
  <1>2. wait' = <<>> /\ Waiting' = {}
    BY DEF wait_queue_wake_all, Waiting
  <1>3. \A u \in Threads : tstate'[u] # "BLOCKED"
    BY DEF WaitQueueInv, QueueMatchesState, WaitQueueTypeOK, wait_queue_wake_all
  <1> QED BY <1>1, <1>2, <1>3 DEF WaitQueueInv, QueueMatchesState

(* A timeout removes the BLOCKED thread it is for, from wherever it is in  *)
(* the queue, and the order of the others does not matter to the           *)
(* invariant.                                                              *)
LEMMA TimeoutPreserves ==
  ASSUME WaitQueueInv, NEW t \in Threads, wait_queue_timeout_handler(t),
         tstate[t] = "BLOCKED"
  PROVE  WaitQueueInv' /\ Waiting' = Waiting \ {t}
  <1> USE DEF WaitQueueInv
  <1> DEFINE pos == CHOOSE k \in DOMAIN wait : wait[k] = t
  <1>1. pos \in 1 .. Len(wait) /\ wait[pos] = t
    BY DEF QueueMatchesState, WaitQueueTypeOK, Waiting
  <1>2. wait' = [j \in 1 .. Len(wait) - 1 |-> IF j < pos THEN wait[j] ELSE wait[j + 1]]
    BY DEF wait_queue_timeout_handler, Without
  <1> HIDE DEF pos
  <1>3. /\ wait' \in Seq(Threads)
        /\ Len(wait') = Len(wait) - 1
        /\ DOMAIN wait' = 1 .. Len(wait) - 1
    <2>1. \A j \in 1 .. Len(wait) - 1 : wait'[j] \in Threads
      BY <1>1, <1>2 DEF WaitQueueTypeOK
    <2>2. Len(wait) - 1 \in Nat
      BY <1>1 DEF WaitQueueTypeOK
    <2> QED BY <1>2, <2>1, <2>2
  <1>4. WaitQueueTypeOK'
    BY <1>3 DEF WaitQueueTypeOK, wait_queue_timeout_handler, Status, ERR_TIMED_OUT
  <1>5. \A u : u \in Waiting' => u \in Waiting /\ u # t
    <2> SUFFICES ASSUME NEW u \in Waiting'
                 PROVE  u \in Waiting /\ u # t
      OBVIOUS
    <2>1. PICK j \in 1 .. Len(wait) - 1 : wait'[j] = u
      BY <1>3 DEF Waiting
    <2>2. PICK k \in 1 .. Len(wait) : k # pos /\ wait[k] = u
      BY <1>1, <1>2, <2>1 DEF WaitQueueTypeOK
    <2> QED BY <1>1, <2>2 DEF QueueMatchesState, WaitQueueTypeOK, Waiting
  <1>6. \A u : u \in Waiting /\ u # t => u \in Waiting'
    <2> SUFFICES ASSUME NEW u \in Waiting, u # t
                 PROVE  u \in Waiting'
      OBVIOUS
    <2>1. PICK k \in 1 .. Len(wait) : wait[k] = u
      BY DEF Waiting, WaitQueueTypeOK
    <2>2. k # pos
      BY <1>1, <2>1
    <2>3. CASE k < pos
      <3>1. k \in 1 .. Len(wait) - 1 /\ wait'[k] = u
        BY <1>1, <1>2, <2>1, <2>3 DEF WaitQueueTypeOK
      <3> QED BY <1>3, <3>1 DEF Waiting
    <2>4. CASE k > pos
      <3>1. k - 1 \in 1 .. Len(wait) - 1 /\ wait'[k - 1] = u
        BY <1>1, <1>2, <2>1, <2>4 DEF WaitQueueTypeOK
      <3> QED BY <1>3, <3>1 DEF Waiting
    <2> QED BY <1>1, <2>1, <2>2, <2>3, <2>4 DEF WaitQueueTypeOK
  <1>7. \A j, k \in DOMAIN wait' : wait'[j] = wait'[k] => j = k
    <2> SUFFICES ASSUME NEW j \in 1 .. Len(wait) - 1, NEW k \in 1 .. Len(wait) - 1,
                        wait'[j] = wait'[k]
                 PROVE  j = k
      BY <1>3
    <2> DEFINE J == IF j < pos THEN j ELSE j + 1
               K == IF k < pos THEN k ELSE k + 1
    <2>1. /\ J \in DOMAIN wait /\ K \in DOMAIN wait
          /\ wait[J] = wait'[j] /\ wait[K] = wait'[k]
      BY <1>1, <1>2 DEF WaitQueueTypeOK
    <2>2. J = K
      BY <2>1 DEF QueueMatchesState
    <2> QED BY <1>1, <2>2 DEF WaitQueueTypeOK
  <1>8. \A u \in Threads : tstate'[u] = "BLOCKED" <=> u \in Waiting'
    BY <1>5, <1>6 DEF QueueMatchesState, WaitQueueTypeOK, wait_queue_timeout_handler
  <1> QED BY <1>4, <1>5, <1>6, <1>7, <1>8 DEF QueueMatchesState

(* Nobody waits on an object that has not been created. *)
LEMMA InitialQueue ==
  ASSUME WaitQueueInit
  PROVE  WaitQueueInv /\ Waiting = {}
  <1>1. WaitQueueTypeOK
    BY DEF WaitQueueInit, WaitQueueTypeOK, Status, NO_ERROR
  <1>2. Waiting = {}
    BY DEF WaitQueueInit, Waiting
  <1>3. QueueMatchesState
    BY <1>2 DEF WaitQueueInit, QueueMatchesState
  <1> QED BY <1>1, <1>2, <1>3 DEF WaitQueueInv

(* A step that leaves the queue alone, or only changes the set of timers,  *)
(* keeps the queue's invariant and the threads in it.                      *)
LEMMA QueueUntouched ==
  ASSUME WaitQueueInv, UNCHANGED <<wait, tstate, block_ret>>, timer' \in SUBSET Threads
  PROVE  WaitQueueInv' /\ Waiting' = Waiting
  BY DEF WaitQueueInv, WaitQueueTypeOK, QueueMatchesState, Waiting
-----------------------------------------------------------------------------
(* The mutex. *)

(* The threads that count stands for are finite in number; adding or       *)
(* removing one changes their number by one.                               *)
LEMMA UsersFinite ==
  /\ IsFiniteSet(Users)
  /\ Cardinality(Users) \in Nat
  /\ Cardinality(Users) = 0 <=> Users = {}
  /\ \A t \in Threads \ Users : Cardinality(Users \cup {t}) = Cardinality(Users) + 1
  /\ \A t \in Users : Cardinality(Users \ {t}) = Cardinality(Users) - 1
  <1>1. IsFiniteSet(Users)
    BY MutexAssumption, FS_Subset DEF Users
  <1>2. \A t : t \notin Users => Cardinality(Users \cup {t}) = Cardinality(Users) + 1
    BY <1>1, FS_AddElement
  <1>3. \A t \in Users : Cardinality(Users \ {t}) = Cardinality(Users) - 1
    BY <1>1, FS_RemoveElement
  <1> QED BY <1>1, <1>2, <1>3, FS_EmptySet, FS_CardinalityType

(* The initial state. *)
LEMMA InitInv == Init => MutexInv
  <1> SUFFICES ASSUME Init PROVE MutexInv
    OBVIOUS
  <1> USE DEF Init, WaitQueueInit
  <1>1. TypeOK
    <2>1. magic \in BOOLEAN /\ expired \in BOOLEAN
      OBVIOUS
    <2>2. WaitQueueTypeOK
      BY DEF WaitQueueTypeOK, Status, NO_ERROR
    <2> QED BY <2>1, <2>2 DEF TypeOK
  <1>2. Waiting = {}
    BY DEF Waiting
  <1>3. QueueMatchesState /\ BlockedInAcquire
    BY <1>2 DEF QueueMatchesState, BlockedInAcquire
  <1>4. MutualExclusion
    BY DEF MutualExclusion, Owns, Granted
  <1>5. Users = {}
    BY DEF Users
  <1>6. CountIsUsers
    BY <1>5, FS_EmptySet DEF CountIsUsers
  <1> QED BY <1>1, <1>3, <1>4, <1>6 DEF MutexInv

(* mutex_acquire_timeout: the fast path runs only when nobody uses the     *)
(* mutex, because count says so; the slow path adds a thread that does not *)
(* own it.                                                                 *)
LEMMA AcquireInv ==
  ASSUME MutexInv, NEW t \in Threads, NEW timeout \in TimeoutsUsed,
         mutex_acquire_timeout(t, timeout)
  PROVE  MutexInv'
  <1> USE DEF MutexInv
  <1>0. magic /\ pc[t] = "out" /\ magic' = magic /\ tstate[t] = "READY" /\ WaitQueueInv
        /\ count = Cardinality(Users) /\ UNCHANGED expired
    BY DEF mutex_acquire_timeout, BlockedInAcquire, TypeOK, WaitQueueTypeOK,
           WaitQueueInv, CountIsUsers
  <1>1. CASE /\ count + 1 <= 1 /\ count' = count + 1 /\ holder' = t
             /\ Goto(t, "hold") /\ UNCHANGED wqvars
    <2>1. Users = {}
      BY <1>0, <1>1, UsersFinite
    <2>2. \A u \in Threads : ~Owns(u)
      BY <2>1 DEF Owns, Granted, Users
    <2>3. TypeOK'
      BY <1>0, <1>1 DEF TypeOK, WaitQueueTypeOK, wqvars, Goto
    <2>4. Waiting' = Waiting /\ QueueMatchesState'
      BY <1>1 DEF wqvars, QueueMatchesState, Waiting
    <2>5. BlockedInAcquire'
      BY <1>0, <1>1 DEF BlockedInAcquire, TypeOK, wqvars, Goto, ERR_OBJECT_DESTROYED
    <2>6. MutualExclusion'
      BY <1>1, <2>2 DEF MutualExclusion, Owns, Granted, TypeOK, wqvars, Goto
    <2>7. Users' = Users \cup {t} /\ t \notin Users
      BY <1>0, <1>1 DEF Users, TypeOK, Goto
    <2>8. CountIsUsers'
      BY <1>0, <1>1, <2>7, UsersFinite DEF CountIsUsers
    <2> QED BY <2>3, <2>4, <2>5, <2>6, <2>8
  <1>2. CASE /\ count + 1 > 1 /\ count' = count + 1 /\ wait_queue_block(t, timeout)
             /\ Goto(t, "block") /\ UNCHANGED holder
    <2>1. WaitQueueInv' /\ Waiting' = Waiting \cup {t}
      BY <1>0, <1>2, BlockPreserves
    <2>2. TypeOK'
      BY <1>0, <1>2, <2>1 DEF TypeOK, WaitQueueInv, Goto
    <2>3. BlockedInAcquire'
      BY <1>0, <1>2 DEF BlockedInAcquire, TypeOK, WaitQueueTypeOK, wait_queue_block, Goto,
                        NO_ERROR, ERR_OBJECT_DESTROYED
    <2>4. \A u \in Threads : Owns(u)' <=> Owns(u) /\ u # t
      BY <1>0, <1>2 DEF Owns, Granted, TypeOK, WaitQueueTypeOK, wait_queue_block, Goto
    <2>5. MutualExclusion'
      BY <1>0, <1>2, <2>4 DEF MutualExclusion, TypeOK, Goto
    <2>6. Users' = Users \cup {t} /\ t \notin Users
      BY <1>0, <1>2 DEF Users, TypeOK, Goto
    <2>7. CountIsUsers'
      BY <1>0, <1>2, <2>6, UsersFinite DEF CountIsUsers
    <2> QED BY <2>1, <2>2, <2>3, <2>5, <2>7 DEF WaitQueueInv
  <1>3. CASE UNCHANGED <<count, holder, pc, wqvars>>
    BY <1>0, <1>3 DEF TypeOK, WaitQueueTypeOK, QueueMatchesState, Waiting, BlockedInAcquire,
                      MutualExclusion, Owns, Granted, CountIsUsers, Users, wqvars
  <1> QED BY <1>1, <1>2, <1>3 DEF mutex_acquire_timeout

(* The return from wait_queue_block: a granted thread keeps what it owns,  *)
(* a timed-out thread takes its own increment back.                        *)
LEMMA AcquireReturnsInv ==
  ASSUME MutexInv, NEW t \in Threads, mutex_acquire_returns(t)
  PROVE  MutexInv'
  <1> USE DEF MutexInv
  <1>0. /\ pc[t] = "block" /\ tstate[t] = "READY" /\ UNCHANGED <<magic, wait, tstate, block_ret>>
        /\ timer' = timer \ {t} /\ UNCHANGED expired
    BY DEF mutex_acquire_returns, wait_queue_block_returns
  <1>1. WaitQueueTypeOK' /\ QueueMatchesState'
    BY <1>0 DEF TypeOK, WaitQueueTypeOK, QueueMatchesState, Waiting
  <1>2. t \in Users /\ Cardinality(Users) \in Nat
    BY <1>0, UsersFinite DEF Users
  <1>3. CASE block_ret[t] = NO_ERROR /\ holder' = t /\ Goto(t, "hold") /\ UNCHANGED count
    <2>1. Granted(t)
      BY <1>0, <1>3 DEF Granted
    <2>2. \A u \in Threads : Owns(u)' <=> u = t
      BY <1>0, <1>3, <2>1 DEF MutualExclusion, Owns, Granted, TypeOK, Goto
    <2>3. TypeOK'
      BY <1>0, <1>1, <1>3 DEF TypeOK, Goto
    <2>4. MutualExclusion'
      BY <1>3, <2>2 DEF MutualExclusion, Owns
    <2>5. BlockedInAcquire'
      BY <1>0, <1>3 DEF BlockedInAcquire, TypeOK, Goto
    <2>6. Users' = Users
      BY <1>0, <1>3 DEF Users, TypeOK, Goto
    <2>7. CountIsUsers'
      BY <1>0, <1>3, <2>6 DEF CountIsUsers
    <2> QED BY <1>1, <2>3, <2>4, <2>5, <2>7
  <1>4. CASE /\ block_ret[t] \in {ERR_TIMED_OUT, ERR_OBJECT_DESTROYED}
             /\ Goto(t, "out") /\ UNCHANGED holder
             /\ IF block_ret[t] = ERR_TIMED_OUT THEN count' = count - 1 ELSE UNCHANGED count
    <2>1. ~Owns(t)
      BY <1>0, <1>4 DEF Owns, Granted, NO_ERROR, ERR_TIMED_OUT, ERR_OBJECT_DESTROYED
    <2>2. \A u \in Threads : Owns(u)' <=> Owns(u)
      BY <1>0, <1>4, <2>1 DEF Owns, Granted, TypeOK, Goto
    <2>3. TypeOK'
      BY <1>0, <1>1, <1>4 DEF TypeOK, Goto
    <2>4. MutualExclusion'
      BY <1>4, <2>2 DEF MutualExclusion, TypeOK, Goto
    <2>5. BlockedInAcquire'
      BY <1>0, <1>4 DEF BlockedInAcquire, TypeOK, Goto
    <2>6. Users' = Users \ {t}
      BY <1>0, <1>4 DEF Users, TypeOK, Goto
    <2>7. magic => block_ret[t] = ERR_TIMED_OUT
      BY <1>0, <1>4 DEF BlockedInAcquire
    <2>8. CountIsUsers'
      BY <1>0, <1>2, <1>4, <2>6, <2>7, UsersFinite DEF CountIsUsers
    <2> QED BY <1>1, <2>3, <2>4, <2>5, <2>8
  <1> QED BY <1>3, <1>4 DEF mutex_acquire_returns, ERR_TIMED_OUT, ERR_OBJECT_DESTROYED

(* mutex_release: the only owner leaves, and if it wakes a thread that     *)
(* thread becomes the only owner.                                          *)
LEMMA ReleaseInv ==
  ASSUME MutexInv, NEW t \in Threads, mutex_release(t)
  PROVE  MutexInv'
  <1> USE DEF MutexInv
  <1>0. magic /\ pc[t] = "hold" /\ UNCHANGED <<magic, expired>> /\ holder' = NoThread /\ count' = count - 1
        /\ Goto(t, "out") /\ WaitQueueInv /\ t \notin Waiting
    BY DEF mutex_release, WaitQueueInv, TypeOK, BlockedInAcquire, QueueMatchesState
  <1>1. \A u \in Threads : Owns(u) <=> u = t
    BY <1>0 DEF MutualExclusion, Owns
  <1>2. Users' = Users \ {t} /\ t \in Users
    BY <1>0 DEF Users, TypeOK, Goto
  <1>3. CountIsUsers'
    BY <1>0, <1>2, UsersFinite DEF CountIsUsers
  <1>4. \A u \in Threads : pc'[u] # "hold"
    BY <1>0, <1>1 DEF Owns, TypeOK, Goto
  <1>5. CASE UNCHANGED wqvars
    <2>1. WaitQueueTypeOK' /\ QueueMatchesState'
      BY <1>5 DEF wqvars, TypeOK, WaitQueueTypeOK, QueueMatchesState, Waiting
    <2>2. TypeOK'
      BY <1>0, <2>1 DEF TypeOK, Goto
    <2>3. BlockedInAcquire'
      BY <1>0, <1>5 DEF BlockedInAcquire, TypeOK, wqvars, Goto
    <2>4. \A u \in Threads : ~Owns(u)'
      BY <1>0, <1>1, <1>4, <1>5 DEF Owns, Granted, TypeOK, wqvars, Goto
    <2>5. MutualExclusion'
      BY <1>4, <2>4 DEF MutualExclusion
    <2> QED BY <1>3, <2>1, <2>2, <2>3, <2>5
  <1>6. CASE wait # <<>> /\ wait_queue_wake_one(NO_ERROR)
    <2> DEFINE h == Head(wait)
    <2>1. WaitQueueInv' /\ h \in Waiting /\ Waiting' = Waiting \ {h}
      BY <1>0, <1>6, WakeOnePreserves DEF Status
    <2>2. h \in Threads /\ tstate[h] = "BLOCKED" /\ pc[h] = "block" /\ h # t
      BY <1>0, <2>1, WaitingPositions
         DEF WaitQueueInv, QueueMatchesState, BlockedInAcquire
    <2>3. /\ tstate' = [tstate EXCEPT ![h] = "READY"]
          /\ block_ret' = [block_ret EXCEPT ![h] = NO_ERROR]
      BY <1>6 DEF wait_queue_wake_one
    <2> HIDE DEF h
    <2>4. TypeOK'
      BY <1>0, <2>1 DEF TypeOK, WaitQueueInv, Goto
    <2>5. BlockedInAcquire'
      BY <1>0, <2>2, <2>3 DEF BlockedInAcquire, TypeOK, WaitQueueTypeOK, Goto,
                              NO_ERROR, ERR_OBJECT_DESTROYED
    <2>6. \A u \in Threads : Owns(u)' => u = h
      BY <1>0, <1>1, <1>4, <2>2, <2>3
         DEF Owns, Granted, TypeOK, WaitQueueTypeOK, Goto
    <2>7. MutualExclusion'
      BY <1>4, <2>6 DEF MutualExclusion
    <2> QED BY <1>3, <2>1, <2>4, <2>5, <2>7 DEF WaitQueueInv
  <1> QED BY <1>5, <1>6 DEF mutex_release, wait_queue_wake_one

(* mutex_destroy_check moves one thread that does not use the mutex. *)
LEMMA DestroyCheckInv ==
  ASSUME MutexInv, NEW t \in Threads, mutex_destroy_check(t)
  PROVE  MutexInv'
  <1> USE DEF MutexInv, mutex_destroy_check
  <1>1. TypeOK'
    BY DEF TypeOK, WaitQueueTypeOK, wqvars, Goto
  <1>2. QueueMatchesState'
    BY DEF QueueMatchesState, Waiting, wqvars
  <1>3. BlockedInAcquire'
    BY DEF BlockedInAcquire, TypeOK, wqvars, Goto
  <1>4. MutualExclusion'
    BY DEF MutualExclusion, Owns, Granted, TypeOK, wqvars, Goto
  <1>5. Users' = Users
    BY DEF Users, TypeOK, Goto
  <1>6. CountIsUsers'
    BY <1>5 DEF CountIsUsers
  <1> QED BY <1>1, <1>2, <1>3, <1>4, <1>6

(* mutex_destroy wakes every waiter with an error: no owner appears. *)
LEMMA DestroyInv ==
  ASSUME MutexInv, NEW t \in Threads, mutex_destroy(t)
  PROVE  MutexInv'
  <1> USE DEF MutexInv
  <1>0. ~magic' /\ pc[t] \in {"destroy", "hold"} /\ count' = 0 /\ UNCHANGED holder
        /\ Goto(t, "out") /\ wait_queue_wake_all(ERR_OBJECT_DESTROYED) /\ WaitQueueInv
        /\ magic' \in BOOLEAN /\ UNCHANGED expired
    BY DEF mutex_destroy, wait_queue_destroy, WaitQueueInv, TypeOK
  <1>1. WaitQueueInv' /\ Waiting' = {}
    BY <1>0, WakeAllPreserves DEF Status
  <1>2. TypeOK'
    BY <1>0, <1>1 DEF TypeOK, WaitQueueInv, Goto
  <1>3. BlockedInAcquire'
    BY <1>0, <1>1, <1>2 DEF BlockedInAcquire, WaitQueueInv, QueueMatchesState, TypeOK
  <1>4. \A u \in Threads : Owns(u)' => Owns(u)
    BY <1>0 DEF Owns, Granted, TypeOK, WaitQueueTypeOK, Goto, wait_queue_wake_all,
                NO_ERROR, ERR_OBJECT_DESTROYED
  <1>5. MutualExclusion'
    BY <1>0, <1>4 DEF MutualExclusion, TypeOK, Goto
  <1>6. CountIsUsers'
    BY <1>0 DEF CountIsUsers
  <1> QED BY <1>1, <1>2, <1>3, <1>5, <1>6 DEF WaitQueueInv

(* The timer interrupt touches BLOCKED threads only, and none owns.        *)
LEMMA TimeoutInv ==
  ASSUME MutexInv, NEW t \in Threads, timeout_interrupt(t)
  PROVE  MutexInv'
  <1> USE DEF MutexInv
  <1>0. /\ wait_queue_timeout_handler(t) /\ UNCHANGED <<magic, holder, count, pc>> /\ WaitQueueInv
        /\ expired' \in BOOLEAN
    BY DEF timeout_interrupt, WaitQueueInv, TypeOK
  <1>1. CASE tstate[t] # "BLOCKED"
    BY <1>0, <1>1 DEF wait_queue_timeout_handler, TypeOK, WaitQueueTypeOK, QueueMatchesState,
                      Waiting, BlockedInAcquire, MutualExclusion, Owns, Granted,
                      CountIsUsers, Users
  <1>2. CASE tstate[t] = "BLOCKED"
    <2>1. WaitQueueInv'
      BY <1>0, <1>2, TimeoutPreserves
    <2>2. TypeOK'
      BY <1>0, <2>1 DEF TypeOK, WaitQueueInv
    <2>3. /\ tstate' = [tstate EXCEPT ![t] = "READY"]
          /\ block_ret' = [block_ret EXCEPT ![t] = ERR_TIMED_OUT]
      BY <1>0, <1>2 DEF wait_queue_timeout_handler
    <2>4. BlockedInAcquire'
      BY <1>0, <2>3 DEF BlockedInAcquire, TypeOK, WaitQueueTypeOK,
                        ERR_TIMED_OUT, ERR_OBJECT_DESTROYED
    <2>5. \A u \in Threads : Owns(u)' => Owns(u)
      BY <1>0, <2>3 DEF Owns, Granted, TypeOK, WaitQueueTypeOK, NO_ERROR, ERR_TIMED_OUT
    <2>6. MutualExclusion'
      BY <1>0, <2>5 DEF MutualExclusion
    <2>7. CountIsUsers'
      BY <1>0 DEF CountIsUsers, Users
    <2> QED BY <2>1, <2>2, <2>4, <2>6, <2>7 DEF WaitQueueInv
  <1> QED BY <1>1, <1>2
-----------------------------------------------------------------------------
(* Every step preserves the invariant. *)
LEMMA NextInv == MutexInv /\ [Next]_vars => MutexInv'
  <1> SUFFICES ASSUME MutexInv, [Next]_vars PROVE MutexInv'
    OBVIOUS
  <1>1. CASE UNCHANGED vars
    BY <1>1 DEF MutexInv, vars, wqvars, TypeOK, WaitQueueTypeOK, QueueMatchesState, Waiting,
                BlockedInAcquire, MutualExclusion, Owns, Granted, CountIsUsers, Users
  <1>2. CASE Next
    BY <1>2, AcquireInv, AcquireReturnsInv, ReleaseInv, DestroyCheckInv, DestroyInv, TimeoutInv
       DEF Next
  <1> QED BY <1>1, <1>2

(* The inductive invariant holds in every reachable state. *)
THEOREM MutexInvariant == Spec => []MutexInv
  <1> QED BY InitInv, NextInv, PTL DEF Spec

(* Type correctness of the mutex and of its wait queue. *)
THEOREM TypeCorrect == Spec => []TypeOK
  <1>1. MutexInv => TypeOK
    BY DEF MutexInv
  <1> QED BY <1>1, MutexInvariant, PTL

(* Mutual exclusion of mutex_acquire_timeout and mutex_release, through    *)
(* hand-offs, timeouts and destruction.                                    *)
THEOREM MutualExclusionHolds == Spec => []MutualExclusion
  <1>1. MutexInv => MutualExclusion
    BY DEF MutexInv
  <1> QED BY <1>1, MutexInvariant, PTL

(* m->count counts the threads inside, whatever timeouts are pending. *)
THEOREM CountIsExact == Spec => []CountIsUsers
  <1>1. MutexInv => CountIsUsers
    BY DEF MutexInv
  <1> QED BY <1>1, MutexInvariant, PTL

(* The queue and the thread states agree. *)
THEOREM QueueAgrees == Spec => []QueueMatchesState
  <1>1. MutexInv => QueueMatchesState
    BY DEF MutexInv
  <1> QED BY <1>1, MutexInvariant, PTL

(* One step never takes the mutex from a thread it has been handed to. *)
LEMMA GrantStep ==
  ASSUME MutexInv, [Next]_vars, NEW t \in Threads, Granted(t)
  PROVE  Granted(t)' \/ pc'[t] = "hold"
  <1> USE DEF MutexInv, Granted
  <1>0. t \notin Waiting /\ WaitQueueTypeOK
    BY DEF QueueMatchesState, TypeOK
  <1>1. CASE UNCHANGED vars
    BY <1>1 DEF vars, wqvars
  <1>2. ASSUME NEW u \in Threads, NEW timeout \in TimeoutsUsed, mutex_acquire_timeout(u, timeout)
        PROVE  Granted(t)'
    BY <1>2 DEF mutex_acquire_timeout, wait_queue_block, wqvars, Goto, TypeOK, WaitQueueTypeOK
  <1>3. ASSUME NEW u \in Threads, mutex_acquire_returns(u)
        PROVE  Granted(t)' \/ pc'[t] = "hold"
    <2>1. CASE u = t
      BY <1>3, <2>1 DEF mutex_acquire_returns, Goto, TypeOK,
                        NO_ERROR, ERR_TIMED_OUT, ERR_OBJECT_DESTROYED
    <2>2. CASE u # t
      BY <1>3, <2>2 DEF mutex_acquire_returns, wait_queue_block_returns, Goto, TypeOK
    <2> QED BY <2>1, <2>2
  <1>4. ASSUME NEW u \in Threads, mutex_release(u)
        PROVE  Granted(t)'
    <2>1. u # t /\ pc'[t] = "block"
      BY <1>4 DEF mutex_release, Goto, TypeOK
    <2>2. wait # <<>> => Head(wait) # t
      BY <1>0, WaitingPositions, HeadIsWaiting
    <2> QED BY <1>4, <2>1, <2>2 DEF mutex_release, wait_queue_wake_one, wqvars, WaitQueueTypeOK, TypeOK
  <1>5. ASSUME NEW u \in Threads, mutex_destroy_check(u)
        PROVE  Granted(t)'
    BY <1>5 DEF mutex_destroy_check, wqvars, Goto, TypeOK
  <1>6. ASSUME NEW u \in Threads, mutex_destroy(u)
        PROVE  Granted(t)'
    BY <1>0, <1>6 DEF mutex_destroy, wait_queue_destroy, wait_queue_wake_all, Goto, TypeOK
  <1>7. ASSUME NEW u \in Threads, timeout_interrupt(u)
        PROVE  Granted(t)'
    BY <1>7 DEF timeout_interrupt, wait_queue_timeout_handler, TypeOK, WaitQueueTypeOK
  <1> QED BY <1>1, <1>2, <1>3, <1>4, <1>5, <1>6, <1>7 DEF Next

(* A late timer interrupt, or any other step, leaves a hand-off alone. *)
THEOREM GrantIsFinalHolds == Spec => GrantIsFinal
  <1>1. MutexInv /\ [Next]_vars =>
          [\A t \in Threads : Granted(t) => (Granted(t)' \/ pc'[t] = "hold")]_vars
    BY GrantStep
  <1> QED BY <1>1, MutexInvariant, PTL DEF Spec, GrantIsFinal
-----------------------------------------------------------------------------
(* As long as no timed wait has expired, a thread inside                   *)
(* mutex_acquire_timeout has been told that it has the mutex or that the   *)
(* mutex is gone, and somebody owns the mutex whenever somebody is queued  *)
(* for it.                                                                 *)
UnexpiredInv ==
  /\ MutexInv
  /\ ~expired =>
       /\ \A t \in Threads : pc[t] = "block" => block_ret[t] \in {NO_ERROR, ERR_OBJECT_DESTROYED}
       /\ Waiting # {} => \E t \in Threads : Owns(t)

(* A thread that finds count above zero, and so waits, waits for an owner. *)
LEMMA UsersOwned ==
  ASSUME UnexpiredInv, ~expired, magic, Users # {}
  PROVE  \E t \in Threads : Owns(t)
  <1>1. PICK u \in Users : TRUE
    OBVIOUS
  <1>2. CASE pc[u] = "hold" \/ tstate[u] = "BLOCKED"
    BY <1>1, <1>2 DEF UnexpiredInv, MutexInv, Users, Owns, QueueMatchesState
  <1>3. CASE pc[u] = "block" /\ tstate[u] # "BLOCKED"
    <2>1. tstate[u] = "READY" /\ u \in Threads
      BY <1>1, <1>3 DEF UnexpiredInv, MutexInv, TypeOK, WaitQueueTypeOK, Users
    <2>2. block_ret[u] = NO_ERROR
      BY <1>3, <2>1 DEF UnexpiredInv, MutexInv, BlockedInAcquire
    <2> QED BY <1>3, <2>1, <2>2 DEF Owns, Granted
  <1> QED BY <1>1, <1>2, <1>3 DEF Users

(* mutex_release leaves no queue behind: if it wakes nobody, the queue is  *)
(* empty, or count says that nobody is inside, and then nobody is queued.  *)
LEMMA ReleaseLeavesNobody ==
  ASSUME UnexpiredInv, NEW t \in Threads, mutex_release(t), MutexInv',
         ~(count - 1 >= 1 /\ wait # <<>>)
  PROVE  Waiting' = {}
  <1>a. WaitQueueInv /\ pc \in [Threads -> {"out", "block", "hold", "destroy"}]
    BY DEF UnexpiredInv, MutexInv, TypeOK, WaitQueueInv
  <1>1. UNCHANGED wqvars
    BY DEF mutex_release, wait_queue_wake_one
  <1>2. wait = <<>> \/ Users' = {}
    <2>1. CASE wait = <<>>
      BY <2>1
    <2>2. CASE ~(count - 1 >= 1)
      <3>1. t \in Users /\ Users' = Users \ {t}
        BY <1>a DEF mutex_release, Users, Goto
      <3>2. Cardinality(Users \ {t}) = 0 /\ IsFiniteSet(Users \ {t})
        <4>1. Cardinality(Users \ {t}) = count - 1 /\ Cardinality(Users) \in Nat
          BY <3>1, UsersFinite DEF mutex_release, UnexpiredInv, MutexInv, CountIsUsers
        <4>2. IsFiniteSet(Users \ {t})
          BY UsersFinite, FS_RemoveElement
        <4> QED BY <2>2, <4>1, <4>2, FS_CardinalityType DEF UnexpiredInv, MutexInv, TypeOK
      <3> QED BY <3>1, <3>2, FS_EmptySet
    <2> QED BY <2>1, <2>2
  <1>3. Waiting' = Waiting
    BY <1>1 DEF wqvars, Waiting
  <1>4. Waiting \subseteq Users'
    BY <1>a, <1>3, WaitingPositions
       DEF MutexInv, QueueMatchesState, BlockedInAcquire, Users, WaitQueueInv
  <1> QED BY <1>a, <1>2, <1>3, <1>4, WaitingPositions DEF WaitQueueInv

(* Every step preserves the strengthened invariant. *)
LEMMA UnexpiredStep == UnexpiredInv /\ [Next]_vars => UnexpiredInv'
  <1> SUFFICES ASSUME UnexpiredInv, [Next]_vars PROVE UnexpiredInv'
    OBVIOUS
  <1>0. MutexInv /\ MutexInv'
    BY NextInv DEF UnexpiredInv
  <1>a. WaitQueueInv /\ pc \in [Threads -> {"out", "block", "hold", "destroy"}]
        /\ expired \in BOOLEAN
    BY <1>0 DEF MutexInv, TypeOK, WaitQueueInv
  <1>1. CASE UNCHANGED vars
    BY <1>0, <1>1 DEF UnexpiredInv, vars, wqvars, Waiting, Owns, Granted
  <1>2. ASSUME NEW t \in Threads, NEW timeout \in TimeoutsUsed, mutex_acquire_timeout(t, timeout)
        PROVE  UnexpiredInv'
    <2>1. CASE Goto(t, "hold") /\ UNCHANGED wqvars
      <3>1. Owns(t)'
        BY <1>a, <2>1 DEF Owns, Goto
      <3> QED BY <1>0, <1>a, <1>2, <2>1, <3>1
              DEF UnexpiredInv, mutex_acquire_timeout, wqvars, Goto
    <2>2. CASE count + 1 > 1 /\ wait_queue_block(t, timeout) /\ Goto(t, "block")
      <3>1. UNCHANGED expired /\ magic /\ pc[t] = "out"
        BY <1>2 DEF mutex_acquire_timeout
      <3>2. ~expired => \A u \in Threads : pc'[u] = "block" =>
                          block_ret'[u] \in {NO_ERROR, ERR_OBJECT_DESTROYED}
        BY <1>a, <2>2 DEF UnexpiredInv, wait_queue_block, Goto, WaitQueueInv, WaitQueueTypeOK,
                          NO_ERROR
      <3>3. Users # {}
        BY <1>0, <2>2, <3>1, UsersFinite DEF MutexInv, CountIsUsers
      <3>4. ASSUME ~expired PROVE \E v \in Threads : Owns(v)'
        <4>1. PICK v \in Threads : Owns(v)
          BY <3>1, <3>3, <3>4, UsersOwned
        <4>2. Owns(v)'
          BY <1>a, <2>2, <3>1, <4>1 DEF wait_queue_block, Owns, Granted, Goto,
                                        WaitQueueInv, WaitQueueTypeOK
        <4> QED BY <4>2
      <3> QED BY <1>0, <3>1, <3>2, <3>4 DEF UnexpiredInv
    <2>3. CASE UNCHANGED <<count, holder, pc, wqvars>>
      BY <1>0, <1>2, <2>3 DEF UnexpiredInv, mutex_acquire_timeout, wqvars, Waiting, Owns, Granted
    <2> QED BY <1>2, <2>1, <2>2, <2>3 DEF mutex_acquire_timeout
  <1>3. ASSUME NEW t \in Threads, mutex_acquire_returns(t)
        PROVE  UnexpiredInv'
    <2>1. /\ UNCHANGED <<expired, wait, tstate, block_ret>>
          /\ \/ Goto(t, "hold")
             \/ Goto(t, "out") /\ block_ret[t] # NO_ERROR /\ pc[t] = "block"
      BY <1>3 DEF mutex_acquire_returns, wait_queue_block_returns,
                  NO_ERROR, ERR_TIMED_OUT, ERR_OBJECT_DESTROYED
    <2>2. \A u \in Threads : pc'[u] = "block" => pc[u] = "block"
      BY <1>a, <2>1 DEF Goto
    <2>3. \A u \in Threads : Owns(u) => Owns(u)'
      BY <1>a, <2>1 DEF Owns, Granted, Goto
    <2> QED BY <1>0, <2>1, <2>2, <2>3 DEF UnexpiredInv, Waiting
  <1>4. ASSUME NEW t \in Threads, mutex_release(t)
        PROVE  UnexpiredInv'
    <2>1. UNCHANGED expired /\ Goto(t, "out") /\ pc[t] = "hold"
      BY <1>4 DEF mutex_release
    <2>2. CASE count - 1 >= 1 /\ wait # <<>>
      <3>1. PICK h \in Threads : h = Head(wait) /\ tstate[h] = "BLOCKED" /\ pc[h] = "block"
        BY <1>0, <1>a, <2>2, HeadIsWaiting, WaitingPositions
           DEF WaitQueueInv, QueueMatchesState, MutexInv, BlockedInAcquire
      <3>2. /\ tstate' = [tstate EXCEPT ![h] = "READY"]
            /\ block_ret' = [block_ret EXCEPT ![h] = NO_ERROR]
        BY <1>4, <2>2, <3>1 DEF mutex_release, wait_queue_wake_one
      <3>3. h # t
        BY <2>1, <3>1
      <3>4. Owns(h)'
        BY <1>a, <2>1, <3>1, <3>2, <3>3 DEF Owns, Granted, Goto, WaitQueueInv, WaitQueueTypeOK
      <3>5. ~expired => \A u \in Threads : pc'[u] = "block" =>
                          block_ret'[u] \in {NO_ERROR, ERR_OBJECT_DESTROYED}
        BY <1>a, <2>1, <3>2 DEF UnexpiredInv, Goto, WaitQueueInv, WaitQueueTypeOK,
                                NO_ERROR
      <3> QED BY <1>0, <2>1, <3>4, <3>5 DEF UnexpiredInv
    <2>3. CASE ~(count - 1 >= 1 /\ wait # <<>>)
      <3>1. UNCHANGED wqvars
        BY <1>4, <2>3 DEF mutex_release, wait_queue_wake_one
      <3>2. Waiting' = {}
        BY <1>0, <1>4, <2>3, ReleaseLeavesNobody
      <3>3. ~expired => \A u \in Threads : pc'[u] = "block" =>
                          block_ret'[u] \in {NO_ERROR, ERR_OBJECT_DESTROYED}
        BY <1>a, <2>1, <3>1 DEF UnexpiredInv, Goto, wqvars
      <3> QED BY <1>0, <2>1, <3>2, <3>3 DEF UnexpiredInv
    <2> QED BY <2>2, <2>3
  <1>5. ASSUME NEW t \in Threads, mutex_destroy_check(t)
        PROVE  UnexpiredInv'
    <2>1. \A u \in Threads : (Owns(u) => Owns(u)') /\ (pc'[u] = "block" => pc[u] = "block")
      BY <1>a, <1>5 DEF mutex_destroy_check, Owns, Granted, wqvars, Goto
    <2> QED BY <1>0, <1>5, <2>1 DEF UnexpiredInv, mutex_destroy_check, Waiting, wqvars
  <1>6. ASSUME NEW t \in Threads, mutex_destroy(t)
        PROVE  UnexpiredInv'
    <2>1. Waiting' = {} /\ UNCHANGED expired
      BY <1>a, <1>6, WakeAllPreserves DEF mutex_destroy, wait_queue_destroy, Status
    <2>2. ~expired => \A u \in Threads : pc'[u] = "block" =>
                        block_ret'[u] \in {NO_ERROR, ERR_OBJECT_DESTROYED}
      BY <1>a, <1>6 DEF UnexpiredInv, mutex_destroy, wait_queue_destroy, wait_queue_wake_all,
                        Goto
    <2> QED BY <1>0, <2>1, <2>2 DEF UnexpiredInv
  <1>7. ASSUME NEW t \in Threads, timeout_interrupt(t)
        PROVE  UnexpiredInv'
    BY <1>0, <1>a, <1>7 DEF UnexpiredInv, timeout_interrupt, wait_queue_timeout_handler,
                            Waiting, Owns, Granted
  <1> QED BY <1>1, <1>2, <1>3, <1>4, <1>5, <1>6, <1>7 DEF Next

(* A thread that is queued for a mutex nobody owns implies that some timed *)
(* wait has expired: without timeouts, mutex_release never leaves anybody  *)
(* behind.                                                                 *)
THEOREM NoStrandedWaiterHolds == Spec => []NoStrandedWaiter
  <1>1. Init => UnexpiredInv
    BY InitInv DEF UnexpiredInv, Init, WaitQueueInit, Waiting
  <1>2. UnexpiredInv => NoStrandedWaiter
    <2> SUFFICES ASSUME UnexpiredInv, ~expired, Waiting # {}
                 PROVE  \E t \in Users : t \notin Waiting
      BY DEF NoStrandedWaiter
    <2>1. PICK t \in Threads : Owns(t)
      BY DEF UnexpiredInv
    <2> QED BY <2>1 DEF UnexpiredInv, MutexInv, Owns, Granted, Users, QueueMatchesState,
                        BlockedInAcquire
  <1> QED BY <1>1, <1>2, UnexpiredStep, PTL DEF Spec
=============================================================================
