---------------------------- MODULE ObjectProofs ----------------------------
(***************************************************************************)
(* Proofs about the kernel objects built on a wait queue, each for any     *)
(* finite set of threads, any timeouts and any interleaving: the semaphore *)
(* (kernel/semaphore.c), the event (kernel/event.c), the event flag        *)
(* (external/lib/evflag), the end of a thread (thread_exit, thread_join    *)
(* and thread_detach of kernel/thread.c) and the circular buffer           *)
(* (lib/cbuf/cbuf.c); and about the timer list (kernel/timer.c), for any   *)
(* timers, any width of the clock, any tick and any delays that are short  *)
(* against the range of the clock.                                         *)
(***************************************************************************)
EXTENDS Semaphore, Event, EvFlag, ThreadLife, Cbuf, Timer, MutexProofs, FiniteSetTheorems,
        SequenceTheorems, WellFoundedInduction

(* A queue with nobody in it is empty. *)
LEMMA NobodyQueued ==
  ASSUME NEW s \in Seq(Threads), {s[i] : i \in DOMAIN s} = {}
  PROVE  s = <<>>
  <1>1. Len(s) \in Nat /\ DOMAIN s = 1 .. Len(s)
    OBVIOUS
  <1>2. 1 \notin DOMAIN s
    OBVIOUS
  <1> QED BY <1>1, <1>2

(* Cardinalities of the subsets of a finite set. *)
LEMMA FiniteFacts ==
  ASSUME NEW S, IsFiniteSet(S)
  PROVE  /\ Cardinality(S) \in Nat
         /\ Cardinality(S) = 0 <=> S = {}
         /\ \A x : x \notin S => Cardinality(S \cup {x}) = Cardinality(S) + 1
         /\ \A x \in S : Cardinality(S \ {x}) = Cardinality(S) - 1
         /\ \A T \in SUBSET S : IsFiniteSet(T) /\ Cardinality(T) <= Cardinality(S)
  <1>1. \A x : x \notin S => Cardinality(S \cup {x}) = Cardinality(S) + 1
    BY FS_AddElement
  <1>2. \A x \in S : Cardinality(S \ {x}) = Cardinality(S) - 1
    BY FS_RemoveElement
  <1>3. \A T \in SUBSET S : IsFiniteSet(T) /\ Cardinality(T) <= Cardinality(S)
    BY FS_Subset
  <1> QED BY <1>1, <1>2, <1>3, FS_EmptySet, FS_CardinalityType
-----------------------------------------------------------------------------
(* The semaphore. *)

(* Who is BLOCKED is inside a wait, and who is inside one while the        *)
(* semaphore lives was woken by a post or by its timer; before sem_init    *)
(* there is nobody and nothing.                                            *)
SemCalls ==
  /\ \A t \in Threads : tstate[t] = "BLOCKED" => t \in SemInside
  /\ sem_life = "live" => \A t \in SemInside : block_ret[t] \in {NO_ERROR, ERR_TIMED_OUT}
  /\ sem_life = "none" => SemInside = {} /\ posts = 0 /\ taken = 0

(* As long as no timed wait has expired, the threads inside a wait are     *)
(* those a post has chosen and those in the queue.                         *)
SemInsideIsQueued ==
  sem_life = "live" /\ ~sem_expired => SemInside = SemGranted \cup Waiting

(* The inductive invariant of the semaphore. *)
SemIndInv ==
  /\ WaitQueueInv
  /\ SemInv
  /\ SemCalls
  /\ SemInsideIsQueued
  /\ NoWaitForAvailable

(* The threads inside a wait and those chosen are finite in number, and    *)
(* what is available is the count and those inside who are not chosen.     *)
LEMMA SemSets ==
  ASSUME SemIndInv
  PROVE  /\ IsFiniteSet(SemInside) /\ IsFiniteSet(SemGranted)
         /\ Cardinality(SemInside) \in Nat /\ Cardinality(SemGranted) \in Nat
         /\ SemGranted \subseteq SemInside
         /\ Cardinality(SemGranted) <= Cardinality(SemInside)
         /\ Waiting \subseteq SemInside /\ Waiting \cap SemGranted = {}
         /\ sem_life = "live" => Available >= sem_count
         /\ sem_life = "live" /\ SemInside = SemGranted => Available = sem_count
  <1>1. IsFiniteSet(SemInside) /\ SemGranted \subseteq SemInside
    BY SemaphoreAssumption, FS_Subset DEF SemInside, SemGranted
  <1>2. IsFiniteSet(SemGranted) /\ Cardinality(SemGranted) <= Cardinality(SemInside)
        /\ Cardinality(SemInside) \in Nat /\ Cardinality(SemGranted) \in Nat
    BY <1>1, FiniteFacts
  <1>3. Waiting \subseteq SemInside /\ Waiting \cap SemGranted = {}
    BY WaitingPositions
    DEF SemIndInv, WaitQueueInv, QueueMatchesState, SemCalls, SemGranted
  <1>4. sem_life = "live" =>
          Available = sem_count + Cardinality(SemInside) - Cardinality(SemGranted)
    BY <1>2, SemaphoreAssumption
    DEF SemIndInv, SemInv, SemTypeOK, CountAccounts, Available
  <1>5. sem_life = "live" => sem_count \in Int
    BY DEF SemIndInv, SemInv, SemTypeOK
  <1> QED BY <1>1, <1>2, <1>3, <1>4, <1>5

(* The initial state. *)
LEMMA SemInitInv == WaitQueueInit /\ SemInit => SemIndInv
  <1> SUFFICES ASSUME WaitQueueInit, SemInit PROVE SemIndInv
    OBVIOUS
  <1>1. WaitQueueInv /\ Waiting = {}
    BY InitialQueue
  <1>2. SemTypeOK
    <2>1. sem_life \in {"none", "live", "destroyed"} /\ sem_expired \in BOOLEAN
          /\ sem_pc \in [Threads -> {"out", "block"}]
      BY DEF SemInit
    <2> QED BY <2>1, SemaphoreAssumption DEF SemInit, SemTypeOK
  <1>3. SemInside = {} /\ SemGranted = {}
    BY DEF SemInit, SemInside, SemGranted
  <1>4. NoOverIssue
    BY <1>3, FS_EmptySet, SemaphoreAssumption DEF NoOverIssue, Available, SemInit
  <1>5. CountAccounts /\ SemInsideIsQueued /\ NoWaitForAvailable
    BY DEF CountAccounts, SemInsideIsQueued, NoWaitForAvailable, SemInit
  <1>6. SemCalls
    BY <1>3 DEF SemCalls, SemInit, WaitQueueInit
  <1> QED BY <1>1, <1>2, <1>4, <1>5, <1>6 DEF SemIndInv, SemInv

(* The fast path of a wait, and sem_trywait: count says that something is  *)
(* available, and so it is.                                                *)
LEMMA SemTakeInv ==
  ASSUME SemIndInv, sem_life = "live", sem_count >= 1,
         sem_count' = sem_count - 1, taken' = taken + 1,
         UNCHANGED <<wqvars, sem_life, sem_pc, posts, sem_expired>>
  PROVE  SemIndInv'
  <1>1. WaitQueueInv' /\ Waiting' = Waiting /\ SemInside' = SemInside /\ SemGranted' = SemGranted
    BY QueueUntouched DEF SemIndInv, wqvars, WaitQueueInv, WaitQueueTypeOK, SemInside, SemGranted
  <1>2. SemTypeOK'
    BY DEF SemIndInv, SemInv, SemTypeOK
  <1>3. CountAccounts'
    BY <1>1, SemSets, SemaphoreAssumption DEF SemIndInv, SemInv, SemTypeOK, CountAccounts
  <1>4. Available' = Available - 1 /\ Available >= 1
    BY <1>1, SemSets, SemaphoreAssumption DEF SemIndInv, SemInv, SemTypeOK, Available
  <1>5. NoOverIssue' /\ NoWaitForAvailable'
    BY <1>1, <1>4, SemSets, SemaphoreAssumption
    DEF SemIndInv, SemInv, SemTypeOK, NoOverIssue, NoWaitForAvailable, Available
  <1>6. SemCalls' /\ SemInsideIsQueued'
    BY <1>1 DEF SemIndInv, SemCalls, SemInsideIsQueued, wqvars
  <1> QED BY <1>1, <1>2, <1>3, <1>5, <1>6 DEF SemIndInv, SemInv

(* sem_init finds nobody and nothing. *)
LEMMA SemInitializeInv ==
  ASSUME SemIndInv, sem_init
  PROVE  SemIndInv'
  <1> USE DEF sem_init
  <1>1. WaitQueueInv' /\ Waiting' = Waiting /\ SemInside' = SemInside /\ SemGranted' = SemGranted
    BY QueueUntouched DEF SemIndInv, wqvars, WaitQueueInv, WaitQueueTypeOK, SemInside, SemGranted
  <1>2. SemInside = {} /\ SemGranted = {} /\ Waiting = {} /\ posts = 0 /\ taken = 0
    BY SemSets DEF SemIndInv, SemCalls
  <1>3. SemTypeOK'
    BY SemaphoreAssumption DEF SemIndInv, SemInv, SemTypeOK
  <1>4. CountAccounts' /\ NoOverIssue'
    BY <1>1, <1>2, FS_EmptySet, SemaphoreAssumption DEF CountAccounts, NoOverIssue, Available
  <1>5. SemCalls' /\ SemInsideIsQueued' /\ NoWaitForAvailable'
    BY <1>1, <1>2 DEF SemIndInv, SemCalls, SemInsideIsQueued, NoWaitForAvailable, wqvars
  <1> QED BY <1>1, <1>3, <1>4, <1>5 DEF SemIndInv, SemInv

(* sem_post: with the count below zero it promises what it adds to the     *)
(* head of the queue; otherwise nobody is in the queue.                    *)
LEMMA SemPostInv ==
  ASSUME SemIndInv, sem_post
  PROVE  SemIndInv'
  <1>0. /\ sem_life = "live" /\ UNCHANGED <<sem_life, sem_pc, taken, sem_expired>>
        /\ posts' = posts + 1 /\ sem_count' = sem_count + 1
        /\ SemInside' = SemInside
        /\ WaitQueueInv /\ SemTypeOK /\ CountAccounts /\ NoOverIssue
    BY DEF sem_post, SemIndInv, SemInv, SemInside
  <1>1. SemTypeOK'
    BY SemaphoreAssumption DEF sem_post, SemIndInv, SemInv, SemTypeOK
  <1>2. CountAccounts'
    BY <1>0, SemSets, SemaphoreAssumption DEF SemTypeOK, CountAccounts
  <1>3. CASE sem_count + 1 <= 0 /\ wait # <<>>
    <2>1. wait_queue_wake_one(NO_ERROR) /\ NO_ERROR \in Status
      BY <1>3 DEF sem_post, Status
    <2>2. WaitQueueInv' /\ Head(wait) \in Waiting /\ Waiting' = Waiting \ {Head(wait)}
      BY <1>0, <1>3, <2>1, WakeOnePreserves
    <2>3. /\ tstate' = [tstate EXCEPT ![Head(wait)] = "READY"]
          /\ block_ret' = [block_ret EXCEPT ![Head(wait)] = NO_ERROR]
      BY <1>3, <2>1 DEF wait_queue_wake_one
    <2>4. Head(wait) \in SemInside /\ Head(wait) \notin SemGranted
      BY <2>2, SemSets
    <2>5. SemGranted' = SemGranted \cup {Head(wait)}
      BY <1>0, <2>3, <2>4 DEF WaitQueueInv, WaitQueueTypeOK, SemGranted, SemInside
    <2>6. Cardinality(SemGranted') = Cardinality(SemGranted) + 1
      BY <2>4, <2>5, SemSets, FiniteFacts
    <2>7. Available' = Available /\ Available \in Int
      BY <1>0, <2>6, SemSets, SemaphoreAssumption DEF SemTypeOK, Available
    <2>8. NoOverIssue' /\ NoWaitForAvailable'
      BY <1>0, <2>2, <2>7 DEF SemIndInv, NoOverIssue, NoWaitForAvailable
    <2>9. SemCalls'
      BY <1>0, <2>3 DEF SemIndInv, SemCalls, WaitQueueInv, WaitQueueTypeOK, SemInside
    <2>10. SemInsideIsQueued'
      BY <1>0, <2>2, <2>5 DEF SemIndInv, SemInsideIsQueued
    <2> QED BY <1>1, <1>2, <2>2, <2>8, <2>9, <2>10 DEF SemIndInv, SemInv
  <1>4. CASE ~(sem_count + 1 <= 0 /\ wait # <<>>)
    <2>1. UNCHANGED wqvars
      BY <1>4 DEF sem_post, wait_queue_wake_one
    <2>2. WaitQueueInv' /\ Waiting' = Waiting /\ SemGranted' = SemGranted
      BY <1>0, <2>1, QueueUntouched
      DEF wqvars, WaitQueueInv, WaitQueueTypeOK, SemInside, SemGranted
    <2>3. Available' = Available + 1 /\ Available \in Int
      BY <1>0, <2>2, SemSets, SemaphoreAssumption DEF SemTypeOK, Available
    <2>4. ~sem_expired => Waiting = {}
      <3> SUFFICES ASSUME ~sem_expired, Waiting # {}
                   PROVE  FALSE
        OBVIOUS
      <3>1. Available <= 0
        BY <1>0 DEF SemIndInv, NoWaitForAvailable
      <3>2. SemInside = SemGranted \cup Waiting /\ SemInside # SemGranted
        BY <1>0, SemSets DEF SemIndInv, SemInsideIsQueued
      <3>3. Cardinality(SemGranted) < Cardinality(SemInside)
        BY <3>2, SemSets, FS_Subset
      <3>4. wait # <<>>
        BY <1>0, WaitingPositions DEF WaitQueueInv
      <3>5. sem_count >= 0
        BY <1>0, <1>4, <3>4 DEF SemTypeOK
      <3> QED BY <1>0, <3>1, <3>3, <3>5, SemSets, SemaphoreAssumption
              DEF SemTypeOK, CountAccounts, Available
    <2>5. NoOverIssue' /\ NoWaitForAvailable'
      BY <1>0, <2>2, <2>3, <2>4 DEF NoOverIssue, NoWaitForAvailable
    <2>6. SemCalls' /\ SemInsideIsQueued'
      BY <1>0, <2>1, <2>2 DEF SemIndInv, SemCalls, SemInsideIsQueued, wqvars
    <2> QED BY <1>1, <1>2, <2>2, <2>5, <2>6 DEF SemIndInv, SemInv
  <1> QED BY <1>3, <1>4

(* A wait that blocks, because count says that nothing is available. *)
LEMMA SemBlockInv ==
  ASSUME SemIndInv, NEW t \in Threads, NEW timeout,
         sem_life = "live", sem_pc[t] = "out", sem_count - 1 < 0,
         sem_count' = sem_count - 1, wait_queue_block(t, timeout),
         sem_pc' = [sem_pc EXCEPT ![t] = "block"],
         UNCHANGED <<sem_life, posts, taken, sem_expired>>
  PROVE  SemIndInv'
  <1>0. WaitQueueInv /\ SemTypeOK /\ CountAccounts /\ NoOverIssue
    BY DEF SemIndInv, SemInv
  <1>1. t \notin SemInside /\ t \notin SemGranted /\ tstate[t] = "READY"
    BY <1>0 DEF SemIndInv, SemCalls, SemInside, SemGranted, WaitQueueInv, WaitQueueTypeOK
  <1>2. WaitQueueInv' /\ Waiting' = Waiting \cup {t}
    BY <1>0, <1>1, BlockPreserves
  <1>3. /\ tstate' = [tstate EXCEPT ![t] = "BLOCKED"]
        /\ block_ret' = [block_ret EXCEPT ![t] = NO_ERROR]
    BY DEF wait_queue_block
  <1>4. SemInside' = SemInside \cup {t} /\ SemGranted' = SemGranted
    BY <1>0, <1>1, <1>3 DEF SemTypeOK, SemInside, SemGranted, WaitQueueInv, WaitQueueTypeOK
  <1>5. Cardinality(SemInside') = Cardinality(SemInside) + 1
    BY <1>1, <1>4, SemSets, FiniteFacts
  <1>6. SemTypeOK'
    BY <1>0 DEF SemTypeOK
  <1>7. CountAccounts'
    BY <1>0, <1>5, SemSets, SemaphoreAssumption DEF SemTypeOK, CountAccounts
  <1>8. Available' = Available /\ Available \in Int /\ sem_count \in Int
    BY <1>0, <1>4, SemSets, SemaphoreAssumption DEF SemTypeOK, Available
  <1>9. NoOverIssue'
    BY <1>0, <1>8 DEF NoOverIssue
  <1>10. NoWaitForAvailable'
    <2> SUFFICES ASSUME ~sem_expired PROVE Available <= 0
      BY <1>8 DEF NoWaitForAvailable
    <2>1. CASE Waiting # {}
      BY <2>1 DEF SemIndInv, NoWaitForAvailable
    <2>2. CASE Waiting = {}
      <3>1. SemInside = SemGranted
        BY <2>2 DEF SemIndInv, SemInsideIsQueued
      <3> QED BY <1>8, <3>1, SemSets
    <2> QED BY <2>1, <2>2
  <1>11. SemCalls'
    BY <1>0, <1>3, <1>4 DEF SemIndInv, SemCalls, WaitQueueInv, WaitQueueTypeOK
  <1>12. SemInsideIsQueued'
    BY <1>2, <1>4 DEF SemIndInv, SemInsideIsQueued
  <1> QED BY <1>2, <1>6, <1>7, <1>9, <1>10, <1>11, <1>12 DEF SemIndInv, SemInv

(* The return from a wait: a chosen thread takes what it was promised, a   *)
(* timed-out one gives back its place in count.                            *)
LEMMA SemReturnsInv ==
  ASSUME SemIndInv, NEW t \in Threads, sem_timedwait_returns(t)
  PROVE  SemIndInv'
  <1>0. /\ WaitQueueInv /\ SemTypeOK /\ CountAccounts /\ NoOverIssue
        /\ sem_pc[t] = "block" /\ tstate[t] = "READY" /\ UNCHANGED <<wait, tstate, block_ret>>
        /\ UNCHANGED <<sem_life, posts, sem_expired>>
        /\ sem_pc' = [sem_pc EXCEPT ![t] = "out"]
        /\ taken' = IF block_ret[t] = NO_ERROR THEN taken + 1 ELSE taken
        /\ sem_count' = IF block_ret[t] = ERR_TIMED_OUT THEN sem_count + 1 ELSE sem_count
    BY DEF SemIndInv, SemInv, sem_timedwait_returns, wait_queue_block_returns
  <1>1. WaitQueueInv' /\ Waiting' = Waiting
    BY <1>0, QueueUntouched
    DEF sem_timedwait_returns, wait_queue_block_returns, WaitQueueInv, WaitQueueTypeOK
  <1>2. SemInside' = SemInside \ {t} /\ SemGranted' = SemGranted \ {t} /\ t \in SemInside
    BY <1>0 DEF SemTypeOK, SemInside, SemGranted
  <1>3. t \notin Waiting /\ (t \in SemGranted <=> block_ret[t] = NO_ERROR)
    BY <1>0, <1>2 DEF SemGranted, WaitQueueInv, QueueMatchesState
  <1>4. sem_life = "live" => block_ret[t] \in {NO_ERROR, ERR_TIMED_OUT}
    BY <1>2 DEF SemIndInv, SemCalls
  <1>5. /\ Cardinality(SemInside') = Cardinality(SemInside) - 1
        /\ Cardinality(SemGranted') =
             IF t \in SemGranted THEN Cardinality(SemGranted) - 1 ELSE Cardinality(SemGranted)
    <2>1. t \notin SemGranted => SemGranted' = SemGranted
      BY <1>2
    <2> QED BY <1>2, <2>1, SemSets, FiniteFacts
  <1>6. SemTypeOK'
    BY <1>0 DEF SemTypeOK
  <1>7. CountAccounts'
    BY <1>0, <1>4, <1>5, SemSets, SemaphoreAssumption
    DEF SemTypeOK, CountAccounts, NO_ERROR, ERR_TIMED_OUT
  <1>8. Available' = Available
    BY <1>0, <1>3, <1>5, SemSets, SemaphoreAssumption DEF SemTypeOK, Available
  <1>9. NoOverIssue' /\ NoWaitForAvailable'
    BY <1>0, <1>1, <1>8 DEF SemIndInv, NoOverIssue, NoWaitForAvailable
  <1>10. SemCalls'
    BY <1>0, <1>2 DEF SemIndInv, SemCalls
  <1>11. SemInsideIsQueued'
    BY <1>0, <1>1, <1>2, <1>3 DEF SemIndInv, SemInsideIsQueued
  <1> QED BY <1>1, <1>6, <1>7, <1>9, <1>10, <1>11 DEF SemIndInv, SemInv

(* sem_destroy wakes the waiters with an error and promises nothing. *)
LEMMA SemDestroyInv ==
  ASSUME SemIndInv, sem_destroy
  PROVE  SemIndInv'
  <1>0. /\ WaitQueueInv /\ SemTypeOK /\ NoOverIssue
        /\ sem_life' = "destroyed" /\ sem_life = "live" /\ UNCHANGED <<sem_pc, posts, taken, sem_expired>>
        /\ wait_queue_wake_all(ERR_OBJECT_DESTROYED) /\ ERR_OBJECT_DESTROYED \in Status
    BY DEF SemIndInv, SemInv, sem_destroy, wait_queue_destroy, Status
  <1>1. WaitQueueInv' /\ Waiting' = {}
    BY <1>0, WakeAllPreserves
  <1>2. SemInside' = SemInside
    BY <1>0 DEF SemInside
  <1>3. SemGranted' = SemGranted
    BY <1>0, <1>2
    DEF SemGranted, wait_queue_wake_all, WaitQueueInv, QueueMatchesState, SemInside,
        NO_ERROR, ERR_OBJECT_DESTROYED
  <1>4. SemTypeOK'
    BY <1>0 DEF SemTypeOK, sem_destroy
  <1>5. NoOverIssue'
    BY <1>0, <1>3 DEF NoOverIssue, Available
  <1>6. CountAccounts' /\ NoWaitForAvailable' /\ SemInsideIsQueued'
    BY <1>0 DEF CountAccounts, NoWaitForAvailable, SemInsideIsQueued
  <1>7. SemCalls'
    BY <1>0, <1>1, <1>2 DEF SemCalls, WaitQueueInv, QueueMatchesState
  <1> QED BY <1>1, <1>4, <1>5, <1>6, <1>7 DEF SemIndInv, SemInv

(* The timer interrupt changes nothing for a thread that a post has        *)
(* chosen.                                                                 *)
LEMMA SemTimeoutInv ==
  ASSUME SemIndInv, NEW t \in Threads, sem_timeout_interrupt(t)
  PROVE  SemIndInv'
  <1>0. /\ WaitQueueInv /\ SemTypeOK /\ CountAccounts /\ NoOverIssue
        /\ wait_queue_timeout_handler(t)
        /\ sem_expired' = (sem_expired \/ tstate[t] = "BLOCKED")
        /\ UNCHANGED <<sem_life, sem_count, sem_pc, posts, taken>>
    BY DEF SemIndInv, SemInv, sem_timeout_interrupt
  <1>1. SemInside' = SemInside
    BY <1>0 DEF SemInside
  <1>2. SemTypeOK'
    <2>1. sem_expired' \in BOOLEAN
      BY <1>0 DEF SemTypeOK
    <2> QED BY <1>0, <2>1 DEF SemTypeOK
  <1>3. CASE tstate[t] # "BLOCKED"
    <2>1. UNCHANGED <<wait, tstate, block_ret>> /\ timer' = timer \ {t}
      BY <1>0, <1>3 DEF wait_queue_timeout_handler
    <2>2. WaitQueueInv' /\ Waiting' = Waiting /\ SemGranted' = SemGranted
      BY <1>0, <1>1, <2>1, QueueUntouched DEF WaitQueueInv, WaitQueueTypeOK, SemInside, SemGranted
    <2>3. sem_expired' = sem_expired
      BY <1>0, <1>3 DEF SemTypeOK
    <2> QED BY <1>0, <1>1, <1>2, <2>1, <2>2, <2>3
            DEF SemIndInv, SemInv, CountAccounts, NoOverIssue, NoWaitForAvailable, Available,
                SemCalls, SemInsideIsQueued
  <1>4. CASE tstate[t] = "BLOCKED"
    <2>1. WaitQueueInv' /\ Waiting' = Waiting \ {t}
      BY <1>0, <1>4, TimeoutPreserves
    <2>2. /\ tstate' = [tstate EXCEPT ![t] = "READY"]
          /\ block_ret' = [block_ret EXCEPT ![t] = ERR_TIMED_OUT]
      BY <1>0, <1>4 DEF wait_queue_timeout_handler
    <2>3. SemGranted' = SemGranted
      BY <1>0, <1>1, <1>4, <2>2
      DEF SemGranted, SemInside, WaitQueueInv, WaitQueueTypeOK, NO_ERROR, ERR_TIMED_OUT
    <2>4. CountAccounts' /\ NoOverIssue'
      BY <1>0, <1>1, <2>3 DEF CountAccounts, NoOverIssue, Available
    <2>5. SemCalls'
      BY <1>0, <1>1, <1>4, <2>2 DEF SemIndInv, SemCalls, WaitQueueInv, WaitQueueTypeOK
    <2>6. NoWaitForAvailable' /\ SemInsideIsQueued'
      BY <1>0, <1>4 DEF NoWaitForAvailable, SemInsideIsQueued
    <2> QED BY <1>2, <2>1, <2>4, <2>5, <2>6 DEF SemIndInv, SemInv
  <1> QED BY <1>3, <1>4

(* Every step of the semaphore keeps the invariant. *)
LEMMA SemStepInv == SemIndInv /\ [SemNext]_<<wqvars, semvars>> => SemIndInv'
  <1> SUFFICES ASSUME SemIndInv, [SemNext]_<<wqvars, semvars>>
               PROVE  SemIndInv'
    OBVIOUS
  <1>1. CASE sem_init
    BY <1>1, SemInitializeInv
  <1>2. CASE sem_post
    BY <1>2, SemPostInv
  <1>3. CASE sem_destroy
    BY <1>3, SemDestroyInv
  <1>4. ASSUME NEW t \in Threads, NEW timeout \in SemTimeouts, sem_timedwait(t, timeout)
        PROVE  SemIndInv'
    <2>0. sem_life = "live" /\ sem_pc[t] = "out" /\ sem_count \in Int
      BY <1>4 DEF sem_timedwait, SemIndInv, SemInv, SemTypeOK
    <2>1. CASE sem_count - 1 >= 0
      BY <1>4, <2>0, <2>1, SemTakeInv DEF sem_timedwait
    <2>2. CASE sem_count - 1 < 0 /\ timeout # ZERO
      BY <1>4, <2>0, <2>2, SemBlockInv DEF sem_timedwait
    <2>3. CASE sem_count - 1 < 0 /\ timeout = ZERO
      <3>1. UNCHANGED <<wqvars, semvars>>
        BY <1>4, <2>0, <2>3 DEF sem_timedwait, semvars
      <3> QED BY <3>1
              DEF SemIndInv, SemInv, SemTypeOK, CountAccounts, NoOverIssue, Available, SemCalls,
                  SemInsideIsQueued, NoWaitForAvailable, SemInside, SemGranted, Waiting,
                  WaitQueueInv, WaitQueueTypeOK, QueueMatchesState, wqvars, semvars
    <2> QED BY <2>0, <2>1, <2>2, <2>3
  <1>5. ASSUME NEW t \in Threads, sem_timedwait_returns(t) PROVE SemIndInv'
    BY <1>5, SemReturnsInv
  <1>6. ASSUME NEW t \in Threads, sem_trywait(t) PROVE SemIndInv'
    BY <1>6, SemTakeInv DEF sem_trywait, SemIndInv, SemInv, SemTypeOK
  <1>7. ASSUME NEW t \in Threads, sem_timeout_interrupt(t) PROVE SemIndInv'
    BY <1>7, SemTimeoutInv
  <1>8. CASE UNCHANGED <<wqvars, semvars>>
    BY <1>8
    DEF SemIndInv, SemInv, SemTypeOK, CountAccounts, NoOverIssue, Available, SemCalls,
        SemInsideIsQueued, NoWaitForAvailable, SemInside, SemGranted, Waiting,
        WaitQueueInv, WaitQueueTypeOK, QueueMatchesState, wqvars, semvars
  <1> QED BY <1>1, <1>2, <1>3, <1>4, <1>5, <1>6, <1>7, <1>8 DEF SemNext

(* sem_post, the waits and the back-out of a timed-out wait keep an exact  *)
(* count, and no resource is given out twice.                              *)
THEOREM SemaphoreExact == SemSpec => []SemInv
  <1>1. SemIndInv => SemInv
    BY DEF SemIndInv
  <1> QED BY <1>1, SemInitInv, SemStepInv, PTL DEF SemSpec

(* As long as no timed wait has expired, nobody waits in sem_timedwait for *)
(* a resource that sem_post has made available.                            *)
THEOREM SemaphoreServes == SemSpec => []NoWaitForAvailable
  <1>1. SemIndInv => NoWaitForAvailable
    BY DEF SemIndInv
  <1> QED BY <1>1, SemInitInv, SemStepInv, PTL DEF SemSpec
-----------------------------------------------------------------------------
(* The event. *)

(* Who is BLOCKED is inside a wait; before event_init there is nobody and  *)
(* nothing.                                                                *)
EventCalls ==
  /\ \A t \in Threads : tstate[t] = "BLOCKED" => ev_pc[t] = "block"
  /\ ev_life = "none" => /\ \A t \in Threads : ev_pc[t] = "out"
                         /\ ~signaled
                         /\ passed = 0

(* The inductive invariant of the event. *)
EventIndInv == WaitQueueInv /\ EventInv /\ EventCalls

(* The released threads are finite in number. *)
LEMMA ReleasedFinite == IsFiniteSet(Released) /\ Cardinality(Released) \in Nat
  BY EventAssumption, FS_Subset, FS_CardinalityType DEF Released

(* The initial state. *)
LEMMA EventInitInv == WaitQueueInit /\ EventInit => EventIndInv
  <1> SUFFICES ASSUME WaitQueueInit, EventInit PROVE EventIndInv
    OBVIOUS
  <1>1. WaitQueueInv
    BY InitialQueue
  <1>2. EventTypeOK
    <2>1. autounsignal \in BOOLEAN /\ signaled \in BOOLEAN
      BY DEF EventInit
    <2> QED BY <2>1, EventAssumption DEF EventInit, EventTypeOK
  <1>3. NoWaiterWhileSignaled /\ OnePerSignal /\ EventCalls
    BY DEF NoWaiterWhileSignaled, OnePerSignal, EventCalls, EventInit, WaitQueueInit
  <1> QED BY <1>1, <1>2, <1>3 DEF EventIndInv, EventInv

(* event_init: the first signal is counted, and nobody is there yet. *)
LEMMA EventInitializeInv ==
  ASSUME EventIndInv, NEW initial \in BOOLEAN, NEW auto \in BOOLEAN, event_init(initial, auto)
  PROVE  EventIndInv'
  <1> USE DEF event_init
  <1>1. WaitQueueInv' /\ Waiting' = Waiting
    BY QueueUntouched DEF EventIndInv, wqvars, WaitQueueInv, WaitQueueTypeOK
  <1>2. \A t \in Threads : ev_pc[t] = "out" /\ tstate[t] # "BLOCKED"
    BY DEF EventIndInv, EventCalls
  <1>3. Released' = {} /\ wait' = <<>>
    <2>1. Waiting = {}
      BY <1>2, WaitingPositions DEF EventIndInv, WaitQueueInv, QueueMatchesState
    <2> QED BY <1>2, <2>1, WaitingPositions DEF EventIndInv, WaitQueueInv, Released, wqvars
  <1>4. EventTypeOK'
    <2>1. signals' \in 0 .. MaxSignals
      BY EventAssumption
    <2>2. autounsignal' \in BOOLEAN /\ signaled' \in BOOLEAN
      OBVIOUS
    <2> QED BY <2>1, <2>2 DEF EventIndInv, EventInv, EventTypeOK
  <1>5. NoWaiterWhileSignaled'
    BY <1>3 DEF NoWaiterWhileSignaled
  <1>6. OnePerSignal'
    <2>1. passed' = 0 /\ Cardinality(Released') = 0
      BY <1>3, FS_EmptySet DEF EventIndInv, EventCalls
    <2>2. signals' = IF signaled' THEN 1 ELSE 0
      OBVIOUS
    <2> QED BY <2>1, <2>2 DEF OnePerSignal
  <1>7. EventCalls'
    BY <1>2 DEF EventCalls, wqvars
  <1> QED BY <1>1, <1>4, <1>5, <1>6, <1>7 DEF EventIndInv, EventInv

(* A wait that finds the event signaled goes through and, with             *)
(* autounsignal, takes the signal with it.                                 *)
LEMMA EventPassInv ==
  ASSUME EventIndInv, ev_life = "live", signaled, signaled' = ~autounsignal, Passes,
         UNCHANGED <<wqvars, ev_pc, autounsignal, ev_life, signals>>
  PROVE  EventIndInv'
  <1>1. WaitQueueInv'
    BY QueueUntouched DEF EventIndInv, wqvars, WaitQueueInv, WaitQueueTypeOK
  <1>2. Released' = Released
    BY DEF Released, wqvars
  <1>3. EventTypeOK'
    <2>1. signaled' \in BOOLEAN
      BY DEF EventIndInv, EventInv, EventTypeOK
    <2> QED BY <2>1 DEF EventIndInv, EventInv, EventTypeOK, Passes
  <1>4. NoWaiterWhileSignaled'
    BY DEF EventIndInv, EventInv, NoWaiterWhileSignaled, wqvars
  <1>5. OnePerSignal'
    <2> SUFFICES ASSUME autounsignal'
                 PROVE  passed' + Cardinality(Released)' + (IF signaled' THEN 1 ELSE 0) <= signals'
      BY DEF OnePerSignal
    <2>1. autounsignal /\ ~signaled' /\ passed' = passed + 1
      BY DEF Passes
    <2>2. passed + Cardinality(Released) + 1 <= signals
      BY <2>1 DEF EventIndInv, EventInv, OnePerSignal
    <2> QED BY <1>2, <2>1, <2>2, ReleasedFinite DEF EventIndInv, EventInv, EventTypeOK
  <1>6. EventCalls'
    BY DEF EventIndInv, EventCalls, wqvars
  <1> QED BY <1>1, <1>3, <1>4, <1>5, <1>6 DEF EventIndInv, EventInv

(* A wait that blocks does so on an event that is not signaled. *)
LEMMA EventBlockInv ==
  ASSUME EventIndInv, NEW t \in Threads, NEW timeout,
         ev_life = "live", ev_pc[t] = "out", ~signaled, wait_queue_block(t, timeout),
         ev_pc' = [ev_pc EXCEPT ![t] = "block"],
         UNCHANGED <<signaled, passed, autounsignal, ev_life, signals>>
  PROVE  EventIndInv'
  <1>0. WaitQueueInv /\ EventTypeOK /\ OnePerSignal /\ tstate[t] = "READY"
    BY DEF EventIndInv, EventInv, EventCalls, WaitQueueInv, WaitQueueTypeOK
  <1>1. WaitQueueInv'
    BY <1>0, BlockPreserves
  <1>2. Released' = Released
    BY <1>0 DEF Released, wait_queue_block, EventTypeOK, WaitQueueInv, WaitQueueTypeOK
  <1>3. EventTypeOK'
    BY <1>0 DEF EventTypeOK
  <1>4. NoWaiterWhileSignaled' /\ OnePerSignal'
    BY <1>0, <1>2 DEF NoWaiterWhileSignaled, OnePerSignal
  <1>5. EventCalls'
    BY <1>0 DEF EventIndInv, EventCalls, EventTypeOK, wait_queue_block, WaitQueueInv, WaitQueueTypeOK
  <1> QED BY <1>1, <1>3, <1>4, <1>5 DEF EventIndInv, EventInv

(* A released thread is counted as released until it has passed. *)
LEMMA EventReturnsInv ==
  ASSUME EventIndInv, NEW t \in Threads, event_wait_returns(t)
  PROVE  EventIndInv'
  <1>0. /\ WaitQueueInv /\ EventTypeOK /\ OnePerSignal /\ NoWaiterWhileSignaled
        /\ ev_pc[t] = "block" /\ tstate[t] = "READY" /\ UNCHANGED <<wait, tstate, block_ret>>
        /\ UNCHANGED <<autounsignal, ev_life, signaled, signals>>
        /\ ev_pc' = [ev_pc EXCEPT ![t] = "out"]
        /\ IF block_ret[t] = NO_ERROR THEN Passes ELSE UNCHANGED passed
    BY DEF EventIndInv, EventInv, event_wait_returns, wait_queue_block_returns
  <1>1. WaitQueueInv'
    BY <1>0, QueueUntouched
    DEF event_wait_returns, wait_queue_block_returns, WaitQueueInv, WaitQueueTypeOK
  <1>2. Released' = Released \ {t} /\ (t \in Released <=> block_ret[t] = NO_ERROR)
    BY <1>0 DEF EventTypeOK, Released
  <1>3. Cardinality(Released') =
          IF t \in Released THEN Cardinality(Released) - 1 ELSE Cardinality(Released)
    BY <1>2, ReleasedFinite, FS_RemoveElement
  <1>4. EventTypeOK'
    BY <1>0 DEF EventTypeOK, Passes
  <1>5. NoWaiterWhileSignaled'
    BY <1>0 DEF NoWaiterWhileSignaled
  <1>6. OnePerSignal'
    BY <1>0, <1>2, <1>3, ReleasedFinite DEF EventTypeOK, OnePerSignal, Passes
  <1>7. EventCalls'
    BY <1>0 DEF EventIndInv, EventCalls, EventTypeOK
  <1> QED BY <1>1, <1>4, <1>5, <1>6, <1>7 DEF EventIndInv, EventInv

(* event_signal: one signal either stays with the event or releases one    *)
(* thread; without autounsignal it empties the queue.                      *)
LEMMA SignalInv ==
  ASSUME EventIndInv, Signal
  PROVE  EventIndInv'
  <1>0. /\ WaitQueueInv /\ EventTypeOK /\ OnePerSignal /\ NoWaiterWhileSignaled /\ EventCalls
        /\ ev_life = "live" /\ UNCHANGED <<autounsignal, ev_life, ev_pc, passed>>
        /\ signals' = signals + 1 /\ signals < MaxSignals
        /\ NO_ERROR \in Status
    BY DEF EventIndInv, EventInv, Signal, event_signal, Status
  <1>1. ASSUME signaled' \in BOOLEAN PROVE EventTypeOK'
    BY <1>0, <1>1, EventAssumption DEF EventTypeOK
  <1>2. CASE signaled /\ UNCHANGED <<wqvars, signaled>>
    <2>1. WaitQueueInv'
      BY <1>0, <1>2, QueueUntouched DEF wqvars, WaitQueueInv, WaitQueueTypeOK
    <2>2. Released' = Released
      BY <1>0, <1>2 DEF Released, wqvars
    <2>3. NoWaiterWhileSignaled' /\ EventCalls'
      BY <1>0, <1>2 DEF NoWaiterWhileSignaled, EventCalls, wqvars
    <2>4. OnePerSignal'
      BY <1>0, <1>2, <2>2, ReleasedFinite DEF OnePerSignal, EventTypeOK
    <2>5. signaled' \in BOOLEAN
      BY <1>0, <1>2 DEF EventTypeOK
    <2> QED BY <1>1, <2>1, <2>3, <2>4, <2>5 DEF EventIndInv, EventInv
  <1>3. CASE ~signaled /\ autounsignal /\ wait_queue_wake_one(NO_ERROR) /\ signaled' = (wait = <<>>)
             /\ wait = <<>>
    <2>1. UNCHANGED wqvars /\ signaled' = TRUE
      BY <1>3 DEF wait_queue_wake_one
    <2>2. WaitQueueInv'
      BY <1>0, <2>1, QueueUntouched DEF wqvars, WaitQueueInv, WaitQueueTypeOK
    <2>3. Released' = Released
      BY <1>0, <2>1 DEF Released, wqvars
    <2>4. NoWaiterWhileSignaled' /\ EventCalls'
      BY <1>0, <1>3, <2>1 DEF NoWaiterWhileSignaled, EventCalls, wqvars
    <2>5. OnePerSignal'
      BY <1>0, <1>3, <2>1, <2>3, ReleasedFinite DEF OnePerSignal, EventTypeOK
    <2> QED BY <1>1, <2>1, <2>2, <2>4, <2>5 DEF EventIndInv, EventInv
  <1>4. CASE ~signaled /\ autounsignal /\ wait_queue_wake_one(NO_ERROR) /\ signaled' = (wait = <<>>)
             /\ wait # <<>>
    <2>1. WaitQueueInv' /\ Head(wait) \in Waiting
      BY <1>0, <1>4, WakeOnePreserves
    <2>2. /\ tstate' = [tstate EXCEPT ![Head(wait)] = "READY"]
          /\ block_ret' = [block_ret EXCEPT ![Head(wait)] = NO_ERROR]
      BY <1>4 DEF wait_queue_wake_one
    <2>3. signaled' = FALSE
      BY <1>4
    <2>4. Head(wait) \in Threads /\ tstate[Head(wait)] = "BLOCKED"
      BY <1>0, <2>1, WaitingPositions DEF WaitQueueInv, QueueMatchesState
    <2>5. Released' = Released \cup {Head(wait)} /\ Head(wait) \notin Released
      BY <1>0, <2>2, <2>4 DEF Released, EventCalls, WaitQueueInv, WaitQueueTypeOK
    <2>6. Cardinality(Released') = Cardinality(Released) + 1
      BY <2>5, ReleasedFinite, FS_AddElement
    <2>7. NoWaiterWhileSignaled'
      BY <1>0, <2>3 DEF NoWaiterWhileSignaled
    <2>8. OnePerSignal'
      BY <1>0, <1>4, <2>3, <2>6, ReleasedFinite DEF OnePerSignal, EventTypeOK
    <2>9. EventCalls'
      BY <1>0, <2>2 DEF EventCalls, WaitQueueInv, WaitQueueTypeOK
    <2> QED BY <1>1, <2>1, <2>3, <2>7, <2>8, <2>9 DEF EventIndInv, EventInv
  <1>5. CASE ~signaled /\ ~autounsignal /\ wait_queue_wake_all(NO_ERROR) /\ signaled' = TRUE
    <2>1. WaitQueueInv'
      BY <1>0, <1>5, WakeAllPreserves
    <2>2. NoWaiterWhileSignaled' /\ OnePerSignal'
      BY <1>0, <1>5 DEF NoWaiterWhileSignaled, OnePerSignal, wait_queue_wake_all
    <2>3. EventCalls'
      BY <1>0, <1>5 DEF EventCalls, wait_queue_wake_all
    <2> QED BY <1>1, <1>5, <2>1, <2>2, <2>3 DEF EventIndInv, EventInv
  <1> QED BY <1>2, <1>3, <1>4, <1>5 DEF Signal, event_signal

(* event_unsignal and event_destroy. *)
LEMMA EventOverInv ==
  ASSUME EventIndInv, event_unsignal \/ event_destroy
  PROVE  EventIndInv'
  <1>0. WaitQueueInv /\ EventTypeOK /\ OnePerSignal /\ NoWaiterWhileSignaled /\ EventCalls
    BY DEF EventIndInv, EventInv
  <1>1. CASE event_unsignal
    <2>1. WaitQueueInv' /\ Released' = Released
      BY <1>0, <1>1, QueueUntouched
      DEF event_unsignal, wqvars, WaitQueueInv, WaitQueueTypeOK, Released
    <2>2. EventTypeOK'
      BY <1>0, <1>1 DEF event_unsignal, EventTypeOK
    <2>3. OnePerSignal'
      BY <1>0, <1>1, <2>1, ReleasedFinite DEF event_unsignal, OnePerSignal, EventTypeOK
    <2>4. NoWaiterWhileSignaled' /\ EventCalls'
      BY <1>0, <1>1 DEF event_unsignal, NoWaiterWhileSignaled, EventCalls, wqvars
    <2> QED BY <2>1, <2>2, <2>3, <2>4 DEF EventIndInv, EventInv
  <1>2. CASE event_destroy
    <2>1. WaitQueueInv' /\ wait' = <<>>
      BY <1>0, <1>2, WakeAllPreserves
      DEF event_destroy, wait_queue_destroy, wait_queue_wake_all, Status
    <2>2. EventTypeOK'
      BY <1>0, <1>2 DEF event_destroy, EventTypeOK
    <2>3. OnePerSignal' /\ NoWaiterWhileSignaled'
      BY <1>2, <2>1 DEF event_destroy, OnePerSignal, NoWaiterWhileSignaled
    <2>4. EventCalls'
      BY <1>0, <1>2 DEF event_destroy, EventCalls, wait_queue_destroy, wait_queue_wake_all
    <2> QED BY <2>1, <2>2, <2>3, <2>4 DEF EventIndInv, EventInv
  <1> QED BY <1>1, <1>2

(* The timer interrupt releases nobody with NO_ERROR. *)
LEMMA EventTimeoutInv ==
  ASSUME EventIndInv, NEW t \in Threads, event_timeout_interrupt(t)
  PROVE  EventIndInv'
  <1>0. /\ WaitQueueInv /\ EventTypeOK /\ OnePerSignal /\ NoWaiterWhileSignaled /\ EventCalls
        /\ wait_queue_timeout_handler(t) /\ UNCHANGED eventvars
    BY DEF EventIndInv, EventInv, event_timeout_interrupt
  <1>1. WaitQueueInv' /\ Waiting' \subseteq Waiting
    <2>1. CASE tstate[t] = "BLOCKED"
      BY <1>0, <2>1, TimeoutPreserves
    <2>2. CASE tstate[t] # "BLOCKED"
      BY <1>0, <2>2, QueueUntouched
      DEF wait_queue_timeout_handler, WaitQueueInv, WaitQueueTypeOK
    <2> QED BY <2>1, <2>2
  <1>2. Released' = Released
    BY <1>0
    DEF Released, wait_queue_timeout_handler, eventvars, WaitQueueInv, WaitQueueTypeOK,
        NO_ERROR, ERR_TIMED_OUT
  <1>3. EventTypeOK' /\ OnePerSignal'
    BY <1>0, <1>2 DEF EventTypeOK, OnePerSignal, eventvars
  <1>4. NoWaiterWhileSignaled'
    <2>1. wait = <<>> => wait' = <<>>
      BY <1>0, <1>1, WaitingPositions, NobodyQueued DEF WaitQueueInv, WaitQueueTypeOK, Waiting
    <2> QED BY <1>0, <2>1 DEF NoWaiterWhileSignaled, eventvars
  <1>5. EventCalls'
    BY <1>0 DEF EventCalls, wait_queue_timeout_handler, eventvars, WaitQueueInv, WaitQueueTypeOK
  <1> QED BY <1>1, <1>3, <1>4, <1>5 DEF EventIndInv, EventInv

(* Every step of the event keeps the invariant. *)
LEMMA EventStepInv == EventIndInv /\ [EventNext]_<<wqvars, eventvars>> => EventIndInv'
  <1> SUFFICES ASSUME EventIndInv, [EventNext]_<<wqvars, eventvars>>
               PROVE  EventIndInv'
    OBVIOUS
  <1>1. ASSUME NEW initial \in BOOLEAN, NEW auto \in BOOLEAN, event_init(initial, auto)
        PROVE  EventIndInv'
    BY <1>1, EventInitializeInv
  <1>2. CASE Signal
    BY <1>2, SignalInv
  <1>3. CASE event_unsignal \/ event_destroy
    BY <1>3, EventOverInv
  <1>4. ASSUME NEW t \in Threads, NEW timeout \in EventTimeouts, event_wait_timeout(t, timeout)
        PROVE  EventIndInv'
    <2>1. CASE signaled
      BY <1>4, <2>1, EventPassInv DEF event_wait_timeout
    <2>2. CASE ~signaled
      BY <1>4, <2>2, EventBlockInv DEF event_wait_timeout
    <2> QED BY <2>1, <2>2
  <1>5. ASSUME NEW t \in Threads, event_wait_returns(t) PROVE EventIndInv'
    BY <1>5, EventReturnsInv
  <1>6. ASSUME NEW t \in Threads, event_timeout_interrupt(t) PROVE EventIndInv'
    BY <1>6, EventTimeoutInv
  <1>7. CASE UNCHANGED <<wqvars, eventvars>>
    <2>1. Released' = Released /\ Waiting' = Waiting
      BY <1>7 DEF Released, Waiting, wqvars, eventvars
    <2> QED BY <1>7, <2>1
            DEF EventIndInv, EventInv, EventTypeOK, NoWaiterWhileSignaled, OnePerSignal,
                EventCalls, WaitQueueInv, WaitQueueTypeOK, QueueMatchesState, wqvars, eventvars
  <1> QED BY <1>1, <1>2, <1>3, <1>4, <1>5, <1>6, <1>7 DEF EventNext

(* Nobody stays in the queue of a signaled or destroyed event, and with    *)
(* EVENT_FLAG_AUTOUNSIGNAL no more threads get through than there were     *)
(* signals.                                                                *)
THEOREM EventCorrect == EventSpec => []EventInv
  <1>1. EventIndInv => EventInv
    BY DEF EventIndInv
  <1> QED BY <1>1, EventInitInv, EventStepInv, PTL DEF EventSpec
-----------------------------------------------------------------------------
(* The end of a thread. *)

(* A BLOCKED caller is in thread_join, and as long as the thread was never *)
(* due to two callers at once, whoever it is due to finds it there.        *)
ThreadCalls ==
  /\ \A t \in Threads : tstate[t] = "BLOCKED" => th_pc[t] = "join"
  /\ ~contested /\ Due # {} => th_magic

(* The inductive invariant of a thread's life. *)
ThreadLifeIndInv == WaitQueueInv /\ ThreadLifeInv /\ ThreadCalls

(* The initial state. *)
LEMMA ThreadLifeInitInv == WaitQueueInit /\ ThreadLifeInit => ThreadLifeIndInv
  <1> SUFFICES ASSUME WaitQueueInit, ThreadLifeInit PROVE ThreadLifeIndInv
    OBVIOUS
  <1>1. WaitQueueInv /\ Waiting = {}
    BY InitialQueue
  <1>2. ThreadLifeTypeOK
    <2>1. th_magic \in BOOLEAN /\ th_detached \in BOOLEAN /\ contested \in BOOLEAN
      BY DEF ThreadLifeInit
    <2> QED BY <2>1 DEF ThreadLifeInit, ThreadLifeTypeOK
  <1>3. Due = {}
    BY DEF Due, ThreadLifeInit
  <1> QED BY <1>1, <1>2, <1>3
          DEF ThreadLifeIndInv, ThreadLifeInv, TornDownOnce, JoinersReleased, ThreadCalls,
              ThreadLifeInit, WaitQueueInit

(* thread_create and thread_resume: nobody is due to tear down a thread    *)
(* that is not dead.                                                       *)
LEMMA ThreadStartInv ==
  ASSUME ThreadLifeIndInv, thread_create \/ thread_resume
  PROVE  ThreadLifeIndInv'
  <1>1. UNCHANGED <<wqvars, th_pc, touched, contested>>
    BY DEF thread_create, thread_resume
  <1>2. WaitQueueInv' /\ Waiting' = Waiting /\ Due' = Due
    BY <1>1, QueueUntouched DEF ThreadLifeIndInv, WaitQueueInv, WaitQueueTypeOK, wqvars, Due
  <1>3. Due = {} /\ th_state # "DEATH"
    BY DEF thread_create, thread_resume, ThreadLifeIndInv, ThreadLifeInv, JoinersReleased
  <1>4. ThreadLifeTypeOK'
    BY <1>1 DEF thread_create, thread_resume, ThreadLifeIndInv, ThreadLifeInv, ThreadLifeTypeOK
  <1>5. JoinersReleased'
    BY <1>2, <1>3
    DEF thread_create, thread_resume, ThreadLifeIndInv, ThreadLifeInv, JoinersReleased
  <1>6. TornDownOnce' /\ ThreadCalls'
    BY <1>1, <1>2, <1>3
    DEF ThreadLifeIndInv, ThreadLifeInv, TornDownOnce, ThreadCalls, wqvars
  <1> QED BY <1>2, <1>4, <1>5, <1>6 DEF ThreadLifeIndInv, ThreadLifeInv

(* Tearing down: t is due the dead thread, or comes to it while its magic  *)
(* is intact; if nobody else is due, nobody is afterwards.                 *)
LEMMA ReapInv ==
  ASSUME ThreadLifeIndInv, NEW t \in Threads, Reap(t), th_magic \/ t \in Due,
         th_state = "DEATH", tstate[t] = "READY",
         UNCHANGED <<wait, tstate, block_ret>>, timer' \in SUBSET Threads
  PROVE  ThreadLifeIndInv'
  <1>0. /\ WaitQueueInv /\ ThreadLifeTypeOK /\ TornDownOnce /\ JoinersReleased /\ ThreadCalls
        /\ UNCHANGED <<th_state, th_detached>> /\ th_magic' = FALSE
        /\ th_pc' = [th_pc EXCEPT ![t] = "out"]
        /\ touched' = IF th_magic THEN touched ELSE touched \cup {t}
        /\ contested' = (contested \/ Due \ {t} # {})
    BY DEF ThreadLifeIndInv, ThreadLifeInv, Reap
  <1>1. WaitQueueInv' /\ Waiting' = Waiting
    BY <1>0, QueueUntouched
  <1>2. Due' = Due \ {t}
    BY <1>0 DEF Due, ThreadLifeTypeOK
  <1>3. ThreadLifeTypeOK'
    <2>1. contested' \in BOOLEAN /\ th_magic' \in BOOLEAN
      BY <1>0 DEF ThreadLifeTypeOK
    <2> QED BY <1>0, <2>1 DEF ThreadLifeTypeOK
  <1>4. ~contested' => touched' = {} /\ Due' = {}
    BY <1>0, <1>2 DEF TornDownOnce, ThreadCalls
  <1>5. JoinersReleased'
    BY <1>0, <1>1, <1>2 DEF JoinersReleased
  <1>6. \A u \in Threads : tstate'[u] = "BLOCKED" => th_pc'[u] = "join"
    BY <1>0 DEF ThreadCalls, ThreadLifeTypeOK
  <1> QED BY <1>1, <1>3, <1>4, <1>5, <1>6
          DEF ThreadLifeIndInv, ThreadLifeInv, TornDownOnce, ThreadCalls

(* thread_join: the caller blocks on a thread that is neither dead nor     *)
(* detached.                                                               *)
LEMMA JoinBlockInv ==
  ASSUME ThreadLifeIndInv, NEW t \in Threads, NEW timeout, th_pc[t] = "out", ~th_detached,
         th_state # "DEATH", wait_queue_block(t, timeout),
         th_pc' = [th_pc EXCEPT ![t] = "join"],
         UNCHANGED <<th_state, th_magic, th_detached, touched, contested>>
  PROVE  ThreadLifeIndInv'
  <1>0. /\ WaitQueueInv /\ ThreadLifeTypeOK /\ TornDownOnce /\ JoinersReleased /\ ThreadCalls
        /\ tstate[t] = "READY"
    BY DEF ThreadLifeIndInv, ThreadLifeInv, ThreadCalls, WaitQueueInv, WaitQueueTypeOK
  <1>1. WaitQueueInv'
    BY <1>0, BlockPreserves
  <1>2. Due' = Due
    BY <1>0 DEF Due, wait_queue_block, ThreadLifeTypeOK, WaitQueueInv, WaitQueueTypeOK
  <1>3. ThreadLifeTypeOK'
    BY <1>0 DEF ThreadLifeTypeOK
  <1>4. JoinersReleased' /\ TornDownOnce'
    BY <1>0, <1>2 DEF JoinersReleased, TornDownOnce
  <1>5. ThreadCalls'
    BY <1>0, <1>2
    DEF ThreadCalls, ThreadLifeTypeOK, wait_queue_block, WaitQueueInv, WaitQueueTypeOK
  <1> QED BY <1>1, <1>3, <1>4, <1>5 DEF ThreadLifeIndInv, ThreadLifeInv

(* The return from thread_join's wait, with and without the thread. *)
LEMMA JoinReturnsInv ==
  ASSUME ThreadLifeIndInv, NEW t \in Threads, thread_join_returns(t)
  PROVE  ThreadLifeIndInv'
  <1>0. /\ WaitQueueInv /\ ThreadLifeTypeOK /\ TornDownOnce /\ JoinersReleased /\ ThreadCalls
        /\ th_pc[t] = "join" /\ tstate[t] = "READY" /\ UNCHANGED <<wait, tstate, block_ret>>
        /\ timer' \in SUBSET Threads
    BY DEF ThreadLifeIndInv, ThreadLifeInv, thread_join_returns, wait_queue_block_returns,
           WaitQueueInv, WaitQueueTypeOK
  <1>1. CASE block_ret[t] = NO_ERROR
    <2>1. t \in Due /\ th_state = "DEATH"
      BY <1>0, <1>1 DEF Due, JoinersReleased
    <2> QED BY <1>0, <1>1, <2>1, ReapInv DEF thread_join_returns
  <1>2. CASE block_ret[t] # NO_ERROR
    <2>1. /\ th_pc' = [th_pc EXCEPT ![t] = "out"]
          /\ UNCHANGED <<th_state, th_magic, th_detached, touched, contested>>
      BY <1>2 DEF thread_join_returns
    <2>2. WaitQueueInv' /\ Waiting' = Waiting
      BY <1>0, QueueUntouched
    <2>3. Due' = Due
      BY <1>0, <1>2, <2>1 DEF Due, ThreadLifeTypeOK
    <2>4. ThreadLifeTypeOK'
      BY <1>0, <2>1 DEF ThreadLifeTypeOK
    <2>5. JoinersReleased' /\ TornDownOnce'
      BY <1>0, <2>1, <2>2, <2>3 DEF JoinersReleased, TornDownOnce
    <2>6. ThreadCalls'
      BY <1>0, <2>1, <2>3 DEF ThreadCalls, ThreadLifeTypeOK
    <2> QED BY <2>2, <2>4, <2>5, <2>6 DEF ThreadLifeIndInv, ThreadLifeInv
  <1> QED BY <1>1, <1>2

(* thread_detach: the joiners it wakes are not due the thread; on a dead   *)
(* one the caller becomes due itself, and contested says whether somebody  *)
(* was before it.                                                          *)
LEMMA DetachInv ==
  ASSUME ThreadLifeIndInv, NEW t \in Threads, thread_detach(t)
  PROVE  ThreadLifeIndInv'
  <1>0. /\ WaitQueueInv /\ ThreadLifeTypeOK /\ TornDownOnce /\ JoinersReleased /\ ThreadCalls
        /\ th_magic /\ th_pc[t] = "out" /\ UNCHANGED <<th_state, th_magic, touched>>
        /\ wait_queue_wake_all(ERR_THREAD_DETACHED)
        /\ th_detached' = (th_state # "DEATH")
        /\ th_pc' = [th_pc EXCEPT ![t] = IF th_state = "DEATH" THEN "reap" ELSE "out"]
        /\ contested' = (contested \/ (th_state = "DEATH" /\ Due # {}))
    BY DEF ThreadLifeIndInv, ThreadLifeInv, thread_detach
  <1>1. WaitQueueInv' /\ Waiting' = {}
    BY <1>0, WakeAllPreserves DEF Status
  <1>2. Due' = IF th_state = "DEATH" THEN Due \cup {t} ELSE Due
    BY <1>0
    DEF Due, ThreadLifeTypeOK, wait_queue_wake_all, WaitQueueInv, QueueMatchesState,
        NO_ERROR, ERR_THREAD_DETACHED
  <1>3. ThreadLifeTypeOK'
    <2>1. contested' \in BOOLEAN /\ th_detached' \in BOOLEAN
      BY <1>0 DEF ThreadLifeTypeOK
    <2> QED BY <1>0, <2>1 DEF ThreadLifeTypeOK
  <1>4. JoinersReleased'
    BY <1>0, <1>1, <1>2 DEF JoinersReleased
  <1>5. TornDownOnce'
    BY <1>0 DEF TornDownOnce
  <1>6. ThreadCalls'
    BY <1>0, <1>1 DEF ThreadCalls, WaitQueueInv, QueueMatchesState
  <1> QED BY <1>1, <1>3, <1>4, <1>5, <1>6 DEF ThreadLifeIndInv, ThreadLifeInv

(* thread_exit: a detached thread has no joiners; otherwise all of them    *)
(* are told, and the thread stays until one of them comes for it.          *)
LEMMA ExitInv ==
  ASSUME ThreadLifeIndInv, thread_exit
  PROVE  ThreadLifeIndInv'
  <1>0. /\ WaitQueueInv /\ ThreadLifeTypeOK /\ TornDownOnce /\ JoinersReleased /\ ThreadCalls
        /\ th_magic /\ th_state = "READY" /\ th_state' = "DEATH"
        /\ UNCHANGED <<th_detached, th_pc, touched>>
        /\ Due = {}
    BY DEF ThreadLifeIndInv, ThreadLifeInv, thread_exit, JoinersReleased
  <1>1. CASE th_detached /\ th_magic' = FALSE /\ UNCHANGED <<wqvars, contested>>
    <2>1. WaitQueueInv' /\ Waiting' = Waiting /\ Due' = Due
      BY <1>0, <1>1, QueueUntouched DEF WaitQueueInv, WaitQueueTypeOK, wqvars, Due
    <2>2. ThreadLifeTypeOK'
      BY <1>0, <1>1 DEF ThreadLifeTypeOK
    <2>3. JoinersReleased' /\ TornDownOnce' /\ ThreadCalls'
      BY <1>0, <1>1, <2>1 DEF JoinersReleased, TornDownOnce, ThreadCalls, wqvars
    <2> QED BY <2>1, <2>2, <2>3 DEF ThreadLifeIndInv, ThreadLifeInv
  <1>2. CASE /\ wait_queue_wake_all(NO_ERROR)
             /\ contested' = (contested \/ Cardinality(Waiting) > 1)
             /\ UNCHANGED th_magic
    <2>1. WaitQueueInv' /\ Waiting' = {}
      BY <1>0, <1>2, WakeAllPreserves DEF Status
    <2>2. ThreadLifeTypeOK'
      <3>1. contested' \in BOOLEAN
        BY <1>0, <1>2 DEF ThreadLifeTypeOK
      <3> QED BY <1>0, <1>2, <3>1 DEF ThreadLifeTypeOK
    <2>3. JoinersReleased'
      BY <1>0, <2>1 DEF JoinersReleased
    <2>4. TornDownOnce'
      BY <1>0, <1>2 DEF TornDownOnce
    <2>5. ThreadCalls'
      BY <1>0, <1>2, <2>1 DEF ThreadCalls, WaitQueueInv, QueueMatchesState
    <2> QED BY <2>1, <2>2, <2>3, <2>4, <2>5 DEF ThreadLifeIndInv, ThreadLifeInv
  <1> QED BY <1>1, <1>2 DEF thread_exit

(* The timer of a joiner. *)
LEMMA JoinTimeoutInv ==
  ASSUME ThreadLifeIndInv, NEW t \in Threads, join_timeout_interrupt(t)
  PROVE  ThreadLifeIndInv'
  <1>0. /\ WaitQueueInv /\ ThreadLifeTypeOK /\ TornDownOnce /\ JoinersReleased /\ ThreadCalls
        /\ wait_queue_timeout_handler(t) /\ UNCHANGED thvars
    BY DEF ThreadLifeIndInv, ThreadLifeInv, join_timeout_interrupt
  <1>1. WaitQueueInv' /\ Waiting' \subseteq Waiting
    <2>1. CASE tstate[t] = "BLOCKED"
      BY <1>0, <2>1, TimeoutPreserves
    <2>2. CASE tstate[t] # "BLOCKED"
      BY <1>0, <2>2, QueueUntouched
      DEF wait_queue_timeout_handler, WaitQueueInv, WaitQueueTypeOK
    <2> QED BY <2>1, <2>2
  <1>2. Due' = Due
    BY <1>0
    DEF Due, wait_queue_timeout_handler, thvars, WaitQueueInv, WaitQueueTypeOK,
        NO_ERROR, ERR_TIMED_OUT
  <1>3. ThreadLifeTypeOK' /\ TornDownOnce'
    BY <1>0 DEF ThreadLifeTypeOK, TornDownOnce, thvars
  <1>4. JoinersReleased'
    BY <1>0, <1>1, <1>2 DEF JoinersReleased, thvars
  <1>5. ThreadCalls'
    BY <1>0, <1>2 DEF ThreadCalls, wait_queue_timeout_handler, thvars, WaitQueueInv, WaitQueueTypeOK
  <1> QED BY <1>1, <1>3, <1>4, <1>5 DEF ThreadLifeIndInv, ThreadLifeInv

(* Every step of a thread's life keeps the invariant. *)
LEMMA ThreadLifeStepInv ==
  ThreadLifeIndInv /\ [ThreadLifeNext]_<<wqvars, thvars>> => ThreadLifeIndInv'
  <1> SUFFICES ASSUME ThreadLifeIndInv, [ThreadLifeNext]_<<wqvars, thvars>>
               PROVE  ThreadLifeIndInv'
    OBVIOUS
  <1>0. /\ WaitQueueInv /\ timer \in SUBSET Threads
        /\ \A t \in Threads : th_pc[t] # "join" => tstate[t] = "READY"
        /\ Due # {} => th_state = "DEATH"
    BY DEF ThreadLifeIndInv, ThreadLifeInv, ThreadCalls, JoinersReleased, WaitQueueInv, WaitQueueTypeOK
  <1>1. CASE thread_create \/ thread_resume
    BY <1>1, ThreadStartInv
  <1>2. CASE thread_exit
    BY <1>2, ExitInv
  <1>3. ASSUME NEW t \in Threads, NEW timeout \in JoinTimeouts, thread_join(t, timeout)
        PROVE  ThreadLifeIndInv'
    <2>1. th_magic /\ th_pc[t] = "out" /\ ~th_detached /\ tstate[t] = "READY"
      BY <1>0, <1>3 DEF thread_join
    <2>2. CASE th_state = "DEATH"
      BY <1>0, <1>3, <2>1, <2>2, ReapInv DEF thread_join, wqvars
    <2>3. CASE th_state # "DEATH"
      BY <1>3, <2>1, <2>3, JoinBlockInv DEF thread_join
    <2> QED BY <2>2, <2>3
  <1>4. ASSUME NEW t \in Threads, thread_join_returns(t) PROVE ThreadLifeIndInv'
    BY <1>4, JoinReturnsInv
  <1>5. ASSUME NEW t \in Threads, thread_detach(t) PROVE ThreadLifeIndInv'
    BY <1>5, DetachInv
  <1>6. ASSUME NEW t \in Threads, thread_detach_reaps(t) PROVE ThreadLifeIndInv'
    <2>1. t \in Due /\ tstate[t] = "READY"
      BY <1>0, <1>6 DEF thread_detach_reaps, Due
    <2> QED BY <1>0, <1>6, <2>1, ReapInv DEF thread_detach_reaps, wqvars
  <1>7. ASSUME NEW t \in Threads, join_timeout_interrupt(t) PROVE ThreadLifeIndInv'
    BY <1>7, JoinTimeoutInv
  <1>8. CASE UNCHANGED <<wqvars, thvars>>
    BY <1>8
    DEF ThreadLifeIndInv, ThreadLifeInv, ThreadLifeTypeOK, TornDownOnce, JoinersReleased,
        ThreadCalls, Due, Waiting, WaitQueueInv, WaitQueueTypeOK, QueueMatchesState, wqvars, thvars
  <1> QED BY <1>1, <1>2, <1>3, <1>4, <1>5, <1>6, <1>7, <1>8 DEF ThreadLifeNext

(* No joiner is left behind in thread_join, and a dead thread that was     *)
(* never due to two callers at once is torn down once.                     *)
THEOREM ThreadLifeCorrect == ThreadLifeSpec => []ThreadLifeInv
  <1>1. ThreadLifeIndInv => ThreadLifeInv
    BY DEF ThreadLifeIndInv
  <1> QED BY <1>1, ThreadLifeInitInv, ThreadLifeStepInv, PTL DEF ThreadLifeSpec
-----------------------------------------------------------------------------
(* The event flag. *)

(* Every waiter waits for one flag of its pattern, as every caller in the  *)
(* program does.  With "AND", whose test is that no flag outside the       *)
(* pattern is up, another waiter's autoclear can make a pattern match, and *)
(* nobody is woken for that.                                               *)
OrOnly == \A r \in Requests : r.mode = "OR"

(* Who is BLOCKED is inside a wait; before evflag_init nobody is. *)
FlagCalls ==
  /\ \A t \in Threads : tstate[t] = "BLOCKED" => fl_pc[t] = "block"
  /\ fl_life = "none" => \A t \in Threads : fl_pc[t] = "out"
  /\ fl_life # "live" => bits = {}

(* The inductive invariant of the event flag. *)
FlagIndInv == WaitQueueInv /\ FlagInv /\ FlagCalls

(* What check_pattern says of a request of the program. *)
LEMMA OrPattern ==
  ASSUME OrOnly, NEW r \in Requests, NEW b
  PROVE  check_pattern(b, r.pattern, r.mode) <=> b \cap r.pattern # {}
  BY DEF OrOnly, check_pattern

(* The request that stands for none. *)
LEMMA NoRequestType == NoRequest \in Requests
  BY EvFlagAssumption DEF NoRequest

(* The initial state. *)
LEMMA FlagInitInv == WaitQueueInit /\ FlagInit => FlagIndInv
  <1> SUFFICES ASSUME WaitQueueInit, FlagInit PROVE FlagIndInv
    OBVIOUS
  <1>1. WaitQueueInv /\ Waiting = {}
    BY InitialQueue
  <1>2. FlagTypeOK
    BY NoRequestType, EvFlagAssumption DEF FlagInit, FlagTypeOK
  <1>3. NoMissedRaise /\ ConsumedOnce /\ FlagCalls
    BY DEF NoMissedRaise, ConsumedOnce, FlagCalls, FlagInit, WaitQueueInit
  <1> QED BY <1>1, <1>2, <1>3 DEF FlagIndInv, FlagInv

(* A wait that matches: the flags it takes are cleared in the same step,   *)
(* and fewer flags match nobody else's pattern.                            *)
LEMMA MatchedInv ==
  ASSUME OrOnly, FlagIndInv, NEW t \in Threads, NEW r \in Requests, Matched(t, r),
         tstate[t] = "READY", UNCHANGED <<wait, tstate, block_ret>>, timer' \in SUBSET Threads,
         UNCHANGED <<fl_life, raises>>
  PROVE  FlagIndInv'
  <1>0. /\ WaitQueueInv /\ FlagTypeOK /\ NoMissedRaise /\ ConsumedOnce /\ FlagCalls
        /\ bits' = IF r.autoclear THEN bits \ r.pattern ELSE bits
        /\ consumed' = [f \in Flags |-> consumed[f] +
                          (IF r.autoclear /\ f \in bits \cap r.pattern THEN 1 ELSE 0)]
        /\ fl_pc' = [fl_pc EXCEPT ![t] = "out"]
        /\ req' = [req EXCEPT ![t] = NoRequest]
    BY DEF FlagIndInv, FlagInv, Matched, clear_pattern
  <1>1. WaitQueueInv' /\ Waiting' = Waiting /\ t \notin Waiting
    BY <1>0, QueueUntouched DEF WaitQueueInv, QueueMatchesState
  <1>2. FlagTypeOK'
    <2>1. consumed' \in [Flags -> Nat]
      BY <1>0 DEF FlagTypeOK
    <2> QED BY <1>0, <2>1, NoRequestType DEF FlagTypeOK
  <1>3. NoMissedRaise'
    <2> SUFFICES ASSUME fl_life # "none", NEW u \in Waiting
                 PROVE  ~check_pattern(bits', req'[u].pattern, req'[u].mode)
      BY <1>1 DEF NoMissedRaise
    <2>1. u \in Threads /\ req'[u] = req[u] /\ req[u] \in Requests
      BY <1>0, <1>1, WaitingPositions DEF FlagTypeOK, WaitQueueInv
    <2>2. bits \cap req[u].pattern = {}
      BY <1>0, <2>1, OrPattern DEF NoMissedRaise
    <2>3. bits' \subseteq bits
      BY <1>0
    <2> QED BY <2>1, <2>2, <2>3, OrPattern
  <1>4. ConsumedOnce'
    BY <1>0 DEF ConsumedOnce, FlagTypeOK
  <1>5. FlagCalls'
    <2>1. \A u \in Threads : tstate'[u] = "BLOCKED" => fl_pc'[u] = "block"
      BY <1>0 DEF FlagCalls, FlagTypeOK
    <2>2. fl_life' = "none" => \A u \in Threads : fl_pc'[u] = "out"
      BY <1>0 DEF FlagCalls, FlagTypeOK
    <2>3. fl_life' # "live" => bits' = {}
      BY <1>0 DEF FlagCalls
    <2> QED BY <2>1, <2>2, <2>3 DEF FlagCalls
  <1> QED BY <1>1, <1>2, <1>3, <1>4, <1>5 DEF FlagIndInv, FlagInv

(* A wait that does not match joins the queue in the step that looked. *)
LEMMA UnmatchedInv ==
  ASSUME FlagIndInv, NEW t \in Threads, NEW r \in Requests, NEW timeout, Unmatched(t, r),
         tstate[t] = "READY", wait_queue_block(t, timeout), fl_life # "none",
         UNCHANGED <<fl_life, raises>>
  PROVE  FlagIndInv'
  <1>0. /\ WaitQueueInv /\ FlagTypeOK /\ NoMissedRaise /\ ConsumedOnce /\ FlagCalls
        /\ ~check_pattern(bits, r.pattern, r.mode)
        /\ fl_pc' = [fl_pc EXCEPT ![t] = "block"]
        /\ req' = [req EXCEPT ![t] = r]
        /\ UNCHANGED <<bits, consumed>>
    BY DEF FlagIndInv, FlagInv, Unmatched
  <1>1. WaitQueueInv' /\ Waiting' = Waiting \cup {t}
    BY <1>0, BlockPreserves
  <1>2. FlagTypeOK'
    BY <1>0 DEF FlagTypeOK
  <1>3. NoMissedRaise'
    <2> SUFFICES ASSUME NEW u \in Waiting \cup {t}
                 PROVE  ~check_pattern(bits, req'[u].pattern, req'[u].mode)
      BY <1>0, <1>1 DEF NoMissedRaise
    <2>1. u \in Threads
      BY <1>0, WaitingPositions DEF WaitQueueInv
    <2>2. CASE u = t
      BY <1>0, <2>1, <2>2 DEF FlagTypeOK
    <2>3. CASE u # t
      <3>1. req'[u] = req[u] /\ u \in Waiting
        BY <1>0, <2>1, <2>3 DEF FlagTypeOK
      <3> QED BY <1>0, <3>1 DEF NoMissedRaise
    <2> QED BY <2>2, <2>3
  <1>4. ConsumedOnce'
    BY <1>0 DEF ConsumedOnce
  <1>5. FlagCalls'
    BY <1>0 DEF FlagCalls, FlagTypeOK, wait_queue_block, WaitQueueInv, WaitQueueTypeOK
  <1> QED BY <1>1, <1>2, <1>3, <1>4, <1>5 DEF FlagIndInv, FlagInv

(* A wait that ends with an error takes no flag. *)
LEMMA FlagErrorInv ==
  ASSUME FlagIndInv, NEW t \in Threads, fl_pc[t] = "block", wait_queue_block_returns(t),
         fl_pc' = [fl_pc EXCEPT ![t] = "out"], req' = [req EXCEPT ![t] = NoRequest],
         UNCHANGED <<bits, consumed, fl_life, raises>>
  PROVE  FlagIndInv'
  <1>0. /\ WaitQueueInv /\ FlagTypeOK /\ NoMissedRaise /\ ConsumedOnce /\ FlagCalls
        /\ tstate[t] = "READY" /\ UNCHANGED <<wait, tstate, block_ret>>
    BY DEF FlagIndInv, FlagInv, wait_queue_block_returns
  <1>1. WaitQueueInv' /\ Waiting' = Waiting /\ t \notin Waiting
    BY <1>0, QueueUntouched
    DEF wait_queue_block_returns, WaitQueueInv, WaitQueueTypeOK, QueueMatchesState
  <1>2. FlagTypeOK'
    BY <1>0, NoRequestType DEF FlagTypeOK
  <1>3. NoMissedRaise'
    BY <1>0, <1>1, WaitingPositions DEF NoMissedRaise, FlagTypeOK, WaitQueueInv
  <1>4. ConsumedOnce' /\ FlagCalls'
    BY <1>0 DEF ConsumedOnce, FlagCalls, FlagTypeOK
  <1> QED BY <1>1, <1>2, <1>3, <1>4 DEF FlagIndInv, FlagInv

(* evflag_raise and evflag_destroy empty the queue. *)
LEMMA FlagWakeInv ==
  ASSUME FlagIndInv, NEW b \in SUBSET Flags, Raise(b) \/ evflag_destroy
  PROVE  FlagIndInv'
  <1>0. /\ WaitQueueInv /\ FlagTypeOK /\ ConsumedOnce /\ FlagCalls
        /\ UNCHANGED <<fl_pc, req, consumed>> /\ fl_life = "live"
    BY DEF FlagIndInv, FlagInv, Raise, evflag_raise, evflag_destroy
  <1>1. WaitQueueInv' /\ Waiting' = {}
    BY <1>0, WakeAllPreserves DEF Raise, evflag_raise, evflag_destroy, wait_queue_destroy, Status
  <1>2. CASE Raise(b)
    <2>0. /\ bits' = bits \cup b /\ UNCHANGED fl_life
          /\ \A f \in b : raises[f] < MaxRaises
          /\ raises' = [f \in Flags |-> raises[f] + (IF f \in b THEN 1 ELSE 0)]
      BY <1>2 DEF Raise, evflag_raise
    <2>1. FlagTypeOK'
      <3>1. raises' \in [Flags -> 0 .. MaxRaises]
        BY <1>0, <2>0, EvFlagAssumption DEF FlagTypeOK
      <3> QED BY <1>0, <2>0, <3>1 DEF FlagTypeOK
    <2>2. ConsumedOnce'
      BY <1>0, <2>0, EvFlagAssumption DEF ConsumedOnce, FlagTypeOK
    <2>3. NoMissedRaise' /\ FlagCalls'
      BY <1>0, <1>1, <2>0 DEF NoMissedRaise, FlagCalls, WaitQueueInv, QueueMatchesState
    <2> QED BY <1>1, <2>1, <2>2, <2>3 DEF FlagIndInv, FlagInv
  <1>3. CASE evflag_destroy
    <2>0. bits' = {} /\ fl_life' = "destroyed" /\ UNCHANGED raises
      BY <1>3 DEF evflag_destroy
    <2>1. FlagTypeOK'
      BY <1>0, <2>0 DEF FlagTypeOK
    <2>2. ConsumedOnce'
      BY <1>0, <2>0, EvFlagAssumption DEF ConsumedOnce, FlagTypeOK
    <2>3. NoMissedRaise' /\ FlagCalls'
      BY <1>0, <1>1, <2>0 DEF NoMissedRaise, FlagCalls, WaitQueueInv, QueueMatchesState
    <2> QED BY <1>1, <2>1, <2>2, <2>3 DEF FlagIndInv, FlagInv
  <1> QED BY <1>2, <1>3

(* evflag_init finds nobody. *)
LEMMA FlagInitializeInv ==
  ASSUME FlagIndInv, evflag_init
  PROVE  FlagIndInv'
  <1>0. /\ WaitQueueInv /\ FlagTypeOK /\ ConsumedOnce /\ FlagCalls
        /\ UNCHANGED <<wqvars, fl_pc, req, raises, consumed>>
        /\ fl_life = "none" /\ fl_life' = "live" /\ bits = {} /\ bits' = {}
    BY DEF FlagIndInv, FlagInv, FlagCalls, evflag_init
  <1>1. WaitQueueInv' /\ Waiting' = Waiting
    BY <1>0, QueueUntouched DEF wqvars, WaitQueueInv, WaitQueueTypeOK
  <1>2. Waiting = {}
    BY <1>0, WaitingPositions DEF FlagCalls, WaitQueueInv, QueueMatchesState
  <1> QED BY <1>0, <1>1, <1>2
          DEF FlagIndInv, FlagInv, FlagTypeOK, NoMissedRaise, ConsumedOnce, FlagCalls, wqvars

(* The timer of a waiter. *)
LEMMA FlagTimeoutInv ==
  ASSUME FlagIndInv, NEW t \in Threads, evflag_timeout_interrupt(t)
  PROVE  FlagIndInv'
  <1>0. /\ WaitQueueInv /\ FlagTypeOK /\ NoMissedRaise /\ ConsumedOnce /\ FlagCalls
        /\ wait_queue_timeout_handler(t) /\ UNCHANGED flagvars
    BY DEF FlagIndInv, FlagInv, evflag_timeout_interrupt
  <1>1. WaitQueueInv' /\ Waiting' \subseteq Waiting
    <2>1. CASE tstate[t] = "BLOCKED"
      BY <1>0, <2>1, TimeoutPreserves
    <2>2. CASE tstate[t] # "BLOCKED"
      BY <1>0, <2>2, QueueUntouched
      DEF wait_queue_timeout_handler, WaitQueueInv, WaitQueueTypeOK
    <2> QED BY <2>1, <2>2
  <1>2. FlagTypeOK' /\ ConsumedOnce'
    BY <1>0 DEF FlagTypeOK, ConsumedOnce, flagvars
  <1>3. NoMissedRaise'
    BY <1>0, <1>1 DEF NoMissedRaise, flagvars
  <1>4. FlagCalls'
    BY <1>0 DEF FlagCalls, wait_queue_timeout_handler, flagvars, WaitQueueInv, WaitQueueTypeOK
  <1> QED BY <1>1, <1>2, <1>3, <1>4 DEF FlagIndInv, FlagInv

(* Every step of the event flag keeps the invariant. *)
LEMMA FlagStepInv ==
  OrOnly => (FlagIndInv /\ [FlagNext]_<<wqvars, flagvars>> => FlagIndInv')
  <1> SUFFICES ASSUME OrOnly, FlagIndInv, [FlagNext]_<<wqvars, flagvars>>
               PROVE  FlagIndInv'
    OBVIOUS
  <1>0. /\ timer \in SUBSET Threads
        /\ req \in [Threads -> Requests]
        /\ \A t \in Threads : fl_pc[t] # "block" => tstate[t] = "READY"
        /\ \A t \in Threads : fl_pc[t] = "block" => fl_life # "none"
    BY DEF FlagIndInv, FlagInv, FlagTypeOK, FlagCalls, WaitQueueInv, WaitQueueTypeOK
  <1>1. CASE evflag_init
    BY <1>1, FlagInitializeInv
  <1>2. ASSUME NEW b \in SUBSET Flags \ {{}}, Raise(b) PROVE FlagIndInv'
    BY <1>2, FlagWakeInv
  <1>3. CASE evflag_destroy
    <2>1. {} \in SUBSET Flags
      OBVIOUS
    <2> QED BY <1>3, <2>1, FlagWakeInv
  <1>4. ASSUME NEW t \in Threads, NEW r \in Requests, evflag_wait_timeout(t, r)
        PROVE  FlagIndInv'
    <2>1. fl_life = "live" /\ tstate[t] = "READY" /\ UNCHANGED <<fl_life, raises>>
      BY <1>0, <1>4 DEF evflag_wait_timeout
    <2>2. CASE Matched(t, r) /\ UNCHANGED wqvars
      BY <1>0, <2>1, <2>2, MatchedInv DEF wqvars
    <2>3. CASE Unmatched(t, r) /\ wait_queue_block(t, r.timeout)
      BY <2>1, <2>3, UnmatchedInv
    <2>4. CASE UNCHANGED <<wqvars, bits, fl_pc, req, consumed>>
      <3>1. WaitQueueInv'
        BY <2>4 DEF FlagIndInv, WaitQueueInv, WaitQueueTypeOK, QueueMatchesState, Waiting, wqvars
      <3>2. FlagTypeOK' /\ FlagCalls'
        BY <2>1, <2>4 DEF FlagIndInv, FlagInv, FlagTypeOK, FlagCalls, wqvars
      <3>3. NoMissedRaise' /\ ConsumedOnce'
        BY <2>1, <2>4 DEF FlagIndInv, FlagInv, NoMissedRaise, ConsumedOnce, Waiting, wqvars
      <3> QED BY <3>1, <3>2, <3>3 DEF FlagIndInv, FlagInv
    <2> QED BY <1>4, <2>2, <2>3, <2>4 DEF evflag_wait_timeout
  <1>5. ASSUME NEW t \in Threads, evflag_wait_returns(t)
        PROVE  FlagIndInv'
    <2>1. /\ fl_pc[t] = "block" /\ tstate[t] = "READY" /\ UNCHANGED <<fl_life, raises>>
          /\ fl_life # "none" /\ req[t] \in Requests
      BY <1>0, <1>5 DEF evflag_wait_returns
    <2>2. CASE block_ret[t] # NO_ERROR
      BY <1>5, <2>1, <2>2, FlagErrorInv DEF evflag_wait_returns
    <2>3. CASE Matched(t, req[t]) /\ wait_queue_block_returns(t)
      BY <1>0, <2>1, <2>3, MatchedInv DEF wait_queue_block_returns
    <2>4. CASE Unmatched(t, req[t]) /\ wait_queue_block(t, req[t].timeout)
      BY <2>1, <2>4, UnmatchedInv
    <2> QED BY <1>5, <2>2, <2>3, <2>4 DEF evflag_wait_returns
  <1>6. ASSUME NEW t \in Threads, evflag_timeout_interrupt(t) PROVE FlagIndInv'
    BY <1>6, FlagTimeoutInv
  <1>7. CASE UNCHANGED <<wqvars, flagvars>>
    BY <1>7
    DEF FlagIndInv, FlagInv, FlagTypeOK, NoMissedRaise, ConsumedOnce, FlagCalls, Waiting,
        WaitQueueInv, WaitQueueTypeOK, QueueMatchesState, wqvars, flagvars
  <1> QED BY <1>1, <1>2, <1>3, <1>4, <1>5, <1>6, <1>7 DEF FlagNext

(* With the requests the program makes, no thread stays in                 *)
(* evflag_wait_timeout's queue while its pattern matches, and no raised    *)
(* flag is taken twice.                                                    *)
THEOREM EventFlagCorrect ==
  ASSUME OrOnly
  PROVE  FlagSpec => []FlagInv
  <1>1. FlagIndInv => FlagInv
    BY DEF FlagIndInv
  <1>2. FlagIndInv /\ [FlagNext]_<<wqvars, flagvars>> => FlagIndInv'
    BY FlagStepInv
  <1> QED BY <1>1, <1>2, FlagInitInv, PTL DEF FlagSpec
-----------------------------------------------------------------------------
(* The circular buffer: what is accepted is delivered once and in order,   *)
(* and the event agrees with the bytes.                                    *)

(* One addition modulo the length of the buffer. *)
LEMMA Wraps ==
  ASSUME NEW ptr \in Nat, NEW inc \in Nat, ptr + inc < 2 * CbufSize
  PROVE  INC_POINTER(ptr, inc) = IF ptr + inc < CbufSize THEN ptr + inc ELSE ptr + inc - CbufSize
  BY CbufAssumption DEF INC_POINTER

(* The number of bytes from tail to head, and what it is without modulo. *)
Distance(tail, head) == (head - tail) % CbufSize

LEMMA Distances ==
  ASSUME NEW head \in 0 .. CbufSize - 1, NEW tail \in 0 .. CbufSize - 1
  PROVE  /\ Distance(tail, head) = IF head >= tail THEN head - tail ELSE head - tail + CbufSize
         /\ Distance(tail, head) \in 0 .. CbufSize - 1
         /\ Distance(tail, head) = 0 <=> head = tail
  <1>1. Distance(tail, head) = IF head >= tail THEN head - tail ELSE head - tail + CbufSize
    BY CbufAssumption DEF Distance
  <1> QED BY <1>1, CbufAssumption

LEMMA UsedIsDistance ==
  ASSUME NEW head
  PROVE  cbuf_space_used(head) = Distance(cb_tail, head)
  BY DEF cbuf_space_used, Distance

(* The n bytes of buf from tail on are those accepted after the first d. *)
Content(buf, tail, n, d) ==
  \A k \in 0 .. n - 1 : buf[INC_POINTER(tail, k)] = d + k + 1

(* What the loop of cbuf_write keeps true of its state, when d bytes have  *)
(* been delivered: what is in the buffer and what was copied so far are    *)
(* the bytes from d on.                                                    *)
Writing(head, buf, pos, len, d) ==
  /\ head \in 0 .. CbufSize - 1
  /\ pos \in 0 .. len
  /\ buf \in [0 .. CbufSize - 1 -> 0 .. accepted + pos]
  /\ d + Distance(cb_tail, head) = accepted + pos
  /\ Content(buf, cb_tail, Distance(cb_tail, head), d)

(* The same of the record that the loop works on. *)
WriteState(w, len, d) ==
  \E h, b, p : w = [head |-> h, buf |-> b, pos |-> p] /\ Writing(h, b, p, len, d)

(* One pass never runs over the tail, nor over the end of the buffer. *)
LEMMA WriteLength ==
  ASSUME cb_tail \in 0 .. CbufSize - 1, NEW head \in 0 .. CbufSize - 1,
         NEW rest \in Nat \ {0}, cbuf_space_avail(head) > 0
  PROVE  LET n == write_len(head, rest)
         IN  /\ n \in 1 .. rest
             /\ head + n <= CbufSize
             /\ Distance(cb_tail, head) + n < CbufSize
             /\ Distance(cb_tail, INC_POINTER(head, n)) = Distance(cb_tail, head) + n
  <1> DEFINE n == write_len(head, rest)
             u == Distance(cb_tail, head)
  <1>1. u = IF head >= cb_tail THEN head - cb_tail ELSE head - cb_tail + CbufSize
    BY Distances
  <1>2. CbufSize - u - 1 > 0
    BY UsedIsDistance DEF cbuf_space_avail
  <1> HIDE DEF u
  <1>3. /\ n \in 1 .. rest /\ head + n <= CbufSize /\ u + n < CbufSize
    <2>1. CASE head >= cb_tail /\ cb_tail = 0
      BY <1>1, <1>2, <2>1, CbufAssumption DEF write_len, Minimum
    <2>2. CASE head >= cb_tail /\ cb_tail # 0
      BY <1>1, <1>2, <2>2, CbufAssumption DEF write_len, Minimum
    <2>3. CASE head < cb_tail
      BY <1>1, <1>2, <2>3, CbufAssumption DEF write_len, Minimum
    <2> QED BY <2>1, <2>2, <2>3
  <1> HIDE DEF n
  <1>4. INC_POINTER(head, n) = IF head + n < CbufSize THEN head + n ELSE 0
    BY <1>3, Wraps, CbufAssumption
  <1>5. Distance(cb_tail, INC_POINTER(head, n)) = u + n
    <2> DEFINE h == INC_POINTER(head, n)
    <2>1. h \in 0 .. CbufSize - 1
      BY <1>3, <1>4, CbufAssumption
    <2> HIDE DEF h
    <2>2. Distance(cb_tail, h) = IF h >= cb_tail THEN h - cb_tail ELSE h - cb_tail + CbufSize
      BY <2>1, Distances
    <2>3. h = IF head + n < CbufSize THEN head + n ELSE 0
      BY <1>4 DEF h
    <2>4. Distance(cb_tail, h) = u + n
      BY <1>1, <1>3, <2>2, <2>3, CbufAssumption
    <2> QED BY <2>4 DEF h
  <1> QED BY <1>3, <1>5 DEF n, u

(* One pass of the loop of cbuf_write: the bytes already there stay, the   *)
(* ones copied follow them.                                                *)
LEMMA WritePassKeeps ==
  ASSUME cb_tail \in 0 .. CbufSize - 1, accepted \in Nat, NEW len \in Nat, NEW d \in Nat,
         NEW head, NEW buf, NEW pos, Writing(head, buf, pos, len, d)
  PROVE  WriteState(WritePass([head |-> head, buf |-> buf, pos |-> pos], len), len, d)
  <1> DEFINE w == [head |-> head, buf |-> buf, pos |-> pos]
             n == write_len(head, len - pos)
             u == Distance(cb_tail, head)
             h == INC_POINTER(head, n)
             b == [i \in 0 .. CbufSize - 1 |->
                     IF i \in head .. head + n - 1
                     THEN accepted + pos + (i - head) + 1 ELSE buf[i]]
             p == pos + n
  <1>0. /\ head \in 0 .. CbufSize - 1 /\ pos \in 0 .. len
        /\ buf \in [0 .. CbufSize - 1 -> 0 .. accepted + pos]
        /\ d + u = accepted + pos /\ Content(buf, cb_tail, u, d)
    BY DEF Writing
  <1>1. CASE ~(pos < len /\ cbuf_space_avail(head) > 0)
    <2>1. WritePass(w, len) = w
      BY <1>1 DEF WritePass
    <2> QED BY <2>1 DEF WriteState
  <1>2. CASE pos < len /\ cbuf_space_avail(head) > 0
    <2>1. len - pos \in Nat \ {0}
      BY <1>0, <1>2
    <2>2. /\ n \in 1 .. len - pos /\ head + n <= CbufSize /\ u + n < CbufSize
          /\ Distance(cb_tail, h) = u + n
      BY <1>0, <1>2, <2>1, WriteLength
    <2>3. /\ u = IF head >= cb_tail THEN head - cb_tail ELSE head - cb_tail + CbufSize
          /\ u \in Nat /\ head \in Nat /\ CbufSize \in Nat
      BY <1>0, Distances, CbufAssumption
    <2>4. WritePass(w, len) = [head |-> h, buf |-> b, pos |-> p]
      BY <1>0, <1>2 DEF WritePass
    <2> HIDE DEF u, n, w
    <2>5. h \in 0 .. CbufSize - 1
      <3>1. n \in Nat /\ head + n \in Nat /\ head + n < 2 * CbufSize
        BY <1>0, <2>2, CbufAssumption
      <3>2. h = IF head + n < CbufSize THEN head + n ELSE head + n - CbufSize
        BY <2>3, <3>1, Wraps
      <3> HIDE DEF h
      <3> QED BY <1>0, <2>2, <3>1, <3>2, CbufAssumption
    <2>6. p \in 0 .. len /\ p >= pos
      BY <1>0, <2>2
    <2> HIDE DEF h
    <2>7. b \in [0 .. CbufSize - 1 -> 0 .. accepted + p]
      <3> SUFFICES ASSUME NEW i \in 0 .. CbufSize - 1
                   PROVE  (IF i \in head .. head + n - 1
                           THEN accepted + pos + (i - head) + 1 ELSE buf[i]) \in 0 .. accepted + p
        OBVIOUS
      <3>1. buf[i] \in 0 .. accepted + pos
        BY <1>0
      <3> QED BY <1>0, <2>2, <3>1
    <2>8. d + (u + n) = accepted + p
      BY <1>0, <2>2, <2>3
    <2>9. \A k \in 0 .. u + n - 1 : b[INC_POINTER(cb_tail, k)] = d + k + 1
      <3> SUFFICES ASSUME NEW k \in 0 .. u + n - 1
                   PROVE  b[INC_POINTER(cb_tail, k)] = d + k + 1
        OBVIOUS
      <3> DEFINE i == INC_POINTER(cb_tail, k)
      <3>1. u \in Nat /\ k \in Nat /\ cb_tail + k < 2 * CbufSize
        BY <1>0, <2>2, <2>3, CbufAssumption
      <3>2. i = IF cb_tail + k < CbufSize THEN cb_tail + k ELSE cb_tail + k - CbufSize
        <4>1. cb_tail \in Nat
          BY CbufAssumption
        <4> QED BY <3>1, <4>1, Wraps
      <3> HIDE DEF i
      <3>3. i \in 0 .. CbufSize - 1
        BY <3>1, <3>2, CbufAssumption
      <3>4. CASE k < u
        <4>1. i \notin head .. head + n - 1
          BY <1>0, <2>2, <2>3, <3>1, <3>2, <3>4, CbufAssumption
        <4>2. k \in 0 .. u - 1
          BY <3>1, <3>4
        <4>3. buf[i] = d + k + 1
          BY <1>0, <4>2 DEF Content, i
        <4>4. b[i] = d + k + 1
          BY <3>3, <4>1, <4>3
        <4> QED BY <4>4 DEF i
      <3>5. CASE k >= u
        <4>1. i = head + (k - u)
          BY <1>0, <2>2, <2>3, <3>1, <3>2, <3>5, CbufAssumption
        <4>2. i \in head .. head + n - 1
          BY <1>0, <2>2, <3>1, <3>5, <4>1
        <4>3. b[i] = accepted + pos + (i - head) + 1
          BY <3>3, <4>2
        <4>4. b[i] = d + k + 1
          <5> HIDE DEF b
          <5> QED BY <1>0, <2>3, <3>1, <4>1, <4>3
        <4> QED BY <4>4 DEF i
      <3> QED BY <3>1, <3>4, <3>5
    <2> HIDE DEF b, p
    <2>10. Content(b, cb_tail, u + n, d)
      BY <2>2, <2>3, <2>7, <2>9, CbufAssumption DEF Content
    <2>11. Writing(h, b, p, len, d)
      BY <2>2, <2>5, <2>6, <2>7, <2>8, <2>10 DEF Writing
    <2> QED BY <2>4, <2>11 DEF w, WriteState
  <1> QED BY <1>1, <1>2

(* What the loop of cbuf_read keeps true of its state, when d bytes were   *)
(* delivered before: it has the next ones, in order, and the rest is still *)
(* in the buffer.                                                          *)
Reading(tail, pos, out, len, d) ==
  /\ tail \in 0 .. CbufSize - 1
  /\ pos \in 0 .. len
  /\ out \in Seq(Nat) /\ Len(out) = pos
  /\ \A i \in 1 .. pos : out[i] = d + i
  /\ d + pos + Distance(tail, cb_head) = accepted
  /\ Content(cb_buf, tail, Distance(tail, cb_head), d + pos)

ReadState(r, len, d) ==
  \E t, p, o : r = [tail |-> t, pos |-> p, out |-> o] /\ Reading(t, p, o, len, d)

LEMMA ReadPassKeeps ==
  ASSUME cb_head \in 0 .. CbufSize - 1, cb_buf \in [0 .. CbufSize - 1 -> Nat], accepted \in Nat,
         NEW len \in Nat, NEW d \in Nat,
         NEW tail, NEW pos, NEW out, Reading(tail, pos, out, len, d)
  PROVE  ReadState(ReadPass([tail |-> tail, pos |-> pos, out |-> out], len), len, d)
  <1> DEFINE r == [tail |-> tail, pos |-> pos, out |-> out]
             n == IF cb_head > tail
                  THEN Minimum(cb_head - tail, len - pos)
                  ELSE Minimum(CbufSize - tail, len - pos)
             u == Distance(tail, cb_head)
             t == INC_POINTER(tail, n)
             p == pos + n
             more == [i \in 1 .. n |-> cb_buf[tail + i - 1]]
             o == out \o more
  <1>0. /\ tail \in 0 .. CbufSize - 1 /\ pos \in 0 .. len
        /\ d + pos + u = accepted
    BY DEF Reading
  <1>3. /\ out \in Seq(Nat) /\ Len(out) = pos
        /\ \A i \in 1 .. pos : out[i] = d + i
    BY DEF Reading
  <1>4. Content(cb_buf, tail, u, d + pos)
    BY DEF Reading
  <1>1. CASE ~(pos < len /\ tail # cb_head)
    <2>1. ReadPass(r, len) = r
      BY <1>1 DEF ReadPass
    <2> QED BY <2>1 DEF ReadState
  <1>2. CASE pos < len /\ tail # cb_head
    <2>2. /\ u = IF cb_head >= tail THEN cb_head - tail ELSE cb_head - tail + CbufSize
          /\ u \in Nat /\ tail \in Nat /\ CbufSize \in Nat
      BY <1>0, Distances, CbufAssumption
    <2>3. n \in 1 .. len - pos /\ n \in Nat /\ n <= u /\ tail + n <= CbufSize
      <3> HIDE DEF u
      <3> QED BY <1>0, <1>2, <2>2, CbufAssumption DEF Minimum
    <2>4. ReadPass(r, len) = [tail |-> t, pos |-> p, out |-> o]
      BY <1>2 DEF ReadPass
    <2> HIDE DEF u, n, r
    <2>5. /\ t = IF tail + n < CbufSize THEN tail + n ELSE 0
          /\ t \in 0 .. CbufSize - 1
      <3>1. tail + n \in Nat /\ tail + n < 2 * CbufSize
        BY <1>0, <2>3, CbufAssumption
      <3>2. t = IF tail + n < CbufSize THEN tail + n ELSE tail + n - CbufSize
        BY <2>2, <2>3, <3>1, Wraps
      <3> HIDE DEF t
      <3> QED BY <1>0, <2>3, <3>1, <3>2, CbufAssumption
    <2>6. p \in 0 .. len /\ p >= pos
      BY <1>0, <2>3
    <2> HIDE DEF t
    <2>7. Distance(t, cb_head) = u - n
      <3>1. Distance(t, cb_head) = IF cb_head >= t THEN cb_head - t ELSE cb_head - t + CbufSize
        BY <2>5, Distances
      <3>2. CASE tail + n < CbufSize
        BY <1>0, <1>2, <2>2, <2>3, <2>5, <3>1, <3>2, CbufAssumption
      <3>3. CASE tail + n = CbufSize
        <4>1. t = 0 /\ cb_head < tail
          BY <1>0, <2>2, <2>3, <2>5, <3>3, CbufAssumption
        <4> QED BY <1>0, <2>2, <2>3, <3>1, <3>3, <4>1, CbufAssumption
      <3> QED BY <2>2, <2>3, <3>2, <3>3
    <2>8. \A j \in 1 .. n : more[j] = d + pos + j
      <3> SUFFICES ASSUME NEW j \in 1 .. n
                   PROVE  cb_buf[tail + j - 1] = d + pos + j
        OBVIOUS
      <3>0. j - 1 \in Nat
        BY <2>3
      <3>1. j - 1 \in 0 .. u - 1 /\ tail + (j - 1) \in Nat /\ tail + (j - 1) < CbufSize
        BY <1>0, <2>2, <2>3
      <3>2. INC_POINTER(tail, (j - 1)) = tail + j - 1
        BY <1>0, <2>2, <3>0, <3>1, Wraps, CbufAssumption
      <3>3. cb_buf[INC_POINTER(tail, (j - 1))] = (d + pos) + (j - 1) + 1
        BY <1>4, <3>1 DEF Content
      <3>4. (d + pos) + (j - 1) + 1 = d + pos + j
        BY <1>0
      <3> QED BY <3>2, <3>3, <3>4
    <2>9. more \in Seq(Nat) /\ Len(more) = n
      <3>1. \A j \in 1 .. n : d + pos + j \in Nat
        BY <1>0, <2>3
      <3>2. n \in Nat
        BY <2>3
      <3>3. \A j \in 1 .. n : more[j] \in Nat
        BY <2>8, <3>1
      <3>4. more = [j \in 1 .. n |-> more[j]]
        OBVIOUS
      <3> HIDE DEF more
      <3>5. more \in [1 .. n -> Nat]
        BY <3>3, <3>4
      <3> QED BY <3>2, <3>5
    <2> HIDE DEF more
    <2>10. o \in Seq(Nat) /\ Len(o) = p /\ \A i \in 1 .. p : o[i] = d + i
      <3>1. /\ o \in Seq(Nat) /\ Len(o) = pos + n
            /\ \A i \in 1 .. pos + n : o[i] = IF i <= pos THEN out[i] ELSE more[i - pos]
        BY <1>3, <2>9, ConcatProperties
      <3> HIDE DEF o
      <3>2. ASSUME NEW i \in 1 .. pos + n PROVE o[i] = d + i
        <4>1. CASE i <= pos
          <5>1. i \in 1 .. pos
            BY <1>0, <2>3, <4>1
          <5> QED BY <1>3, <3>1, <4>1, <5>1
        <4>2. CASE i > pos
          <5>1. i - pos \in 1 .. n /\ ~(i <= pos) /\ d + pos + (i - pos) = d + i
            BY <1>0, <2>3, <4>2
          <5> QED BY <2>8, <3>1, <5>1
        <4> QED BY <1>0, <2>3, <4>1, <4>2
      <3> QED BY <3>1, <3>2
    <2> HIDE DEF o
    <2>11. Content(cb_buf, t, u - n, d + p)
      <3> SUFFICES ASSUME NEW k \in 0 .. (u - n) - 1
                   PROVE  cb_buf[INC_POINTER(t, k)] = (d + p) + k + 1
        BY DEF Content
      <3>1. /\ n + k \in 0 .. u - 1 /\ k \in Nat /\ t + k < 2 * CbufSize
            /\ t + k \in Nat /\ tail + (n + k) \in Nat /\ tail + (n + k) < 2 * CbufSize
        BY <1>0, <2>2, <2>3, <2>5, CbufAssumption
      <3>2. INC_POINTER(t, k) = INC_POINTER(tail, (n + k))
        <4>0. t \in Nat /\ n + k \in Nat
          BY <2>3, <2>5, <3>1, CbufAssumption
        <4>1. INC_POINTER(t, k) = IF t + k < CbufSize THEN t + k ELSE t + k - CbufSize
          BY <3>1, <4>0, Wraps
        <4>2. INC_POINTER(tail, (n + k)) =
                IF tail + (n + k) < CbufSize THEN tail + (n + k) ELSE tail + (n + k) - CbufSize
          BY <2>2, <3>1, <4>0, Wraps
        <4>3. CbufSize \in Nat /\ tail \in Nat /\ n \in Nat /\ k \in Nat
          BY <2>2, <2>3, <3>1, CbufAssumption
        <4>4. (tail + n < CbufSize /\ t = tail + n) \/ (tail + n = CbufSize /\ t = 0)
          BY <1>0, <2>2, <2>3, <2>5, CbufAssumption
        <4>5. tail + (n + k) < 2 * CbufSize
          BY <3>1
        <4> HIDE DEF n
        <4>6. CASE tail + n < CbufSize /\ t = tail + n
          <5>1. t + k = tail + (n + k)
            BY <4>3, <4>6
          <5>2. CASE t + k < CbufSize
            <6>1. INC_POINTER(t, k) = t + k
              BY <4>1, <5>2
            <6>2. INC_POINTER(tail, (n + k)) = tail + (n + k)
              BY <4>2, <5>1, <5>2
            <6> QED BY <4>0, <4>3, <5>1, <6>1, <6>2
          <5>3. CASE ~(t + k < CbufSize)
            <6>1. INC_POINTER(t, k) = t + k - CbufSize
              BY <4>1, <5>3
            <6>2. INC_POINTER(tail, (n + k)) = tail + (n + k) - CbufSize
              BY <4>2, <5>1, <5>3
            <6> QED BY <4>0, <4>3, <5>1, <6>1, <6>2
          <5> QED BY <5>2, <5>3
        <4>7. CASE tail + n = CbufSize /\ t = 0
          <5>1. /\ t + k = k /\ k < CbufSize
                /\ ~(tail + (n + k) < CbufSize) /\ tail + (n + k) - CbufSize = k
            BY <4>3, <4>5, <4>7
          <5> QED BY <4>1, <4>2, <5>1
        <4> QED BY <4>4, <4>6, <4>7
      <3>3. cb_buf[INC_POINTER(tail, (n + k))] = (d + pos) + (n + k) + 1
        BY <1>4, <3>1 DEF Content
      <3>4. (d + pos) + (n + k) + 1 = (d + p) + k + 1
        BY <1>0, <2>3, <3>1
      <3> QED BY <3>2, <3>3, <3>4
    <2>12. d + p + (u - n) = accepted
      BY <1>0, <2>2, <2>3
    <2> HIDE DEF p
    <2>13. Reading(t, p, o, len, d)
      BY <2>5, <2>6, <2>7, <2>10, <2>11, <2>12 DEF Reading
    <2> QED BY <2>4, <2>13 DEF r, ReadState
  <1> QED BY <1>1, <1>2
-----------------------------------------------------------------------------
(* The buffer's part of the invariant: CbufTypeOK and CbufFifo, with what  *)
(* the bytes in the buffer can be.                                         *)
BytesInv == CbufTypeOK /\ CbufFifo /\ \A i \in 0 .. CbufSize - 1 : cb_buf[i] <= accepted

(* The event's part: the buffer's event keeps its signal until somebody    *)
(* finds the buffer empty, and who is BLOCKED is inside event_wait.        *)
EventAgrees ==
  /\ autounsignal = FALSE
  /\ signaled \in BOOLEAN
  /\ ev_pc \in [Threads -> {"out", "block"}]
  /\ ev_life = "none" => ~signaled
  /\ signaled <=> cb_head # cb_tail
  /\ signaled => wait = <<>>
  /\ \A t \in Threads : tstate[t] = "BLOCKED" => ev_pc[t] = "block"

(* The inductive invariant of the circular buffer. *)
CbufIndInv == WaitQueueInv /\ BytesInv /\ EventAgrees

(* CbufFifo in the terms of the two loops, now and after a step. *)
LEMMA FifoNow ==
  CbufFifo <=> /\ Len(got) + Distance(cb_tail, cb_head) = accepted
               /\ \A i \in DOMAIN got : got[i] = i
               /\ Content(cb_buf, cb_tail, Distance(cb_tail, cb_head), Len(got))
  BY DEF CbufFifo, cbuf_space_used, Distance, Content

LEMMA FifoThen ==
  CbufFifo' <=> /\ Len(got') + Distance(cb_tail', cb_head') = accepted'
                /\ \A i \in DOMAIN got' : got'[i] = i
                /\ Content(cb_buf', cb_tail', Distance(cb_tail', cb_head'), Len(got'))
  BY DEF CbufFifo, cbuf_space_used, Distance, Content, INC_POINTER

(* cbuf_write and cbuf_write_char: the bytes copied follow those that were *)
(* there, and nothing that was not yet delivered is overwritten.           *)
LEMMA WrittenInv ==
  ASSUME BytesInv, NEW len \in Nat, NEW h, NEW b, NEW p, Writing(h, b, p, len, Len(got)),
         cb_head' = h, cb_buf' = b, accepted' = accepted + p, accepted + p <= MaxBytes,
         UNCHANGED <<cb_tail, cb_pc, cb_len, got>>
  PROVE  /\ BytesInv'
         /\ cb_head # cb_tail => cb_head' # cb_tail'
  <1>1. /\ CbufTypeOK /\ CbufFifo /\ accepted \in Nat
        /\ cb_head \in 0 .. CbufSize - 1 /\ cb_tail \in 0 .. CbufSize - 1 /\ got \in Seq(1 .. MaxBytes)
        /\ Len(got) \in Nat
    BY DEF BytesInv, CbufTypeOK
  <1>2. /\ h \in 0 .. CbufSize - 1 /\ p \in Nat
        /\ b \in [0 .. CbufSize - 1 -> 0 .. accepted + p]
        /\ Len(got) + Distance(cb_tail, h) = accepted + p
        /\ Content(b, cb_tail, Distance(cb_tail, h), Len(got))
    BY DEF Writing
  <1>3. CbufTypeOK'
    <2>1. b \in [0 .. CbufSize - 1 -> 0 .. MaxBytes]
      <3>1. \A i \in 0 .. CbufSize - 1 : b[i] \in 0 .. MaxBytes
        BY <1>1, <1>2, CbufAssumption
      <3> QED BY <1>2, <3>1
    <2>2. accepted + p \in 0 .. MaxBytes
      BY <1>1, <1>2, CbufAssumption
    <2> QED BY <1>1, <1>2, <2>1, <2>2 DEF CbufTypeOK
  <1>4. CbufFifo'
    BY <1>1, <1>2, FifoNow, FifoThen
  <1>5. \A i \in 0 .. CbufSize - 1 : cb_buf'[i] <= accepted'
    BY <1>1, <1>2
  <1>6. ASSUME cb_head # cb_tail PROVE cb_head' # cb_tail'
    <2>1. /\ Distance(cb_tail, cb_head) \in 0 .. CbufSize - 1 /\ Distance(cb_tail, cb_head) # 0
          /\ Distance(cb_tail, h) \in 0 .. CbufSize - 1
          /\ Distance(cb_tail, h) = 0 <=> h = cb_tail
      BY <1>1, <1>2, <1>6, Distances
    <2>2. Len(got) + Distance(cb_tail, cb_head) = accepted
      BY <1>1, FifoNow
    <2> DEFINE u == Distance(cb_tail, cb_head)
               v == Distance(cb_tail, h)
               d == Len(got)
    <2>4. /\ u \in Nat /\ u # 0 /\ v \in Nat /\ d \in Nat
          /\ d + u = accepted /\ d + v = accepted + p
      BY <1>1, <1>2, <2>1, <2>2, CbufAssumption
    <2> HIDE DEF u, v, d
    <2>5. v # 0
      BY <1>1, <1>2, <2>4
    <2>3. Distance(cb_tail, h) # 0
      BY <2>5 DEF v
    <2> QED BY <2>1, <2>3
  <1> QED BY <1>3, <1>4, <1>5, <1>6 DEF BytesInv

LEMMA WriteStateKept ==
  ASSUME cb_tail \in 0 .. CbufSize - 1, accepted \in Nat, NEW len \in Nat, NEW d \in Nat,
         NEW w, WriteState(w, len, d)
  PROVE  WriteState(WritePass(w, len), len, d)
  <1>1. PICK h, b, p : w = [head |-> h, buf |-> b, pos |-> p] /\ Writing(h, b, p, len, d)
    BY DEF WriteState
  <1>2. WriteState(WritePass([head |-> h, buf |-> b, pos |-> p], len), len, d)
    BY <1>1, WritePassKeeps
  <1> QED BY <1>1, <1>2

LEMMA WriteLoopKeeps ==
  ASSUME BytesInv, NEW len \in Nat
  PROVE  \E h, b, p : /\ WriteLoop(len) = [head |-> h, buf |-> b, pos |-> p]
                      /\ Writing(h, b, p, len, Len(got))
  <1>1. /\ accepted \in Nat /\ cb_tail \in 0 .. CbufSize - 1 /\ cb_head \in 0 .. CbufSize - 1
        /\ Len(got) \in Nat /\ CbufFifo
        /\ cb_buf \in [0 .. CbufSize - 1 -> 0 .. MaxBytes]
    BY DEF BytesInv, CbufTypeOK
  <1>2. Writing(cb_head, cb_buf, 0, len, Len(got))
    <2>1. cb_buf \in [0 .. CbufSize - 1 -> 0 .. accepted + 0]
      <3>1. \A i \in 0 .. CbufSize - 1 : cb_buf[i] \in 0 .. accepted + 0
        BY <1>1, CbufAssumption DEF BytesInv
      <3> QED BY <1>1, <3>1
    <2>2. /\ Len(got) + Distance(cb_tail, cb_head) = accepted + 0
          /\ Content(cb_buf, cb_tail, Distance(cb_tail, cb_head), Len(got))
      BY <1>1, FifoNow
    <2> QED BY <1>1, <2>1, <2>2 DEF Writing
  <1> DEFINE w == [head |-> cb_head, buf |-> cb_buf, pos |-> 0]
             d == Len(got)
  <1>3. WriteState(w, len, d)
    BY <1>2 DEF WriteState
  <1>4. d \in Nat
    BY <1>1
  <1>5. WriteLoop(len) = WritePass(WritePass(w, len), len)
    BY DEF WriteLoop
  <1> HIDE DEF w, d
  <1>6. WriteState(WritePass(w, len), len, d)
    BY <1>1, <1>3, <1>4, WriteStateKept
  <1>7. WriteState(WriteLoop(len), len, d)
    BY <1>1, <1>4, <1>5, <1>6, WriteStateKept
  <1> QED BY <1>7 DEF WriteState, d

LEMMA ReadStateKept ==
  ASSUME cb_head \in 0 .. CbufSize - 1, cb_buf \in [0 .. CbufSize - 1 -> Nat], accepted \in Nat,
         NEW len \in Nat, NEW d \in Nat, NEW r, ReadState(r, len, d)
  PROVE  ReadState(ReadPass(r, len), len, d)
  <1>1. PICK t, p, o : r = [tail |-> t, pos |-> p, out |-> o] /\ Reading(t, p, o, len, d)
    BY DEF ReadState
  <1>2. ReadState(ReadPass([tail |-> t, pos |-> p, out |-> o], len), len, d)
    BY <1>1, ReadPassKeeps
  <1> QED BY <1>1, <1>2

(* The critical section of a read: what it delivers are the next bytes. *)
LEMMA TakenInv ==
  ASSUME BytesInv, NEW len \in Nat, TakeBytes(len), UNCHANGED <<cb_head, cb_buf, accepted>>,
         cb_pc' \in [Threads -> {"out", "wait", "take"}], cb_len' = cb_len
  PROVE  /\ BytesInv'
         /\ IF cb_tail' = cb_head THEN event_unsignal ELSE UNCHANGED <<wqvars, eventvars>>
  <1> DEFINE d == Len(got)
  <1>1. /\ accepted \in Nat /\ cb_tail \in 0 .. CbufSize - 1 /\ cb_head \in 0 .. CbufSize - 1
        /\ got \in Seq(1 .. MaxBytes) /\ d \in Nat /\ CbufFifo /\ CbufTypeOK
        /\ cb_buf \in [0 .. CbufSize - 1 -> 0 .. MaxBytes]
        /\ accepted <= MaxBytes
    BY CbufAssumption DEF BytesInv, CbufTypeOK
  <1>2. cb_buf \in [0 .. CbufSize - 1 -> Nat]
    BY <1>1, CbufAssumption
  <1>3. Reading(cb_tail, 0, <<>>, len, d)
    <2>1. /\ d + 0 + Distance(cb_tail, cb_head) = accepted
          /\ Content(cb_buf, cb_tail, Distance(cb_tail, cb_head), d + 0)
      BY <1>1, FifoNow
    <2>2. <<>> \in Seq(Nat) /\ Len(<<>>) = 0 /\ \A i \in 1 .. 0 : <<>>[i] = d + i
      OBVIOUS
    <2> QED BY <1>1, <2>1, <2>2 DEF Reading
  <1> DEFINE r == [tail |-> cb_tail, pos |-> 0, out |-> <<>>]
  <1>4. ReadState(ReadLoop(len), len, d)
    <2>1. ReadState(r, len, d)
      BY <1>3 DEF ReadState
    <2>2. ReadLoop(len) = ReadPass(ReadPass(r, len), len)
      BY DEF ReadLoop
    <2>3. d \in Nat
      BY <1>1
    <2> HIDE DEF r, d
    <2>4. ReadState(ReadPass(r, len), len, d)
      BY <1>1, <1>2, <2>1, <2>3, ReadStateKept
    <2> QED BY <1>1, <1>2, <2>2, <2>3, <2>4, ReadStateKept
  <1>5. PICK t, p, o : /\ ReadLoop(len) = [tail |-> t, pos |-> p, out |-> o]
                       /\ Reading(t, p, o, len, d)
    BY <1>4 DEF ReadState
  <1>6. ReadLoop(len) = [tail |-> t, pos |-> p, out |-> o]
    BY <1>5
  <1>7. /\ cb_tail' = t /\ got' = got \o o
        /\ IF t = cb_head THEN event_unsignal ELSE UNCHANGED <<wqvars, eventvars>>
    BY <1>6 DEF TakeBytes
  <1>8. /\ t \in 0 .. CbufSize - 1 /\ p \in Nat /\ o \in Seq(Nat) /\ Len(o) = p
        /\ \A i \in 1 .. p : o[i] = d + i
        /\ d + p + Distance(t, cb_head) = accepted
        /\ Content(cb_buf, t, Distance(t, cb_head), d + p)
        /\ Distance(t, cb_head) \in Nat
    BY <1>1, <1>5, Distances DEF Reading
  <1>9. /\ Len(got') = d + p /\ DOMAIN got' = 1 .. d + p
        /\ \A i \in 1 .. d + p : got'[i] = i
    <2>1. got \in Seq(Nat)
      <3>1. \A i \in 1 .. Len(got) : got[i] \in Nat
        BY <1>1, CbufAssumption
      <3>2. got = [i \in 1 .. Len(got) |-> got[i]]
        BY <1>1
      <3> QED BY <1>1, <3>1, <3>2
    <2>2. /\ got' \in Seq(Nat) /\ Len(got') = d + p
          /\ \A i \in 1 .. d + p : got'[i] = IF i <= d THEN got[i] ELSE o[i - d]
      BY <1>7, <1>8, <2>1, ConcatProperties
    <2>3. \A i \in 1 .. d : got[i] = i
      BY <1>1, FifoNow
    <2>4. ASSUME NEW i \in 1 .. d + p PROVE got'[i] = i
      <3>1. CASE i <= d
        <4>1. i \in 1 .. d
          BY <1>1, <1>8, <3>1
        <4> QED BY <2>2, <2>3, <3>1, <4>1
      <3>2. CASE i > d
        <4>1. i - d \in 1 .. p /\ d + (i - d) = i /\ ~(i <= d)
          BY <1>1, <1>8, <3>2
        <4> QED BY <1>8, <2>2, <4>1
      <3> QED BY <1>1, <1>8, <3>1, <3>2
    <2> QED BY <2>2, <2>4
  <1>10. CbufFifo'
    BY <1>7, <1>8, <1>9, FifoThen
  <1>11. got' \in Seq(1 .. MaxBytes)
    <2>1. d + p \in Nat /\ d + p <= MaxBytes
      BY <1>1, <1>8, CbufAssumption
    <2>2. \A i \in 1 .. d + p : got'[i] \in 1 .. MaxBytes
      BY <1>9, <2>1, CbufAssumption
    <2>3. got' \in Seq(Nat)
      <3>1. got \in Seq(Nat)
        BY <1>1, SeqDef, CbufAssumption
      <3> QED BY <1>7, <1>8, <3>1
    <2> DEFINE q == d + p
    <2>4. q \in Nat /\ got' \in [1 .. q -> 1 .. MaxBytes]
      BY <1>9, <2>1, <2>2, <2>3
    <2> HIDE DEF q
    <2> QED BY <2>4, SeqDef, Zenon
  <1>12. CbufTypeOK'
    BY <1>1, <1>7, <1>8, <1>11 DEF CbufTypeOK
  <1> QED BY <1>7, <1>10, <1>12 DEF BytesInv

(* event_signal on the buffer's event: nobody stays queued. *)
LEMMA SignalsAll ==
  ASSUME WaitQueueInv, EventAgrees, event_signal, cb_head' # cb_tail'
  PROVE  WaitQueueInv' /\ EventAgrees'
  <1>1. /\ ev_life = "live" /\ UNCHANGED <<autounsignal, ev_life, ev_pc>>
        /\ autounsignal = FALSE /\ signaled \in BOOLEAN
    BY DEF event_signal, EventAgrees
  <1>2. CASE signaled
    <2>1. UNCHANGED <<wqvars, signaled>>
      BY <1>1, <1>2 DEF event_signal
    <2>2. WaitQueueInv'
      BY <2>1, QueueUntouched DEF wqvars, WaitQueueInv, WaitQueueTypeOK
    <2> QED BY <1>1, <1>2, <2>1, <2>2 DEF EventAgrees, wqvars
  <1>3. CASE ~signaled
    <2>1. wait_queue_wake_all(NO_ERROR) /\ signaled' = TRUE
      BY <1>1, <1>3 DEF event_signal
    <2>2. WaitQueueInv' /\ Waiting' = {} /\ wait' = <<>>
      BY <2>1, WakeAllPreserves DEF Status, wait_queue_wake_all
    <2>3. \A t \in Threads : tstate'[t] # "BLOCKED"
      BY <2>2 DEF WaitQueueInv, QueueMatchesState
    <2> QED BY <1>1, <2>1, <2>2, <2>3 DEF EventAgrees
  <1> QED BY <1>1, <1>2, <1>3

(* A step that does not touch event and queue, nor empties the buffer. *)
LEMMA EventUntouched ==
  ASSUME WaitQueueInv, EventAgrees, UNCHANGED <<wqvars, eventvars>>,
         cb_head' # cb_tail' <=> cb_head # cb_tail
  PROVE  WaitQueueInv' /\ EventAgrees'
  <1>1. WaitQueueInv'
    BY QueueUntouched DEF wqvars, WaitQueueInv, WaitQueueTypeOK
  <1> QED BY <1>1 DEF EventAgrees, wqvars, eventvars

LEMMA CbufInitInv == WaitQueueInit /\ EventInit /\ CbufInit => CbufIndInv
  <1> SUFFICES ASSUME WaitQueueInit, EventInit, CbufInit PROVE CbufIndInv
    OBVIOUS
  <1>1. WaitQueueInv
    BY InitialQueue
  <1>2. EventAgrees
    BY DEF EventInit, CbufInit, EventAgrees, WaitQueueInit
  <1>3. CbufTypeOK
    BY CbufAssumption DEF CbufInit, CbufTypeOK
  <1>4. CbufFifo
    <2>1. Distance(cb_tail, cb_head) = 0
      BY <1>3, Distances DEF CbufInit, CbufTypeOK
    <2>2. Content(cb_buf, cb_tail, 0, Len(got))
      BY DEF Content
    <2>3. got = <<>> /\ Len(got) = 0 /\ accepted = 0
      BY DEF CbufInit
    <2> QED BY <2>1, <2>2, <2>3, FifoNow
  <1>5. \A i \in 0 .. CbufSize - 1 : cb_buf[i] <= accepted
    BY DEF CbufInit
  <1> QED BY <1>1, <1>2, <1>3, <1>4, <1>5 DEF CbufIndInv, BytesInv

(* cbuf_write: two passes at most, then the signal if there is something   *)
(* to read.                                                                *)
LEMMA WriteInv ==
  ASSUME CbufIndInv, NEW len \in 1 .. CbufSize - 1, cbuf_write(len)
  PROVE  CbufIndInv'
  <1>0. WaitQueueInv /\ BytesInv /\ EventAgrees /\ len \in Nat
    BY CbufAssumption DEF CbufIndInv
  <1>1. PICK h, b, p : /\ WriteLoop(len) = [head |-> h, buf |-> b, pos |-> p]
                       /\ Writing(h, b, p, len, Len(got))
    BY <1>0, WriteLoopKeeps
  <1>2. /\ cb_head' = h /\ cb_buf' = b /\ accepted' = accepted + p /\ accepted + p <= MaxBytes
        /\ UNCHANGED <<cb_tail, cb_pc, cb_len, got>>
        /\ IF h # cb_tail THEN event_signal /\ UNCHANGED signals ELSE UNCHANGED <<wqvars, eventvars>>
    BY <1>1 DEF cbuf_write
  <1>3. BytesInv' /\ (cb_head # cb_tail => cb_head' # cb_tail')
    BY <1>0, <1>1, <1>2, WrittenInv
  <1>4. WaitQueueInv' /\ EventAgrees'
    BY <1>0, <1>2, <1>3, SignalsAll, EventUntouched
  <1> QED BY <1>3, <1>4 DEF CbufIndInv

(* cbuf_write_char: a pass of one byte. *)
LEMMA WriteCharInv ==
  ASSUME CbufIndInv, cbuf_write_char
  PROVE  CbufIndInv'
  <1>0. WaitQueueInv /\ BytesInv /\ EventAgrees /\ CbufTypeOK /\ CbufFifo
    BY DEF CbufIndInv, BytesInv
  <1> DEFINE u == Distance(cb_tail, cb_head)
             d == Len(got)
             h == INC_POINTER(cb_head, 1)
             b == [cb_buf EXCEPT ![cb_head] = accepted + 1]
  <1>1. /\ cb_head \in 0 .. CbufSize - 1 /\ cb_tail \in 0 .. CbufSize - 1 /\ accepted \in Nat
        /\ cb_buf \in [0 .. CbufSize - 1 -> 0 .. MaxBytes] /\ d \in Nat
        /\ accepted < MaxBytes
        /\ \A i \in 0 .. CbufSize - 1 : cb_buf[i] <= accepted
    BY <1>0 DEF CbufTypeOK, BytesInv, cbuf_write_char
  <1>2. /\ u = IF cb_head >= cb_tail THEN cb_head - cb_tail ELSE cb_head - cb_tail + CbufSize
        /\ u \in Nat /\ u + 1 < CbufSize
    <2>1. /\ u = IF cb_head >= cb_tail THEN cb_head - cb_tail ELSE cb_head - cb_tail + CbufSize
          /\ u \in 0 .. CbufSize - 1
      BY <1>1, Distances
    <2>2. CbufSize - u - 1 > 0
      BY UsedIsDistance DEF cbuf_write_char, cbuf_space_avail
    <2> HIDE DEF u
    <2> QED BY <2>1, <2>2, CbufAssumption
  <1>3. /\ d + u = accepted /\ Content(cb_buf, cb_tail, u, d)
    BY <1>0, FifoNow
  <1>4. /\ h = IF cb_head + 1 < CbufSize THEN cb_head + 1 ELSE 0
        /\ h \in 0 .. CbufSize - 1
    <2>1. cb_head \in Nat /\ 1 \in Nat /\ cb_head + 1 < 2 * CbufSize
      BY <1>1, CbufAssumption
    <2>2. h = IF cb_head + 1 < CbufSize THEN cb_head + 1 ELSE cb_head + 1 - CbufSize
      BY <2>1, Wraps
    <2> HIDE DEF h
    <2> QED BY <1>1, <2>2, CbufAssumption
  <1> HIDE DEF u, h
  <1>5. Distance(cb_tail, h) = u + 1
    <2>1. Distance(cb_tail, h) = IF h >= cb_tail THEN h - cb_tail ELSE h - cb_tail + CbufSize
      BY <1>1, <1>4, Distances
    <2> QED BY <1>1, <1>2, <1>4, <2>1, CbufAssumption
  <1>6. b \in [0 .. CbufSize - 1 -> 0 .. accepted + 1]
    <2>1. \A i \in 0 .. CbufSize - 1 : b[i] \in 0 .. accepted + 1
      BY <1>1, CbufAssumption
    <2> QED BY <1>1, <2>1
  <1>7. \A k \in 0 .. (u + 1) - 1 : b[INC_POINTER(cb_tail, k)] = d + k + 1
    <2> SUFFICES ASSUME NEW k \in 0 .. (u + 1) - 1
                 PROVE  b[INC_POINTER(cb_tail, k)] = d + k + 1
      OBVIOUS
    <2> DEFINE i == INC_POINTER(cb_tail, k)
    <2>1. cb_tail \in Nat /\ k \in Nat /\ k <= u /\ cb_tail + k < 2 * CbufSize
      BY <1>1, <1>2, CbufAssumption
    <2>2. i = IF cb_tail + k < CbufSize THEN cb_tail + k ELSE cb_tail + k - CbufSize
      BY <2>1, Wraps
    <2> HIDE DEF i
    <2>3. i \in 0 .. CbufSize - 1
      BY <1>2, <2>1, <2>2, CbufAssumption
    <2>4. CASE k < u
      <3>1. i # cb_head
        BY <1>1, <1>2, <2>1, <2>2, <2>4, CbufAssumption
      <3>2. k \in 0 .. u - 1
        BY <1>2, <2>1, <2>4
      <3>3. cb_buf[i] = d + k + 1
        BY <1>3, <3>2 DEF Content, i
      <3> QED BY <1>1, <2>3, <3>1, <3>3 DEF i
    <2>5. CASE k = u
      <3>1. i = cb_head
        BY <1>1, <1>2, <2>1, <2>2, <2>5, CbufAssumption
      <3>2. b[i] = accepted + 1
        BY <1>1, <2>3, <3>1
      <3>3. accepted + 1 = d + k + 1
        BY <1>1, <1>2, <1>3, <2>5
      <3> QED BY <3>2, <3>3 DEF i
    <2> QED BY <1>2, <2>1, <2>4, <2>5
  <1> HIDE DEF b
  <1>8. Content(b, cb_tail, u + 1, d)
    BY <1>1, <1>2, <1>6, <1>7, CbufAssumption DEF Content
  <1>9. Writing(h, b, 1, 1, d)
    <2>1. d + (u + 1) = accepted + 1
      BY <1>1, <1>2, <1>3
    <2> QED BY <1>4, <1>5, <1>6, <1>8, <2>1 DEF Writing
  <1>10. /\ cb_head' = h /\ cb_buf' = b /\ accepted' = accepted + 1 /\ accepted + 1 <= MaxBytes
         /\ UNCHANGED <<cb_tail, cb_pc, cb_len, got>>
         /\ IF cb_head' # cb_tail THEN event_signal /\ UNCHANGED signals
                                  ELSE UNCHANGED <<wqvars, eventvars>>
    <2>1. accepted + 1 <= MaxBytes
      BY <1>1, CbufAssumption
    <2> QED BY <2>1 DEF cbuf_write_char, h, b
  <1>11. BytesInv' /\ (cb_head # cb_tail => cb_head' # cb_tail')
    BY <1>0, <1>9, <1>10, WrittenInv DEF d
  <1>12. WaitQueueInv' /\ EventAgrees'
    BY <1>0, <1>10, <1>11, SignalsAll, EventUntouched
  <1> QED BY <1>11, <1>12 DEF CbufIndInv

(* The critical section of a read: the reader that takes the last byte     *)
(* unsignals the event, and only that one.                                 *)
LEMMA TakeInv ==
  ASSUME CbufIndInv, NEW len \in Nat, TakeBytes(len), UNCHANGED <<cb_head, cb_buf, accepted>>,
         cb_pc' \in [Threads -> {"out", "wait", "take"}], cb_len' = cb_len
  PROVE  CbufIndInv'
  <1>0. WaitQueueInv /\ BytesInv /\ EventAgrees /\ cb_tail # cb_head
    BY DEF CbufIndInv, TakeBytes
  <1>1. /\ BytesInv'
        /\ IF cb_tail' = cb_head THEN event_unsignal ELSE UNCHANGED <<wqvars, eventvars>>
    BY <1>0, TakenInv
  <1>2. CASE cb_tail' # cb_head
    <2>1. WaitQueueInv' /\ EventAgrees'
      BY <1>0, <1>1, <1>2, EventUntouched
    <2> QED BY <1>1, <2>1 DEF CbufIndInv
  <1>3. CASE cb_tail' = cb_head
    <2>1. /\ signaled' = FALSE
          /\ UNCHANGED <<wqvars, autounsignal, ev_life, ev_pc>>
      BY <1>1, <1>3 DEF event_unsignal
    <2>2. WaitQueueInv'
      BY <1>0, <2>1, QueueUntouched DEF wqvars, WaitQueueInv, WaitQueueTypeOK
    <2>3. EventAgrees'
      BY <1>0, <1>3, <2>1 DEF EventAgrees, wqvars
    <2> QED BY <1>1, <2>2, <2>3 DEF CbufIndInv
  <1> QED BY <1>2, <1>3

(* Steps of a reader outside the lock: the bytes stay as they are. *)
LEMMA BytesUntouched ==
  ASSUME BytesInv, UNCHANGED <<cb_head, cb_tail, cb_buf, accepted, got>>,
         cb_pc' \in [Threads -> {"out", "wait", "take"}], cb_len' \in [Threads -> Nat]
  PROVE  BytesInv'
  BY DEF BytesInv, CbufTypeOK, CbufFifo, cbuf_space_used, INC_POINTER

LEMMA CbufStepInv ==
  CbufIndInv /\ [CbufNext]_<<wqvars, eventvars, cbvars>> => CbufIndInv'
  <1> SUFFICES ASSUME CbufIndInv, [CbufNext]_<<wqvars, eventvars, cbvars>> PROVE CbufIndInv'
    OBVIOUS
  <1>0. /\ WaitQueueInv /\ BytesInv /\ EventAgrees
        /\ cb_pc \in [Threads -> {"out", "wait", "take"}] /\ cb_len \in [Threads -> Nat]
    BY DEF CbufIndInv, BytesInv, CbufTypeOK
  <1>1. CASE cbuf_initialize
    <2>1. /\ ev_life = "none" /\ ev_life' = "live" /\ autounsignal' = FALSE /\ signaled' = FALSE
          /\ UNCHANGED <<wqvars, ev_pc, cbvars>>
      BY <1>1 DEF cbuf_initialize, event_init
    <2>2. WaitQueueInv'
      BY <1>0, <2>1, QueueUntouched DEF wqvars, WaitQueueInv, WaitQueueTypeOK
    <2>3. BytesInv'
      BY <1>0, <2>1, BytesUntouched DEF cbvars
    <2>4. EventAgrees'
      BY <1>0, <2>1 DEF EventAgrees, wqvars, cbvars
    <2> QED BY <2>2, <2>3, <2>4 DEF CbufIndInv
  <1>2. ASSUME NEW len \in 1 .. CbufSize - 1, cbuf_write(len) PROVE CbufIndInv'
    BY <1>2, WriteInv
  <1>3. CASE cbuf_write_char
    BY <1>3, WriteCharInv
  <1>4. ASSUME NEW t \in Threads, NEW len \in ReadSizes, cbuf_read(t, len) PROVE CbufIndInv'
    <2>1. /\ UNCHANGED <<wqvars, eventvars, cb_head, cb_tail, cb_buf, accepted, got>>
          /\ cb_pc' \in [Threads -> {"out", "wait", "take"}] /\ cb_len' \in [Threads -> Nat]
      BY <1>0, <1>4, CbufAssumption DEF cbuf_read
    <2> QED BY <1>0, <2>1, BytesUntouched, EventUntouched DEF CbufIndInv
  <1>5. ASSUME NEW t \in Threads, NEW len \in ReadSizes, cbuf_read_nonblock(t, len) PROVE CbufIndInv'
    <2>1. /\ len \in Nat /\ TakeBytes(len) /\ UNCHANGED <<cb_head, cb_buf, accepted, cb_pc, cb_len>>
      BY <1>5, CbufAssumption DEF cbuf_read_nonblock
    <2> QED BY <1>0, <2>1, TakeInv
  <1>6. ASSUME NEW t \in Threads, cbuf_read_waits(t) PROVE CbufIndInv'
    <2>1. /\ UNCHANGED <<cb_head, cb_tail, cb_buf, cb_len, accepted, got>>
          /\ cb_pc' \in [Threads -> {"out", "wait", "take"}]
          /\ event_wait_timeout(t, INFINITE)
      BY <1>0, <1>6 DEF cbuf_read_waits
    <2>2. BytesInv'
      BY <1>0, <2>1, BytesUntouched
    <2>3. CASE signaled
      <3>1. /\ signaled' = TRUE /\ UNCHANGED <<wqvars, ev_pc, autounsignal, ev_life>>
        <4>1. autounsignal = FALSE
          BY <1>0 DEF EventAgrees
        <4> QED BY <2>1, <2>3, <4>1 DEF event_wait_timeout
      <3>2. WaitQueueInv'
        BY <1>0, <3>1, QueueUntouched DEF wqvars, WaitQueueInv, WaitQueueTypeOK
      <3>3. EventAgrees'
        BY <1>0, <2>1, <2>3, <3>1 DEF EventAgrees, wqvars
      <3> QED BY <2>2, <3>2, <3>3 DEF CbufIndInv
    <2>4. CASE ~signaled
      <3>1. /\ ev_life = "live" /\ ev_pc[t] = "out" /\ wait_queue_block(t, INFINITE)
            /\ ev_pc' = [ev_pc EXCEPT ![t] = "block"]
            /\ UNCHANGED <<signaled, autounsignal, ev_life>>
        BY <2>1, <2>4 DEF event_wait_timeout
      <3>2. tstate[t] = "READY"
        BY <1>0, <3>1 DEF EventAgrees, WaitQueueInv, WaitQueueTypeOK
      <3>3. WaitQueueInv'
        BY <1>0, <3>1, <3>2, BlockPreserves
      <3>4. \A u \in Threads : tstate'[u] = "BLOCKED" => ev_pc'[u] = "block"
        BY <1>0, <3>1 DEF EventAgrees, wait_queue_block, WaitQueueInv, WaitQueueTypeOK
      <3>5. EventAgrees'
        BY <1>0, <2>1, <2>4, <3>1, <3>4 DEF EventAgrees
      <3> QED BY <2>2, <3>3, <3>5 DEF CbufIndInv
    <2> QED BY <2>3, <2>4
  <1>7. ASSUME NEW t \in Threads, cbuf_read_woken(t) PROVE CbufIndInv'
    <2>1. /\ UNCHANGED <<cb_head, cb_tail, cb_buf, cb_len, accepted, got>>
          /\ cb_pc' \in [Threads -> {"out", "wait", "take"}]
          /\ tstate[t] = "READY" /\ timer' = timer \ {t} /\ UNCHANGED <<wait, tstate, block_ret>>
          /\ ev_pc' = [ev_pc EXCEPT ![t] = "out"]
          /\ UNCHANGED <<autounsignal, ev_life, signaled>>
      BY <1>0, <1>7 DEF cbuf_read_woken, event_wait_returns, wait_queue_block_returns
    <2>2. BytesInv'
      BY <1>0, <2>1, BytesUntouched
    <2>3. WaitQueueInv'
      BY <1>0, <2>1, QueueUntouched DEF WaitQueueInv, WaitQueueTypeOK
    <2>4. EventAgrees'
      BY <1>0, <2>1 DEF EventAgrees
    <2> QED BY <2>2, <2>3, <2>4 DEF CbufIndInv
  <1>8. ASSUME NEW t \in Threads, cbuf_read_takes(t) PROVE CbufIndInv'
    <2>1. UNCHANGED <<cb_head, cb_buf, cb_len, accepted>> /\ cb_len[t] \in Nat
      BY <1>0, <1>8 DEF cbuf_read_takes
    <2>2. CASE TakeBytes(cb_len[t]) /\ cb_pc' = [cb_pc EXCEPT ![t] = "out"]
      <3>1. cb_pc' \in [Threads -> {"out", "wait", "take"}]
        BY <1>0, <2>2
      <3> QED BY <2>1, <2>2, <3>1, TakeInv
    <2>3. CASE /\ cb_pc' = [cb_pc EXCEPT ![t] = "wait"]
               /\ UNCHANGED <<wqvars, eventvars, cb_tail, got>>
      <3>1. cb_pc' \in [Threads -> {"out", "wait", "take"}]
        BY <1>0, <2>3
      <3> QED BY <1>0, <2>1, <2>3, <3>1, BytesUntouched, EventUntouched DEF CbufIndInv
    <2> QED BY <1>8, <2>2, <2>3 DEF cbuf_read_takes
  <1>9. CASE UNCHANGED <<wqvars, eventvars, cbvars>>
    BY <1>0, <1>9, BytesUntouched, EventUntouched DEF CbufIndInv, cbvars
  <1> QED BY <1>1, <1>2, <1>3, <1>4, <1>5, <1>6, <1>7, <1>8, <1>9 DEF CbufNext

(* lib/cbuf, for a buffer of any length, any readers and any interleaving  *)
(* of cbuf_write, cbuf_write_char and the reads: every byte accepted is    *)
(* delivered once and in order, and no reader sleeps beside one.           *)
THEOREM BytesOnceInOrder == CbufSpec => []CbufInv
  <1>1. CbufIndInv => CbufInv
    <2> SUFFICES ASSUME CbufIndInv PROVE SignaledMeansData
      BY DEF CbufIndInv, BytesInv, CbufInv
    <2>1. /\ WaitQueueTypeOK /\ signaled \in BOOLEAN
          /\ signaled <=> cb_head # cb_tail
          /\ signaled => wait = <<>>
      BY DEF CbufIndInv, EventAgrees, WaitQueueInv
    <2>2. wait = <<>> <=> Waiting = {}
      BY <2>1, WaitingPositions
    <2> QED BY <2>1, <2>2 DEF SignaledMeansData
  <1> QED BY <1>1, CbufInitInv, CbufStepInv, PTL DEF CbufSpec
-----------------------------------------------------------------------------
(* The timer list. *)

(* The clock's reading l units after it reads c. *)
At(c, l) == (c + l) % Modulus

(* How long a timer can be overdue. *)
Slack == MaxLag + 2 * TickInterval

(* A time that is in the list can be told from one that is Slack overdue. *)
Near(l) == l \in Int /\ 2 * (l + Slack) < Modulus

(* What is true of a timer that is in the list: when it is due is what its *)
(* scheduled_time says, and it is overdue by no more than a tick and the   *)
(* lag of the thread that set it.                                          *)
Listed(t) ==
  /\ t \notin setting
  /\ callback[t]
  /\ scheduled_time[t] = At(clock, left[t])
  /\ Near(left[t])
  /\ left[t] + since >= -MaxLag - (IF ticking THEN TickInterval ELSE 0)

(* ... of one that is being set ... *)
BeingSet(t) ==
  /\ callback[t]
  /\ scheduled_time[t] = At(clock, left[t])
  /\ Near(left[t])
  /\ left[t] >= -MaxLag

(* ... and of the one whose callback is running, if it is to go back into  *)
(* the list.                                                               *)
Fired(t) ==
  /\ t \notin setting
  /\ ~InList(t) /\ periodic_time[t] > 0 =>
       /\ callback[t]
       /\ scheduled_time[t] = At(clock, left[t])
       /\ left[t] + since >= -MaxLag - TickInterval
       /\ left[t] + since <= 0

TickState ==
  /\ ticking => now = At(clock, -since)
  /\ firing # NoTimer => ticking /\ Fired(firing)
  /\ \A t \in Timers : periodic_time[t] > 0 => Near(periodic_time[t])

(* The inductive invariant of the timers. *)
TimerIndInv ==
  /\ TimerTypeOK
  /\ QueueInOrder
  /\ NothingOverdue
  /\ TickState
  /\ \A t \in Timers : InList(t) => Listed(t)
  /\ \A t \in setting : BeingSet(t)
-----------------------------------------------------------------------------
(* The clock. *)

LEMMA Halves ==
  \E half \in Nat \ {0} : Modulus = 2 * half /\ Modulus \div 2 = half
  <1> DEFINE half == 2 ^ (Width - 1)
  <1>1. half \in Nat \ {0} /\ Modulus = 2 * half
    BY TimerAssumption
  <1> HIDE DEF half
  <1>2. Modulus \div 2 = half
    BY <1>1
  <1> QED BY <1>1, <1>2

LEMMA Ranges ==
  /\ Modulus \in Nat /\ Modulus >= 2 /\ MaxLag \in Nat /\ TickInterval \in Nat \ {0}
  /\ Slack \in Nat /\ 2 * Slack < Modulus
  <1>1. Modulus \in Nat /\ Modulus >= 2 /\ MaxLag \in Nat /\ TickInterval \in Nat \ {0} /\ Slack \in Nat
    BY Halves, TimerAssumption DEF Slack
  <1>2. PICK d \in Delays : 2 * (Delay(d) + MaxLag + 2 * TickInterval) < Modulus
    BY TimerAssumption
  <1>3. Delay(d) \in Nat
    BY TimerAssumption DEF Delay
  <1>4. 2 * Slack < Modulus
    BY <1>1, <1>2, <1>3 DEF Slack
  <1> QED BY <1>1, <1>4

(* What the clock reads, without modulo. *)
LEMMA Reads ==
  ASSUME NEW c \in 0 .. Modulus - 1, NEW l \in Int, -Modulus <= l, l <= Modulus
  PROVE  /\ At(c, l) = IF c + l < 0 THEN c + l + Modulus
                       ELSE IF c + l >= Modulus THEN c + l - Modulus ELSE c + l
         /\ At(c, l) \in 0 .. Modulus - 1
  <1>1. PICK m \in Nat : m = Modulus /\ m >= 2
    BY Ranges
  <1>2. PICK x \in Int : x = c + l /\ -m <= x /\ x < 2 * m
    BY <1>1
  <1>3. x % m = IF x < 0 THEN x + m ELSE IF x >= m THEN x - m ELSE x
    BY <1>1, <1>2
  <1>4. At(c, l) = x % m
    BY <1>1, <1>2 DEF At
  <1> HIDE DEF At
  <1> QED BY <1>1, <1>2, <1>3, <1>4

LEMMA ReadsLater ==
  ASSUME NEW c \in 0 .. Modulus - 1, NEW a \in Int, NEW b \in Int,
         -Modulus <= a, a <= Modulus, -Modulus <= b, b <= Modulus,
         -Modulus <= a + b, a + b <= Modulus
  PROVE  At(At(c, a), b) = At(c, a + b)
  <1>1. /\ At(c, a) = IF c + a < 0 THEN c + a + Modulus
                      ELSE IF c + a >= Modulus THEN c + a - Modulus ELSE c + a
        /\ At(c, a) \in 0 .. Modulus - 1
    BY Reads
  <1>2. PICK e \in 0 .. Modulus - 1 : e = At(c, a)
    BY <1>1
  <1>3. At(e, b) = IF e + b < 0 THEN e + b + Modulus
                   ELSE IF e + b >= Modulus THEN e + b - Modulus ELSE e + b
    BY Reads
  <1>4. PICK f \in Int : f = a + b
    OBVIOUS
  <1>5. At(c, f) = IF c + f < 0 THEN c + f + Modulus
                   ELSE IF c + f >= Modulus THEN c + f - Modulus ELSE c + f
    BY <1>4, Reads
  <1>6. At(e, b) = At(c, f)
    BY <1>1, <1>2, <1>3, <1>4, <1>5, Ranges
  <1> QED BY <1>2, <1>4, <1>6

(* TIME_LT and TIME_GT compare the times behind the readings, as long as   *)
(* these are less than half of the range apart.                            *)
LEMMA Compares ==
  ASSUME NEW c \in 0 .. Modulus - 1, NEW a \in Int, NEW b \in Int,
         -Modulus <= a, a <= Modulus, -Modulus <= b, b <= Modulus,
         2 * (a - b) < Modulus, 2 * (b - a) < Modulus
  PROVE  /\ TIME_LT(At(c, a), At(c, b)) <=> a < b
         /\ TIME_GT(At(c, a), At(c, b)) <=> a > b
  <1>1. PICK half \in Nat \ {0} : Modulus = 2 * half /\ Modulus \div 2 = half
    BY Halves
  <1>2. PICK e \in 0 .. Modulus - 1 :
          /\ e = At(c, a)
          /\ e = IF c + a < 0 THEN c + a + Modulus
                 ELSE IF c + a >= Modulus THEN c + a - Modulus ELSE c + a
    BY Reads
  <1>3. PICK f \in 0 .. Modulus - 1 :
          /\ f = At(c, b)
          /\ f = IF c + b < 0 THEN c + b + Modulus
                 ELSE IF c + b >= Modulus THEN c + b - Modulus ELSE c + b
    BY Reads
  <1>4. (e - f) % Modulus = IF e - f >= 0 THEN e - f ELSE e - f + Modulus
    <2>1. PICK m \in Nat : m = Modulus /\ m >= 2
      BY Ranges
    <2>2. PICK x \in Int : x = e - f /\ -m < x /\ x < m
      BY <2>1
    <2>3. x % m = IF x >= 0 THEN x ELSE x + m
      BY <2>1, <2>2
    <2> QED BY <2>1, <2>2, <2>3
  <1>5. PICK y \in Int : y = (e - f) % Modulus
    BY <1>4, Ranges
  <1>6. y = IF a - b >= 0 THEN a - b ELSE a - b + Modulus
    BY <1>1, <1>2, <1>3, <1>4, <1>5
  <1>7. /\ TIME_LT(e, f) <=> y >= half
        /\ TIME_GT(e, f) <=> y \in 1 .. half - 1
    BY <1>1, <1>5 DEF TIME_LT, TIME_GT
  <1> QED BY <1>1, <1>2, <1>3, <1>6, <1>7
-----------------------------------------------------------------------------
(* The list. *)

Holds(q, u) == \E i \in DOMAIN q : q[i] = u

(* q is in the order of the times l, and holds nothing twice. *)
InOrder(q, l) ==
  \A i, j \in DOMAIN q : i < j => l[q[i]] <= l[q[j]] /\ q[i] # q[j]

(* A set of naturals that is not empty has a first element. *)
LEMMA First ==
  ASSUME NEW T \in SUBSET Nat, T # {}
  PROVE  \E i \in T : \A j \in T : i <= j
  <1>1. PICK i \in T : \A j \in T : ~(<<j, i>> \in OpToRel(<, Nat))
    BY WFMin, NatLessThanWellFounded
  <1>2. ASSUME NEW j \in T PROVE i <= j
    <2>1. i \in Nat /\ j \in Nat
      OBVIOUS
    <2>2. ~(j < i)
      BY <1>1, <2>1 DEF OpToRel
    <2> QED BY <2>1, <2>2
  <1> QED BY <1>2

(* r is q with t put in at k. *)
PutAt(q, t, k, r) ==
  /\ k \in 1 .. Len(q) + 1
  /\ r \in Seq(Timers)
  /\ Len(r) = Len(q) + 1
  /\ \A i \in 1 .. Len(q) + 1 :
       r[i] = IF i < k THEN q[i] ELSE IF i = k THEN t ELSE q[i - 1]

LEMMA Splices ==
  ASSUME NEW q \in Seq(Timers), NEW t \in Timers, NEW k \in 1 .. Len(q) + 1
  PROVE  PutAt(q, t, k, SubSeq(q, 1, k - 1) \o <<t>> \o SubSeq(q, k, Len(q)))
  <1>0. Len(q) \in Nat /\ k \in Int /\ \A i \in 1 .. Len(q) : q[i] \in Timers
    OBVIOUS
  <1>1. PICK a : a = SubSeq(q, 1, k - 1)
    OBVIOUS
  <1>2. PICK c : c = SubSeq(q, k, Len(q))
    OBVIOUS
  <1>3. PICK b : b = <<t>>
    OBVIOUS
  <1>4. a \in Seq(Timers) /\ Len(a) = k - 1 /\ \A i \in 1 .. k - 1 : a[i] = q[i]
    <2>1. 1 \in Int /\ k - 1 \in Int /\ \A i \in 1 .. k - 1 : q[i] \in Timers
      BY <1>0
    <2>2. /\ a \in Seq(Timers)
          /\ Len(a) = IF 1 <= k - 1 THEN (k - 1) - 1 + 1 ELSE 0
          /\ \A i \in 1 .. (k - 1) - 1 + 1 : a[i] = q[1 + i - 1]
      BY <1>1, <2>1, SubSeqProperties
    <2> QED BY <1>0, <2>2
  <1>5. /\ c \in Seq(Timers) /\ Len(c) = Len(q) - k + 1
        /\ \A i \in 1 .. Len(q) - k + 1 : c[i] = q[k + i - 1]
    <2>1. Len(q) \in Int /\ \A i \in k .. Len(q) : q[i] \in Timers
      BY <1>0
    <2>2. /\ c \in Seq(Timers)
          /\ Len(c) = IF k <= Len(q) THEN Len(q) - k + 1 ELSE 0
          /\ \A i \in 1 .. Len(q) - k + 1 : c[i] = q[k + i - 1]
      BY <1>0, <1>2, <2>1, SubSeqProperties
    <2> QED BY <1>0, <2>2
  <1>6. b \in Seq(Timers) /\ Len(b) = 1 /\ b[1] = t
    BY <1>3
  <1>7. PICK ab : ab = a \o b
    OBVIOUS
  <1>8. /\ ab \in Seq(Timers) /\ Len(ab) = k
        /\ \A i \in 1 .. k : ab[i] = IF i < k THEN q[i] ELSE t
    <2>1. /\ ab \in Seq(Timers) /\ Len(ab) = Len(a) + Len(b)
          /\ \A i \in 1 .. Len(a) + Len(b) : ab[i] = IF i <= Len(a) THEN a[i] ELSE b[i - Len(a)]
      BY <1>4, <1>6, <1>7, ConcatProperties
    <2>2. Len(a) = k - 1 /\ Len(b) = 1 /\ Len(a) + Len(b) = k
      BY <1>0, <1>4, <1>6
    <2>3. ASSUME NEW i \in 1 .. k, i < k PROVE ab[i] = q[i]
      <3>1. i \in 1 .. k - 1 /\ i \in 1 .. Len(a) + Len(b) /\ i <= Len(a)
        BY <1>0, <2>2, <2>3
      <3> QED BY <1>4, <2>1, <3>1
    <2>4. ASSUME NEW i \in 1 .. k, ~(i < k) PROVE ab[i] = t
      <3>1. i \in 1 .. Len(a) + Len(b) /\ ~(i <= Len(a)) /\ i - Len(a) = 1
        BY <1>0, <2>2, <2>4
      <3> QED BY <1>6, <2>1, <3>1
    <2> QED BY <2>1, <2>2, <2>3, <2>4
  <1>9. PICK r : r = ab \o c
    OBVIOUS
  <1>10. /\ r \in Seq(Timers) /\ Len(r) = Len(ab) + Len(c)
         /\ \A i \in 1 .. Len(ab) + Len(c) : r[i] = IF i <= Len(ab) THEN ab[i] ELSE c[i - Len(ab)]
    BY <1>5, <1>8, <1>9, ConcatProperties
  <1>11. ASSUME NEW i \in 1 .. Len(q) + 1
         PROVE  r[i] = IF i < k THEN q[i] ELSE IF i = k THEN t ELSE q[i - 1]
    <2>1. CASE i <= k
      BY <1>0, <1>5, <1>8, <1>10, <2>1
    <2>2. CASE i > k
      <3>1. r[i] = c[i - k] /\ i - k \in 1 .. Len(q) - k + 1
        BY <1>0, <1>5, <1>8, <1>10, <2>2
      <3>2. c[i - k] = q[k + (i - k) - 1] /\ k + (i - k) - 1 = i - 1
        BY <1>0, <1>5, <3>1
      <3> QED BY <2>2, <3>1, <3>2
    <2> QED BY <2>1, <2>2
  <1>12. Len(r) = Len(q) + 1
    BY <1>0, <1>5, <1>8, <1>10
  <1>13. PutAt(q, t, k, r)
    BY <1>10, <1>11, <1>12 DEF PutAt
  <1>14. r = SubSeq(q, 1, k - 1) \o <<t>> \o SubSeq(q, k, Len(q))
    BY <1>1, <1>2, <1>3, <1>7, <1>9
  <1> QED BY <1>13, <1>14

(* insert_timer_in_queue puts the timer behind those that are not later    *)
(* and before the first that is.                                           *)
LEMMA InsertPuts ==
  ASSUME timer_queue \in Seq(Timers), NEW t \in Timers, NEW s
  PROVE  \E k \in 1 .. Len(timer_queue) + 1 :
           /\ PutAt(timer_queue, t, k, insert_timer_in_queue(t, s))
           /\ \A i \in 1 .. Len(timer_queue) :
                i < k => ~TIME_GT(scheduled_time[timer_queue[i]], s)
           /\ k <= Len(timer_queue) => TIME_GT(scheduled_time[timer_queue[k]], s)
  <1> DEFINE later == {i \in DOMAIN timer_queue : TIME_GT(scheduled_time[timer_queue[i]], s)}
             k == IF later = {} THEN Len(timer_queue) + 1
                  ELSE CHOOSE i \in later : \A j \in later : i <= j
  <1>1. DOMAIN timer_queue = 1 .. Len(timer_queue) /\ Len(timer_queue) \in Nat
    OBVIOUS
  <1>2. insert_timer_in_queue(t, s)
          = SubSeq(timer_queue, 1, k - 1) \o <<t>> \o SubSeq(timer_queue, k, Len(timer_queue))
    BY DEF insert_timer_in_queue
  <1>3. later \subseteq 1 .. Len(timer_queue) /\ later \in SUBSET Nat
    BY <1>1
  <1>4. \A i \in 1 .. Len(timer_queue) :
          i \in later <=> TIME_GT(scheduled_time[timer_queue[i]], s)
    BY <1>1
  <1> HIDE DEF later
  <1>5. later # {} => k \in later /\ \A j \in later : k <= j
    BY <1>3, First
  <1>6. later = {} => k = Len(timer_queue) + 1
    OBVIOUS
  <1> HIDE DEF k
  <1>7. k \in 1 .. Len(timer_queue) + 1
    <2>1. CASE later = {}
      BY <1>1, <1>6, <2>1
    <2>2. CASE later # {}
      <3>1. k \in 1 .. Len(timer_queue)
        BY <1>3, <1>5, <2>2
      <3> QED BY <1>1, <3>1
    <2> QED BY <2>1, <2>2
  <1>8. ASSUME NEW i \in 1 .. Len(timer_queue), i < k
        PROVE  ~TIME_GT(scheduled_time[timer_queue[i]], s)
    <2>1. i \notin later
      BY <1>1, <1>5, <1>7, <1>8
    <2> QED BY <1>4, <2>1
  <1>9. k <= Len(timer_queue) => TIME_GT(scheduled_time[timer_queue[k]], s)
    <2>1. k <= Len(timer_queue) => later # {} /\ k \in 1 .. Len(timer_queue)
      BY <1>1, <1>6, <1>7
    <2> QED BY <1>4, <1>5, <2>1
  <1>10. PutAt(timer_queue, t, k, insert_timer_in_queue(t, s))
    BY <1>2, <1>7, Splices
  <1> QED BY <1>7, <1>8, <1>9, <1>10

(* What a list with t put in holds, and that it is in order if t's time is *)
(* not before the times in front of it nor after the ones behind it.       *)
LEMMA PutHolds ==
  ASSUME NEW q \in Seq(Timers), NEW t \in Timers, NEW k, NEW r, PutAt(q, t, k, r)
  PROVE  \A u : Holds(r, u) <=> Holds(q, u) \/ u = t
  <1>1. /\ Len(q) \in Nat /\ DOMAIN q = 1 .. Len(q) /\ k \in 1 .. Len(q) + 1
        /\ DOMAIN r = 1 .. Len(q) + 1
        /\ \A i \in 1 .. Len(q) + 1 :
             r[i] = IF i < k THEN q[i] ELSE IF i = k THEN t ELSE q[i - 1]
    BY DEF PutAt
  <1>2. ASSUME NEW i \in DOMAIN r PROVE Holds(q, r[i]) \/ r[i] = t
    <2>1. CASE i < k
      BY <1>1, <2>1 DEF Holds
    <2>2. CASE i = k
      BY <1>1, <2>2
    <2>3. CASE i > k
      <3>1. i - 1 \in 1 .. Len(q) /\ r[i] = q[i - 1]
        BY <1>1, <2>3
      <3> QED BY <1>1, <3>1 DEF Holds
    <2> QED BY <1>1, <2>1, <2>2, <2>3
  <1>3. Holds(r, t)
    BY <1>1 DEF Holds
  <1>4. ASSUME NEW i \in DOMAIN q PROVE Holds(r, q[i])
    <2>1. CASE i < k
      <3>1. i \in DOMAIN r /\ r[i] = q[i]
        BY <1>1, <2>1
      <3> QED BY <3>1 DEF Holds
    <2>2. CASE i >= k
      <3>1. PICK j \in DOMAIN r : j = i + 1
        BY <1>1
      <3>2. r[j] = q[i]
        BY <1>1, <2>2, <3>1
      <3> QED BY <3>2 DEF Holds
    <2> QED BY <1>1, <2>1, <2>2
  <1>5. ASSUME NEW u PROVE Holds(r, u) => Holds(q, u) \/ u = t
    BY <1>2 DEF Holds
  <1>6. ASSUME NEW u PROVE Holds(q, u) => Holds(r, u)
    BY <1>4 DEF Holds
  <1> QED BY <1>3, <1>5, <1>6

LEMMA PutInOrder ==
  ASSUME NEW q \in Seq(Timers), NEW t \in Timers, NEW k, NEW r, PutAt(q, t, k, r),
         NEW l \in [Timers -> Int], InOrder(q, l), ~Holds(q, t),
         \A i \in 1 .. Len(q) : i < k => l[q[i]] <= l[t],
         k <= Len(q) => l[q[k]] >= l[t]
  PROVE  InOrder(r, l)
  <1> DEFINE old(i) == IF i < k THEN i ELSE i - 1
  <1>1. /\ Len(q) \in Nat /\ DOMAIN q = 1 .. Len(q) /\ k \in 1 .. Len(q) + 1
        /\ DOMAIN r = 1 .. Len(q) + 1
        /\ r[k] = t
        /\ \A i \in 1 .. Len(q) + 1 : i # k => old(i) \in 1 .. Len(q) /\ r[i] = q[old(i)]
        /\ \A i, j \in 1 .. Len(q) + 1 : i # k /\ j # k /\ i < j => old(i) < old(j)
        /\ \A i \in 1 .. Len(q) + 1 : i < k => old(i) < k
        /\ \A i \in 1 .. Len(q) + 1 : i > k => old(i) >= k
    <2>1. /\ Len(q) \in Nat /\ DOMAIN q = 1 .. Len(q) /\ k \in 1 .. Len(q) + 1
          /\ DOMAIN r = 1 .. Len(q) + 1 /\ r[k] = t
      BY DEF PutAt
    <2>2. \A i \in 1 .. Len(q) + 1 : i # k => old(i) \in 1 .. Len(q)
      BY <2>1
    <2>3. \A i \in 1 .. Len(q) + 1 : i # k => r[i] = q[old(i)]
      BY DEF PutAt
    <2>4. /\ \A i, j \in 1 .. Len(q) + 1 : i # k /\ j # k /\ i < j => old(i) < old(j)
          /\ \A i \in 1 .. Len(q) + 1 : i < k => old(i) < k
          /\ \A i \in 1 .. Len(q) + 1 : i > k => old(i) >= k
      BY <2>1
    <2> HIDE DEF old
    <2> QED BY <2>1, <2>2, <2>3, <2>4
  <1> HIDE DEF old
  <1>2. \A i \in 1 .. Len(q) : q[i] # t /\ q[i] \in Timers /\ l[q[i]] \in Int
    <2> TAKE i \in 1 .. Len(q)
    <2>1. q[i] \in Timers
      OBVIOUS
    <2>2. q[i] # t
      BY <1>1, Zenon DEF Holds
    <2>3. l[q[i]] \in Int
      BY <2>1, Zenon
    <2> QED BY <2>1, <2>2, <2>3
  <1>3. \A i \in 1 .. Len(q) : i >= k => l[q[i]] >= l[t]
    <2> SUFFICES ASSUME NEW i \in 1 .. Len(q), i >= k PROVE l[q[i]] >= l[t]
      OBVIOUS
    <2>1. k \in 1 .. Len(q) /\ l[q[k]] >= l[t]
      BY <1>1
    <2>2. i = k \/ l[q[k]] <= l[q[i]]
      <3>1. i = k \/ k < i
        BY <1>1
      <3>2. i \in DOMAIN q /\ k \in DOMAIN q
        BY <1>1, <2>1
      <3> QED BY <3>1, <3>2, Zenon DEF InOrder
    <2> QED BY <1>2, <2>1, <2>2
  <1>4. ASSUME NEW i \in DOMAIN r, NEW j \in DOMAIN r, i < j
        PROVE  l[r[i]] <= l[r[j]] /\ r[i] # r[j]
    <2>1. CASE i # k /\ j # k
      <3>1. old(i) \in DOMAIN q /\ old(j) \in DOMAIN q /\ old(i) < old(j)
        BY <1>1, <1>4, <2>1
      <3> QED BY <1>1, <2>1, <3>1 DEF InOrder
    <2>2. CASE i = k
      <3>1. j # k /\ j > k
        BY <1>1, <1>4, <2>2
      <3>2. old(j) \in 1 .. Len(q) /\ old(j) >= k /\ r[j] = q[old(j)]
        BY <1>1, <3>1
      <3>3. l[q[old(j)]] >= l[t] /\ q[old(j)] # t
        BY <1>2, <1>3, <3>2
      <3> QED BY <1>1, <1>2, <2>2, <3>2, <3>3
    <2>3. CASE j = k
      <3>1. i # k /\ i < k
        BY <1>1, <1>4, <2>3
      <3>2. old(i) \in 1 .. Len(q) /\ old(i) < k /\ r[i] = q[old(i)]
        BY <1>1, <3>1
      <3> QED BY <1>1, <1>2, <2>3, <3>2
    <2> QED BY <2>1, <2>2, <2>3
  <1> QED BY <1>4 DEF InOrder

(* When a time can be told from those in the list. *)
Comparable(l) == Near(l) /\ l >= -Slack

(* Two such times are less than half the range of the clock apart. *)
LEMMA WithinRange ==
  ASSUME NEW a, NEW l, Comparable(a), Comparable(l)
  PROVE  /\ -Modulus <= a /\ a <= Modulus /\ -Modulus <= l /\ l <= Modulus
         /\ 2 * (a - l) < Modulus /\ 2 * (l - a) < Modulus
  <1>1. /\ a \in Int /\ l \in Int /\ a >= -Slack /\ l >= -Slack
        /\ 2 * (a + Slack) < Modulus /\ 2 * (l + Slack) < Modulus
    BY DEF Comparable, Near
  <1>2. Modulus \in Nat /\ Slack \in Nat /\ 2 * Slack < Modulus
    BY Ranges
  <1> QED BY <1>1, <1>2

(* insert_timer_in_queue of a timer that is due in l, while every timer u  *)
(* of the list is due in left[u].                                          *)
LEMMA Inserts ==
  ASSUME TimerTypeOK, QueueInOrder, NEW t \in Timers, ~InList(t),
         NEW l, Comparable(l),
         \A u \in Timers : InList(u) => Comparable(left[u]) /\ scheduled_time[u] = At(clock, left[u]),
         NEW r, r = insert_timer_in_queue(t, At(clock, l))
  PROVE  /\ r \in Seq(Timers)
         /\ \A u : Holds(r, u) <=> InList(u) \/ u = t
         /\ InOrder(r, [left EXCEPT ![t] = l])
  <1>1. /\ timer_queue \in Seq(Timers) /\ DOMAIN timer_queue = 1 .. Len(timer_queue)
        /\ left \in [Timers -> Int] /\ l \in Int /\ clock \in 0 .. Modulus - 1
    BY DEF TimerTypeOK, Comparable, Near
  <1>2. PICK m \in [Timers -> Int] : m = [left EXCEPT ![t] = l]
    BY <1>1
  <1>3. m[t] = l /\ \A u \in Timers : u # t => m[u] = left[u]
    BY <1>1, <1>2
  <1>4. PICK k \in 1 .. Len(timer_queue) + 1 :
          /\ PutAt(timer_queue, t, k, r)
          /\ \A i \in 1 .. Len(timer_queue) :
               i < k => ~TIME_GT(scheduled_time[timer_queue[i]], At(clock, l))
          /\ k <= Len(timer_queue) => TIME_GT(scheduled_time[timer_queue[k]], At(clock, l))
    BY <1>1, InsertPuts
  <1>5. \A u : Holds(timer_queue, u) <=> InList(u)
    BY DEF Holds, InList
  <1>6. \A i \in 1 .. Len(timer_queue) :
          /\ timer_queue[i] \in Timers /\ timer_queue[i] # t
          /\ InList(timer_queue[i])
    <2> SUFFICES ASSUME NEW i \in 1 .. Len(timer_queue)
                 PROVE  timer_queue[i] \in Timers /\ InList(timer_queue[i])
      BY Zenon
    <2>1. timer_queue[i] \in Timers
      BY <1>1
    <2>2. i \in DOMAIN timer_queue
      BY <1>1
    <2> QED BY <2>1, <2>2, Zenon DEF InList
  <1>7. ASSUME NEW i \in 1 .. Len(timer_queue)
        PROVE  TIME_GT(scheduled_time[timer_queue[i]], At(clock, l)) <=> m[timer_queue[i]] > l
    <2>1. PICK a \in Int : a = left[timer_queue[i]]
      BY <1>1, <1>6
    <2>2. Comparable(a) /\ scheduled_time[timer_queue[i]] = At(clock, a) /\ m[timer_queue[i]] = a
      BY <1>3, <1>6, <2>1
    <2>3. /\ -Modulus <= a /\ a <= Modulus /\ -Modulus <= l /\ l <= Modulus
          /\ 2 * (a - l) < Modulus /\ 2 * (l - a) < Modulus
      BY <2>2, WithinRange
    <2>4. TIME_GT(At(clock, a), At(clock, l)) <=> a > l
      BY <1>1, <2>3, Compares
    <2> QED BY <2>2, <2>4
  <1>8. InOrder(timer_queue, m)
    BY <1>1, <1>3, <1>6 DEF QueueInOrder, InOrder
  <1>9. \A i \in 1 .. Len(timer_queue) : i < k => m[timer_queue[i]] <= m[t]
    BY <1>1, <1>3, <1>4, <1>6, <1>7
  <1>10. k <= Len(timer_queue) => m[timer_queue[k]] >= m[t]
    BY <1>1, <1>3, <1>4, <1>6, <1>7
  <1>11. InOrder(r, m)
    BY <1>1, <1>4, <1>5, <1>8, <1>9, <1>10, PutInOrder
  <1>12. r \in Seq(Timers) /\ \A u : Holds(r, u) <=> InList(u) \/ u = t
    <2>1. \A u : Holds(r, u) <=> Holds(timer_queue, u) \/ u = t
      BY <1>1, <1>4, PutHolds, Zenon
    <2>2. r \in Seq(Timers)
      BY <1>4 DEF PutAt
    <2> QED BY <1>5, <2>1, <2>2, Zenon
  <1> QED BY <1>2, <1>11, <1>12

(* list_delete leaves the others, in their order. *)
LEMMA Deletes ==
  ASSUME TimerTypeOK, QueueInOrder, NEW t \in Timers, NEW r, r = list_delete(t)
  PROVE  /\ r \in Seq(Timers)
         /\ \A u : Holds(r, u) <=> InList(u) /\ u # t
         /\ InOrder(r, left)
  <1> DEFINE q == timer_queue
             k == CHOOSE i \in DOMAIN q : q[i] = t
             old(i) == IF i < k THEN i ELSE i + 1
  <1>0. /\ q \in Seq(Timers) /\ DOMAIN q = 1 .. Len(q) /\ Len(q) \in Nat
        /\ \A i \in 1 .. Len(q) : q[i] \in Timers
    BY DEF TimerTypeOK
  <1>1. CASE ~InList(t)
    <2>1. r = q
      BY <1>1 DEF list_delete
    <2>2. \A u : Holds(r, u) <=> InList(u)
      BY <2>1 DEF Holds, InList
    <2>3. InOrder(r, left)
      BY <2>1 DEF InOrder, QueueInOrder
    <2> QED BY <1>0, <1>1, <2>1, <2>2, <2>3
  <1>2. CASE InList(t)
    <2>1. k \in 1 .. Len(q) /\ q[k] = t
      BY <1>0, <1>2 DEF InList
    <2>2. r = [i \in 1 .. Len(q) - 1 |-> IF i < k THEN q[i] ELSE q[i + 1]]
      BY <1>2 DEF list_delete
    <2>3. \A i, j \in 1 .. Len(q) : i < j => left[q[i]] <= left[q[j]] /\ q[i] # q[j]
      BY <1>0 DEF QueueInOrder
    <2>4. \A u : InList(u) <=> \E i \in 1 .. Len(q) : q[i] = u
      BY <1>0 DEF InList
    <2> HIDE DEF k, q
    <2>5. /\ DOMAIN r = 1 .. Len(q) - 1
          /\ \A i \in 1 .. Len(q) - 1 : old(i) \in 1 .. Len(q) /\ old(i) # k /\ r[i] = q[old(i)]
          /\ \A i, j \in 1 .. Len(q) - 1 : i < j => old(i) < old(j)
      BY <1>0, <2>1, <2>2
    <2>6. r \in Seq(Timers)
      <3>1. Len(q) - 1 \in Nat /\ \A i \in 1 .. Len(q) - 1 : r[i] \in Timers
        BY <1>0, <2>1, <2>5
      <3> QED BY <2>2, <3>1
    <2>7. ASSUME NEW i \in 1 .. Len(q), i # k PROVE Holds(r, q[i])
      <3>1. CASE i < k
        <4>1. i \in DOMAIN r /\ r[i] = q[i]
          BY <1>0, <2>1, <2>2, <3>1
        <4> QED BY <4>1 DEF Holds
      <3>2. CASE i > k
        <4>1. PICK j \in DOMAIN r : j + 1 = i /\ ~(j < k)
          <5>1. i - 1 \in DOMAIN r /\ (i - 1) + 1 = i /\ ~(i - 1 < k)
            BY <1>0, <2>1, <2>2, <3>2
          <5> QED BY <5>1
        <4>2. r[j] = q[i]
          BY <2>2, <4>1
        <4> QED BY <4>2 DEF Holds
      <3> QED BY <1>0, <2>1, <2>7, <3>1, <3>2
    <2>8. \A i \in 1 .. Len(q) : i # k => q[i] # t
      BY <1>0, <2>1, <2>3
    <2>9. ASSUME NEW i \in DOMAIN r PROVE InList(r[i]) /\ r[i] # t
      BY <2>4, <2>5, <2>8
    <2>10. ASSUME NEW u PROVE Holds(r, u) => InList(u) /\ u # t
      BY <2>9 DEF Holds
    <2>11. ASSUME NEW u, InList(u), u # t PROVE Holds(r, u)
      BY <2>1, <2>4, <2>7, <2>11
    <2> HIDE DEF old
    <2>12. InOrder(r, left)
      BY <2>3, <2>5 DEF InOrder
    <2> QED BY <2>6, <2>10, <2>11, <2>12
  <1> QED BY <1>1, <1>2
-----------------------------------------------------------------------------
(* The steps. *)

(* What is in the list can be told apart. *)
LEMMA ListComparable ==
  ASSUME TimerIndInv, NEW u \in Timers, InList(u)
  PROVE  Comparable(left[u]) /\ scheduled_time[u] = At(clock, left[u])
  <1>1. Listed(u) /\ since \in 0 .. TickInterval /\ left[u] \in Int
    BY DEF TimerIndInv, TimerTypeOK
  <1>2. left[u] >= -Slack
    BY <1>1, Ranges DEF Listed, Slack
  <1> QED BY <1>1, <1>2 DEF Comparable, Listed

(* The delays asked for. *)
LEMMA DelaysNear ==
  ASSUME NEW d \in Delays
  PROVE  Delay(d) \in Nat \ {0} /\ Comparable(Delay(d)) /\ Near(Delay(d))
  BY TimerAssumption, Ranges DEF Comparable, Near, Slack, Delay

(* Only timers are in the list. *)
LEMMA ListedAreTimers ==
  ASSUME TimerTypeOK, NEW u, InList(u)
  PROVE  u \in Timers
  BY DEF TimerTypeOK, InList

LEMMA InitKeeps ==
  ASSUME TimerInit
  PROVE  TimerIndInv
  <1>1. TimerTypeOK
    <2>1. 0 \in 0 .. Modulus - 1 /\ 0 \in 0 .. TickInterval
      BY Ranges
    <2>2. timer_queue \in Seq(Timers)
      BY DEF TimerInit
    <2>3. /\ scheduled_time \in [Timers -> 0 .. Modulus - 1] /\ periodic_time \in [Timers -> Nat]
          /\ callback \in [Timers -> BOOLEAN] /\ left \in [Timers -> Int]
      BY <2>1 DEF TimerInit
    <2>4. /\ clock \in 0 .. Modulus - 1 /\ since \in 0 .. TickInterval
          /\ now \in 0 .. Modulus - 1
      BY <2>1 DEF TimerInit
    <2>5. /\ ticking \in BOOLEAN /\ periodic \in BOOLEAN /\ firing \in Timers \cup {NoTimer}
          /\ setting \in SUBSET Timers /\ late \in SUBSET Timers
      BY DEF TimerInit
    <2> QED BY <2>2, <2>3, <2>4, <2>5 DEF TimerTypeOK
  <1>2. \A t : ~InList(t)
    <2>1. DOMAIN timer_queue = {}
      BY DEF TimerInit
    <2> QED BY <2>1, Zenon DEF InList
  <1>3. QueueInOrder /\ NothingOverdue
    BY DEF QueueInOrder, NothingOverdue, TimerInit
  <1>4. TickState
    BY DEF TickState, TimerInit
  <1> QED BY <1>1, <1>2, <1>3, <1>4 DEF TimerIndInv, TimerInit

LEMMA SetKeeps ==
  ASSUME TimerIndInv, NEW t \in Timers, NEW d \in Delays, NEW p \in {0, Delay(d)},
         timer_set(t, Delay(d), p)
  PROVE  TimerIndInv'
  <1>0. /\ Delay(d) \in Nat /\ Near(Delay(d)) /\ p \in Nat /\ (p > 0 => Near(p))
        /\ Modulus \in Nat \ {0} /\ MaxLag \in Nat
    BY DelaysNear, Ranges
  <1>1. TimerTypeOK /\ clock \in Nat
    BY DEF TimerIndInv, TimerTypeOK
  <1>2. /\ ~ticking /\ ~InList(t) /\ t \notin setting /\ setting' = setting \cup {t}
        /\ scheduled_time' = [scheduled_time EXCEPT ![t] = (clock + Delay(d)) % Modulus]
        /\ periodic_time' = [periodic_time EXCEPT ![t] = p]
        /\ callback' = [callback EXCEPT ![t] = TRUE]
        /\ left' = [left EXCEPT ![t] = Delay(d)]
        /\ clock' = clock /\ since' = since /\ timer_queue' = timer_queue /\ now' = now
        /\ ticking' = ticking /\ firing' = firing /\ periodic' = periodic /\ late' = late
    BY DEF timer_set, FillIn
  <1>3. TimerTypeOK'
    <2>1. (clock + Delay(d)) % Modulus \in 0 .. Modulus - 1
      BY <1>0, <1>1
    <2>2. /\ scheduled_time' \in [Timers -> 0 .. Modulus - 1]
          /\ periodic_time' \in [Timers -> Nat] /\ callback' \in [Timers -> BOOLEAN]
          /\ left' \in [Timers -> Int]
      <3>1. Delay(d) \in Int
        BY <1>0
      <3> QED BY <1>0, <1>1, <1>2, <2>1, <3>1 DEF TimerTypeOK
    <2> QED BY <1>1, <1>2, <2>2 DEF TimerTypeOK
  <1>4. /\ \A u : InList(u)' <=> InList(u)
        /\ \A u \in Timers : u # t =>
             /\ left'[u] = left[u] /\ scheduled_time'[u] = scheduled_time[u]
             /\ callback'[u] = callback[u] /\ periodic_time'[u] = periodic_time[u]
        /\ left'[t] = Delay(d) /\ callback'[t] /\ periodic_time'[t] = p
        /\ scheduled_time'[t] = At(clock, Delay(d))
    BY <1>1, <1>2 DEF InList, TimerTypeOK, At
  <1>5. \A i \in DOMAIN timer_queue : timer_queue[i] \in Timers /\ timer_queue[i] # t
    BY <1>1, <1>2 DEF TimerTypeOK, InList
  <1>6. QueueInOrder'
    BY <1>2, <1>4, <1>5 DEF TimerIndInv, QueueInOrder
  <1>7. NothingOverdue'
    BY <1>2, <1>4, <1>5 DEF TimerIndInv, NothingOverdue
  <1>8. firing = NoTimer
    BY <1>2 DEF TimerIndInv, TickState
  <1>9. TickState'
    <2>1. \A u \in Timers : periodic_time'[u] > 0 => Near(periodic_time'[u])
      BY <1>0, <1>4 DEF TimerIndInv, TickState
    <2> QED BY <1>2, <1>8, <2>1 DEF TickState, Near, Slack
  <1>10. ASSUME NEW u \in Timers, InList(u)' PROVE Listed(u)'
    <2>1. u # t /\ Listed(u)
      BY <1>2, <1>4, <1>10 DEF TimerIndInv
    <2> QED BY <1>2, <1>4, <2>1 DEF Listed, Near, At, Slack
  <1>11. ASSUME NEW u \in setting' PROVE BeingSet(u)'
    <2>1. CASE u = t
      BY <1>0, <1>2, <1>4, <2>1 DEF BeingSet, Near, At, Slack
    <2>2. CASE u # t
      <3>1. u \in setting /\ BeingSet(u) /\ u \in Timers
        BY <1>1, <1>2, <2>2 DEF TimerIndInv, TimerTypeOK
      <3> QED BY <1>2, <1>4, <2>2, <3>1 DEF BeingSet, Near, At, Slack
    <2> QED BY <2>1, <2>2
  <1> QED BY <1>3, <1>6, <1>7, <1>9, <1>10, <1>11 DEF TimerIndInv

LEMMA SetInsertsKeeps ==
  ASSUME TimerIndInv, NEW t \in Timers, timer_set_inserts(t)
  PROVE  TimerIndInv'
  <1>1. TimerTypeOK /\ QueueInOrder
    BY DEF TimerIndInv
  <1>2. /\ ~ticking /\ t \in setting /\ setting' = setting \ {t} /\ late' = late \cup {t}
        /\ timer_queue' = insert_timer_in_queue(t, scheduled_time[t])
        /\ scheduled_time' = scheduled_time /\ periodic_time' = periodic_time
        /\ callback' = callback /\ left' = left
        /\ clock' = clock /\ since' = since /\ now' = now
        /\ ticking' = ticking /\ firing' = firing /\ periodic' = periodic
    BY DEF timer_set_inserts
  <1>3. BeingSet(t) /\ since \in Nat /\ left[t] \in Int /\ left \in [Timers -> Int]
    BY <1>1, <1>2 DEF TimerIndInv, TimerTypeOK
  <1>4. ~InList(t)
    BY <1>2 DEF TimerIndInv, Listed
  <1>5. Comparable(left[t]) /\ scheduled_time[t] = At(clock, left[t])
    BY <1>3, Ranges DEF BeingSet, Comparable, Slack
  <1>6. [left EXCEPT ![t] = left[t]] = left
    BY <1>3
  <1>7. /\ timer_queue' \in Seq(Timers)
        /\ \A u : Holds(timer_queue', u) <=> InList(u) \/ u = t
        /\ InOrder(timer_queue', left)
    <2>1. timer_queue' = insert_timer_in_queue(t, At(clock, left[t]))
      BY <1>2, <1>5
    <2>2. \A u \in Timers : InList(u) => Comparable(left[u]) /\ scheduled_time[u] = At(clock, left[u])
      BY ListComparable
    <2>3. /\ timer_queue' \in Seq(Timers)
          /\ \A u : Holds(timer_queue', u) <=> InList(u) \/ u = t
          /\ InOrder(timer_queue', [left EXCEPT ![t] = left[t]])
      BY <1>1, <1>4, <1>5, <2>1, <2>2, Inserts
    <2> QED BY <1>6, <2>3
  <1>8. \A u : InList(u)' <=> InList(u) \/ u = t
    BY <1>7 DEF Holds, InList
  <1>9. TimerTypeOK'
    BY <1>1, <1>2, <1>7 DEF TimerTypeOK
  <1>10. QueueInOrder'
    BY <1>2, <1>7 DEF QueueInOrder, InOrder
  <1>11. NothingOverdue'
    <2> SUFFICES ASSUME NEW i \in DOMAIN timer_queue'
                 PROVE  timer_queue'[i] \in late' \/ left[timer_queue'[i]] + since > 0
      BY <1>2 DEF NothingOverdue
    <2>1. timer_queue'[i] = t \/ InList(timer_queue'[i])
      BY <1>7 DEF Holds
    <2>2. CASE InList(timer_queue'[i])
      BY <1>2, <2>2 DEF TimerIndInv, NothingOverdue, InList
    <2> QED BY <1>2, <2>1, <2>2
  <1>12. firing = NoTimer
    BY <1>2 DEF TimerIndInv, TickState
  <1>13. TickState'
    BY <1>2, <1>12 DEF TimerIndInv, TickState, Near, Slack
  <1>14. ASSUME NEW u \in Timers, InList(u)' PROVE Listed(u)'
    <2>1. CASE u = t
      BY <1>2, <1>3, <2>1, Ranges DEF BeingSet, Listed, Near, At, Slack
    <2>2. CASE u # t
      <3>1. Listed(u)
        BY <1>8, <1>14, <2>2 DEF TimerIndInv
      <3> QED BY <1>2, <3>1 DEF Listed, Near, At, Slack
    <2> QED BY <2>1, <2>2
  <1>15. ASSUME NEW u \in setting' PROVE BeingSet(u)'
    <2>1. BeingSet(u)
      BY <1>2 DEF TimerIndInv
    <2> QED BY <1>2, <2>1 DEF BeingSet, Near, At, Slack
  <1> QED BY <1>9, <1>10, <1>11, <1>13, <1>14, <1>15 DEF TimerIndInv

LEMMA CallbackSetsKeeps ==
  ASSUME TimerIndInv, NEW t \in Timers, NEW d \in Delays, NEW p \in {0, Delay(d)},
         callback_sets(t, Delay(d), p)
  PROVE  TimerIndInv'
  <1>0. /\ Delay(d) \in Nat /\ Near(Delay(d)) /\ p \in Nat /\ (p > 0 => Near(p))
        /\ Comparable(Delay(d)) /\ Modulus \in Nat \ {0} /\ MaxLag \in Nat /\ TickInterval \in Nat
    BY DelaysNear, Ranges
  <1>1. TimerTypeOK /\ QueueInOrder /\ clock \in Nat /\ since \in Nat
    BY DEF TimerIndInv, TimerTypeOK
  <1>2. /\ firing # NoTimer /\ ~InList(t) /\ t \notin setting /\ setting' = setting
        /\ scheduled_time' = [scheduled_time EXCEPT ![t] = (clock + Delay(d)) % Modulus]
        /\ periodic_time' = [periodic_time EXCEPT ![t] = p]
        /\ callback' = [callback EXCEPT ![t] = TRUE]
        /\ left' = [left EXCEPT ![t] = Delay(d)]
        /\ timer_queue' = insert_timer_in_queue(t, (clock + Delay(d)) % Modulus)
        /\ clock' = clock /\ since' = since /\ now' = now
        /\ ticking' = ticking /\ firing' = firing /\ periodic' = periodic /\ late' = late
    BY DEF callback_sets, FillIn
  <1>3. ticking /\ Fired(firing) /\ firing \in Timers
    BY <1>1, <1>2 DEF TimerIndInv, TickState, TimerTypeOK
  <1>4. /\ timer_queue' \in Seq(Timers)
        /\ \A u : Holds(timer_queue', u) <=> InList(u) \/ u = t
        /\ InOrder(timer_queue', left')
    <2>1. timer_queue' = insert_timer_in_queue(t, At(clock, Delay(d)))
      BY <1>2 DEF At
    <2>2. \A u \in Timers : InList(u) => Comparable(left[u]) /\ scheduled_time[u] = At(clock, left[u])
      BY ListComparable
    <2>3. /\ timer_queue' \in Seq(Timers)
          /\ \A u : Holds(timer_queue', u) <=> InList(u) \/ u = t
          /\ InOrder(timer_queue', [left EXCEPT ![t] = Delay(d)])
      BY <1>0, <1>1, <1>2, <2>1, <2>2, Inserts
    <2> QED BY <1>2, <2>3
  <1>5. TimerTypeOK'
    <2>1. (clock + Delay(d)) % Modulus \in 0 .. Modulus - 1
      BY <1>0, <1>1
    <2>2. /\ scheduled_time' \in [Timers -> 0 .. Modulus - 1]
          /\ periodic_time' \in [Timers -> Nat] /\ callback' \in [Timers -> BOOLEAN]
          /\ left' \in [Timers -> Int]
      <3>1. Delay(d) \in Int
        BY <1>0
      <3> QED BY <1>0, <1>1, <1>2, <2>1, <3>1 DEF TimerTypeOK
    <2> QED BY <1>1, <1>2, <1>4, <2>2 DEF TimerTypeOK
  <1>6. \A u : InList(u)' <=> InList(u) \/ u = t
    BY <1>4 DEF Holds, InList
  <1>7. /\ \A u \in Timers : u # t =>
             /\ left'[u] = left[u] /\ scheduled_time'[u] = scheduled_time[u]
             /\ callback'[u] = callback[u] /\ periodic_time'[u] = periodic_time[u]
        /\ left'[t] = Delay(d) /\ callback'[t] /\ periodic_time'[t] = p
        /\ scheduled_time'[t] = At(clock, Delay(d))
    BY <1>1, <1>2 DEF TimerTypeOK, At
  <1>8. QueueInOrder' /\ NothingOverdue'
    BY <1>2, <1>3, <1>4 DEF QueueInOrder, InOrder, NothingOverdue
  <1>9. Fired(firing)'
    <2>1. CASE firing = t
      BY <1>2, <1>6, <2>1 DEF Fired
    <2>2. CASE firing # t
      BY <1>2, <1>3, <1>6, <1>7, <2>2 DEF Fired, At
    <2> QED BY <2>1, <2>2
  <1>10. TickState'
    <2>1. \A u \in Timers : periodic_time'[u] > 0 => Near(periodic_time'[u])
      BY <1>0, <1>7 DEF TimerIndInv, TickState
    <2>2. now = At(clock, -since)
      BY <1>3 DEF TimerIndInv, TickState
    <2> QED BY <1>2, <1>3, <1>9, <2>1, <2>2 DEF TickState, Near, Slack, At
  <1>11. ASSUME NEW u \in Timers, InList(u)' PROVE Listed(u)'
    <2>1. CASE u = t
      BY <1>0, <1>1, <1>2, <1>7, <2>1 DEF Listed, Near, At, Slack
    <2>2. CASE u # t
      <3>1. Listed(u)
        BY <1>6, <1>11, <2>2 DEF TimerIndInv
      <3> QED BY <1>2, <1>7, <2>2, <3>1 DEF Listed, Near, At, Slack
    <2> QED BY <2>1, <2>2
  <1>12. ASSUME NEW u \in setting' PROVE BeingSet(u)'
    <2>1. u \in Timers /\ u # t /\ BeingSet(u)
      BY <1>1, <1>2 DEF TimerIndInv, TimerTypeOK
    <2> QED BY <1>2, <1>7, <2>1 DEF BeingSet, Near, At, Slack
  <1> QED BY <1>5, <1>8, <1>10, <1>11, <1>12 DEF TimerIndInv

LEMMA CancelKeeps ==
  ASSUME TimerIndInv, NEW t \in Timers, timer_cancel(t)
  PROVE  TimerIndInv'
  <1>1. TimerTypeOK /\ QueueInOrder
    BY DEF TimerIndInv
  <1>2. /\ t \notin setting /\ setting' = setting /\ late' = late \ {t}
        /\ timer_queue' = list_delete(t)
        /\ periodic_time' = [periodic_time EXCEPT ![t] = 0]
        /\ callback' = [callback EXCEPT ![t] = FALSE]
        /\ scheduled_time' = IF t = firing THEN scheduled_time ELSE [scheduled_time EXCEPT ![t] = 0]
        /\ left' = IF t = firing THEN left ELSE [left EXCEPT ![t] = 0]
        /\ clock' = clock /\ since' = since /\ now' = now
        /\ ticking' = ticking /\ firing' = firing /\ periodic' = periodic
    BY DEF timer_cancel
  <1>3. /\ timer_queue' \in Seq(Timers)
        /\ \A u : Holds(timer_queue', u) <=> InList(u) /\ u # t
        /\ InOrder(timer_queue', left)
    BY <1>1, <1>2, Deletes
  <1>4. \A u : InList(u)' <=> InList(u) /\ u # t
    BY <1>3 DEF Holds, InList
  <1>5. /\ \A u \in Timers : u # t =>
             /\ left'[u] = left[u] /\ scheduled_time'[u] = scheduled_time[u]
             /\ callback'[u] = callback[u] /\ periodic_time'[u] = periodic_time[u]
        /\ periodic_time'[t] = 0
    BY <1>1, <1>2 DEF TimerTypeOK
  <1>6. TimerTypeOK'
    <2>1. 0 \in 0 .. Modulus - 1
      BY Ranges
    <2> QED BY <1>1, <1>2, <1>3, <2>1 DEF TimerTypeOK
  <1>7. \A i \in DOMAIN timer_queue' :
          timer_queue'[i] \in Timers /\ timer_queue'[i] # t /\ InList(timer_queue'[i])
    <2> SUFFICES ASSUME NEW i \in DOMAIN timer_queue'
                 PROVE  /\ timer_queue'[i] \in Timers
                        /\ timer_queue'[i] # t /\ InList(timer_queue'[i])
      BY Zenon
    <2>1. timer_queue'[i] \in Timers
      BY <1>3
    <2>2. Holds(timer_queue', timer_queue'[i])
      BY Zenon DEF Holds
    <2> QED BY <1>3, <2>1, <2>2, Zenon
  <1>8. QueueInOrder'
    BY <1>3, <1>5, <1>7 DEF QueueInOrder, InOrder
  <1>9. NothingOverdue'
    <2> SUFFICES ASSUME ~ticking, NEW i \in DOMAIN timer_queue'
                 PROVE  timer_queue'[i] \in late' \/ left'[timer_queue'[i]] + since > 0
      BY <1>2 DEF NothingOverdue
    <2>1. PICK u \in Timers : u = timer_queue'[i] /\ u # t /\ InList(u)
      BY <1>7
    <2>2. u \in late \/ left[u] + since > 0
      BY <2>1 DEF TimerIndInv, NothingOverdue, InList
    <2> QED BY <1>2, <1>5, <2>1, <2>2
  <1>10. firing # NoTimer => Fired(firing)'
    <2>1. CASE firing = t
      BY <1>2, <1>5, <2>1 DEF Fired
    <2>2. CASE firing # t /\ firing # NoTimer
      <3>1. firing \in Timers /\ Fired(firing)
        BY <1>1, <2>2 DEF TimerIndInv, TickState, TimerTypeOK
      <3> QED BY <1>2, <1>4, <1>5, <2>2, <3>1 DEF Fired, At
    <2> QED BY <2>1, <2>2
  <1>11. TickState'
    <2>1. \A u \in Timers : periodic_time'[u] > 0 => Near(periodic_time'[u])
      BY <1>5 DEF TimerIndInv, TickState
    <2>2. /\ ticking => now = At(clock, -since)
          /\ firing # NoTimer => ticking
      BY DEF TimerIndInv, TickState
    <2> QED BY <1>2, <1>10, <2>1, <2>2 DEF TickState, Near, Slack, At
  <1>12. ASSUME NEW u \in Timers, InList(u)' PROVE Listed(u)'
    <2>1. u # t /\ Listed(u)
      BY <1>4, <1>12 DEF TimerIndInv
    <2> QED BY <1>2, <1>5, <2>1 DEF Listed, Near, At, Slack
  <1>13. ASSUME NEW u \in setting' PROVE BeingSet(u)'
    <2>1. u \in Timers /\ u # t /\ BeingSet(u)
      BY <1>1, <1>2 DEF TimerIndInv, TimerTypeOK
    <2> QED BY <1>2, <1>5, <2>1 DEF BeingSet, Near, At, Slack
  <1> QED BY <1>6, <1>8, <1>9, <1>11, <1>12, <1>13 DEF TimerIndInv

LEMMA TickBeginsKeeps ==
  ASSUME TimerIndInv, timer_tick
  PROVE  TimerIndInv'
  <1>1. TimerTypeOK /\ QueueInOrder /\ clock \in 0 .. Modulus - 1 /\ since \in 0 .. TickInterval
        /\ left \in [Timers -> Int]
    BY DEF TimerIndInv, TimerTypeOK
  <1>2. /\ ~ticking /\ ticking' /\ now' = clock /\ since' = 0 /\ late' = {}
        /\ UNCHANGED <<clock, timer_queue, scheduled_time, periodic_time, callback, setting,
                       firing, periodic, left>>
    BY DEF timer_tick
  <1>3. TimerTypeOK'
    <2>1. since' \in 0 .. TickInterval /\ ticking' \in BOOLEAN /\ late' \in SUBSET Timers
      BY <1>2, Ranges DEF timer_tick
    <2> QED BY <1>1, <1>2, <2>1 DEF TimerTypeOK
  <1>4. QueueInOrder' /\ NothingOverdue' /\ \A u : InList(u)' <=> InList(u)
    BY <1>1, <1>2 DEF QueueInOrder, NothingOverdue, InList
  <1>5. TickState'
    <2>1. firing = NoTimer
      BY <1>2 DEF TimerIndInv, TickState
    <2>2. At(clock, -0) = clock
      BY <1>1, Ranges, Reads
    <2>3. \A t \in Timers : periodic_time[t] > 0 => Near(periodic_time[t])
      BY DEF TimerIndInv, TickState
    <2> QED BY <1>2, <2>1, <2>2, <2>3 DEF TickState, Near, Slack, At
  <1>6. ASSUME NEW u \in Timers, InList(u)' PROVE Listed(u)'
    <2>1. Listed(u) /\ left[u] \in Int
      BY <1>1, <1>4, <1>6 DEF TimerIndInv
    <2> QED BY <1>1, <1>2, <2>1, Ranges DEF Listed, Near, At, Slack
  <1>7. ASSUME NEW u \in setting' PROVE BeingSet(u)'
    BY <1>2 DEF TimerIndInv, BeingSet, Near, At, Slack
  <1> QED BY <1>3, <1>4, <1>5, <1>6, <1>7 DEF TimerIndInv

(* In the tick, a timer of the list is due for it, or TIME_LT says that it *)
(* is not.                                                                 *)
LEMMA DueCompared ==
  ASSUME TimerIndInv, ticking, NEW u \in Timers, InList(u)
  PROVE  TIME_LT(now, scheduled_time[u]) <=> left[u] + since > 0
  <1>1. /\ Listed(u) /\ left[u] \in Int /\ since \in 0 .. TickInterval
        /\ clock \in 0 .. Modulus - 1 /\ now = At(clock, -since)
    BY DEF TimerIndInv, TimerTypeOK, TickState
  <1>2. PICK b \in Int : b = left[u]
    BY <1>1
  <1>3. PICK a \in Int : a = -since
    BY <1>1
  <1>4. /\ -Modulus <= a /\ a <= Modulus /\ -Modulus <= b /\ b <= Modulus
        /\ 2 * (a - b) < Modulus /\ 2 * (b - a) < Modulus
    BY <1>1, <1>2, <1>3, Ranges DEF Listed, Near, Slack
  <1>5. TIME_LT(At(clock, a), At(clock, b)) <=> a < b
    BY <1>1, <1>4, Compares
  <1>6. scheduled_time[u] = At(clock, b) /\ now = At(clock, a)
    BY <1>1, <1>2, <1>3 DEF Listed
  <1> QED BY <1>1, <1>2, <1>3, <1>5, <1>6

(* What tick_fires takes off the list. *)
LEMMA HeadIsDue ==
  ASSUME TimerIndInv, tick_fires
  PROVE  /\ firing' \in Timers /\ InList(firing')
         /\ left[firing'] + since <= 0 /\ callback[firing']
  <1>1. timer_queue \in Seq(Timers) /\ timer_queue # <<>> /\ ticking
        /\ firing' = Head(timer_queue) /\ ~TIME_LT(now, scheduled_time[Head(timer_queue)])
    BY DEF TimerIndInv, TimerTypeOK, tick_fires, NoneDue
  <1>2. 1 \in DOMAIN timer_queue /\ timer_queue[1] = Head(timer_queue) /\ Head(timer_queue) \in Timers
    BY <1>1
  <1>3. InList(firing')
    BY <1>1, <1>2, Zenon DEF InList
  <1>4. ~(left[firing'] + since > 0)
    BY <1>1, <1>2, <1>3, DueCompared
  <1>5. left[firing'] \in Int /\ since \in Int /\ callback[firing']
    BY <1>1, <1>2, <1>3 DEF TimerIndInv, TimerTypeOK, Listed
  <1> QED BY <1>1, <1>2, <1>3, <1>4, <1>5

LEMMA TickFiresKeeps ==
  ASSUME TimerIndInv, tick_fires
  PROVE  TimerIndInv'
  <1>1. TimerTypeOK /\ QueueInOrder /\ since \in 0 .. TickInterval /\ left \in [Timers -> Int]
    BY DEF TimerIndInv, TimerTypeOK
  <1>2. /\ ticking /\ timer_queue # <<>> /\ firing' = Head(timer_queue)
        /\ periodic' = (periodic_time[Head(timer_queue)] > 0)
        /\ timer_queue' = Tail(timer_queue)
        /\ UNCHANGED <<clock, since, scheduled_time, periodic_time, callback, setting, now,
                       ticking, left, late>>
    BY DEF tick_fires, NoneDue
  <1>3. PICK h \in Timers : h = firing' /\ InList(h) /\ left[h] + since <= 0 /\ callback[h]
    BY HeadIsDue
  <1>4. /\ timer_queue' \in Seq(Timers)
        /\ DOMAIN timer_queue = 1 .. Len(timer_queue) /\ Len(timer_queue) \in Nat \ {0}
        /\ DOMAIN timer_queue' = 1 .. Len(timer_queue) - 1
        /\ \A i \in DOMAIN timer_queue' : i + 1 \in DOMAIN timer_queue
                                          /\ timer_queue'[i] = timer_queue[i + 1]
        /\ h = timer_queue[1]
    BY <1>1, <1>2, <1>3 DEF TimerTypeOK
  <1>5. TimerTypeOK'
    <2>1. periodic' \in BOOLEAN /\ firing' \in Timers
      BY <1>2, <1>3
    <2> QED BY <1>1, <1>2, <1>4, <2>1 DEF TimerTypeOK
  <1>6. QueueInOrder'
    <2> SUFFICES ASSUME NEW i \in DOMAIN timer_queue', NEW j \in DOMAIN timer_queue', i < j
                 PROVE  /\ left[timer_queue'[i]] <= left[timer_queue'[j]]
                        /\ timer_queue'[i] # timer_queue'[j]
      BY <1>2 DEF QueueInOrder
    <2>1. i + 1 \in DOMAIN timer_queue /\ j + 1 \in DOMAIN timer_queue /\ i + 1 < j + 1
      BY <1>4
    <2> QED BY <1>1, <1>4, <2>1 DEF QueueInOrder
  <1>7. \A u : InList(u)' => InList(u)
    BY <1>4 DEF InList
  <1>8. NothingOverdue'
    BY <1>2 DEF NothingOverdue
  <1>9. Listed(h)
    BY <1>3 DEF TimerIndInv
  <1>10. Fired(h)'
    BY <1>1, <1>2, <1>3, <1>9, Ranges DEF Listed, Fired, At
  <1>11. TickState'
    <2>1. /\ now = At(clock, -since)
          /\ \A t \in Timers : periodic_time[t] > 0 => Near(periodic_time[t])
      BY <1>2 DEF TimerIndInv, TickState
    <2>2. Fired(firing)'
      BY <1>3, <1>10
    <2> QED BY <1>2, <2>1, <2>2 DEF TickState, Near, Slack, At
  <1>12. ASSUME NEW u \in Timers, InList(u)' PROVE Listed(u)'
    <2>1. Listed(u)
      BY <1>7, <1>12 DEF TimerIndInv
    <2> QED BY <1>2, <2>1 DEF Listed, Near, At, Slack
  <1>13. ASSUME NEW u \in setting' PROVE BeingSet(u)'
    BY <1>2 DEF TimerIndInv, BeingSet, Near, At, Slack
  <1> QED BY <1>5, <1>6, <1>8, <1>11, <1>12, <1>13 DEF TimerIndInv

LEMMA TickEndsKeeps ==
  ASSUME TimerIndInv, tick_ends
  PROVE  TimerIndInv'
  <1>1. TimerTypeOK /\ QueueInOrder /\ since \in 0 .. TickInterval /\ left \in [Timers -> Int]
        /\ timer_queue \in Seq(Timers)
    BY DEF TimerIndInv, TimerTypeOK
  <1>2. /\ ticking /\ ~ticking' /\ firing = NoTimer /\ NoneDue /\ now' = 0
        /\ UNCHANGED <<clock, since, timer_queue, scheduled_time, periodic_time, callback,
                       setting, firing, periodic, left, late>>
    BY DEF tick_ends
  <1>3. TimerTypeOK'
    <2>1. now' \in 0 .. Modulus - 1
      BY <1>2, Ranges
    <2>2. ticking' \in BOOLEAN
      BY Zenon DEF tick_ends
    <2> QED BY <1>1, <1>2, <2>1, <2>2 DEF TimerTypeOK
  <1>4. QueueInOrder' /\ \A u : InList(u)' <=> InList(u)
    BY <1>1, <1>2 DEF QueueInOrder, InList
  <1>5. ASSUME NEW i \in DOMAIN timer_queue PROVE left[timer_queue[i]] + since > 0
    <2>1. /\ timer_queue # <<>> /\ 1 \in DOMAIN timer_queue /\ Head(timer_queue) = timer_queue[1]
          /\ DOMAIN timer_queue = 1 .. Len(timer_queue) /\ timer_queue[1] \in Timers
          /\ timer_queue[i] \in Timers
      BY <1>1
    <2>2. TIME_LT(now, scheduled_time[timer_queue[1]])
      BY <1>2, <2>1 DEF NoneDue
    <2>3. InList(timer_queue[1])
      BY <2>1, Zenon DEF InList
    <2>4. left[timer_queue[1]] + since > 0
      BY <1>2, <2>1, <2>2, <2>3, DueCompared
    <2>5. i = 1 \/ left[timer_queue[1]] <= left[timer_queue[i]]
      BY <1>1, <2>1 DEF QueueInOrder
    <2>6. left[timer_queue[1]] \in Int /\ left[timer_queue[i]] \in Int /\ since \in Int
      BY <1>1, <2>1
    <2> QED BY <2>4, <2>5, <2>6
  <1>6. NothingOverdue'
    BY <1>2, <1>5 DEF NothingOverdue
  <1>7. TickState'
    BY <1>2 DEF TimerIndInv, TickState, Near, Slack
  <1>8. ASSUME NEW u \in Timers, InList(u)' PROVE Listed(u)'
    <2>1. Listed(u) /\ left[u] \in Int
      BY <1>1, <1>4, <1>8 DEF TimerIndInv
    <2>2. left[u] + since > 0
      <3>1. PICK i \in DOMAIN timer_queue : timer_queue[i] = u
        BY <1>4, <1>8 DEF InList
      <3> QED BY <1>5, <3>1
    <2> QED BY <1>1, <1>2, <2>1, <2>2, Ranges DEF Listed, Near, At, Slack
  <1>9. ASSUME NEW u \in setting' PROVE BeingSet(u)'
    BY <1>2 DEF TimerIndInv, BeingSet, Near, At, Slack
  <1> QED BY <1>3, <1>4, <1>6, <1>7, <1>8, <1>9 DEF TimerIndInv

(* The new time of a periodic timer: its due time moved on by the period,  *)
(* or one period after the tick if that has passed.                        *)
LEMMA NextPeriod ==
  ASSUME TimerIndInv, NEW t \in Timers, t = firing, ~InList(t), NEW p \in Nat \ {0},
         p = periodic_time[t],
         NEW next, next = (scheduled_time[t] + p) % Modulus,
         NEW s, s = IF TIME_LT(next, now) THEN (now + p) % Modulus ELSE next,
         NEW l, l = IF TIME_LT(next, now) THEN p - since ELSE left[t] + p
  PROVE  /\ s = At(clock, l) /\ Comparable(l)
         /\ l + since >= 0
  <1>1. /\ TimerTypeOK /\ Fired(t) /\ now = At(clock, -since) /\ Near(p)
        /\ since \in 0 .. TickInterval /\ clock \in 0 .. Modulus - 1
    <2>1. t # NoTimer
      BY TimerAssumption
    <2>2. TickState /\ ticking /\ Fired(t)
      BY <2>1 DEF TimerIndInv, TickState
    <2>3. now = At(clock, -since) /\ Near(p)
      BY <2>2 DEF TickState
    <2>4. TimerTypeOK /\ since \in 0 .. TickInterval /\ clock \in 0 .. Modulus - 1
      BY DEF TimerIndInv, TimerTypeOK
    <2> QED BY <2>2, <2>3, <2>4
  <1>2. PICK a \in Int : a = left[t] /\ a + since <= 0 /\ a + since >= -MaxLag - TickInterval
                         /\ scheduled_time[t] = At(clock, a)
    BY <1>1 DEF Fired, TimerTypeOK
  <1>3. PICK n \in Int : n = -since
    BY <1>1
  <1>4. PICK ap \in Int : ap = a + p
    OBVIOUS
  <1>5. PICK np \in Int : np = n + p
    OBVIOUS
  <1>6. /\ -Modulus <= a /\ a <= Modulus /\ -Modulus <= n /\ n <= Modulus
        /\ -Modulus <= p /\ p <= Modulus /\ -Modulus <= ap /\ ap <= Modulus
        /\ -Modulus <= np /\ np <= Modulus
        /\ 2 * (ap - n) < Modulus /\ 2 * (n - ap) < Modulus
    BY <1>1, <1>2, <1>3, <1>4, <1>5, Ranges DEF Near, Slack
  <1>7. next = At(clock, ap)
    <2>1. next = At(At(clock, a), p)
      BY <1>2 DEF At
    <2>2. At(At(clock, a), p) = At(clock, a + p)
      <3>1. -Modulus <= a + p /\ a + p <= Modulus /\ p \in Int
        BY <1>4, <1>6
      <3> QED BY <1>1, <1>6, <3>1, ReadsLater
    <2> QED BY <1>4, <2>1, <2>2
  <1>8. (now + p) % Modulus = At(clock, np)
    <2>1. (now + p) % Modulus = At(At(clock, n), p)
      BY <1>1, <1>3 DEF At
    <2>2. At(At(clock, n), p) = At(clock, n + p)
      <3>1. -Modulus <= n + p /\ n + p <= Modulus /\ p \in Int
        BY <1>5, <1>6
      <3> QED BY <1>1, <1>6, <3>1, ReadsLater
    <2> QED BY <1>5, <2>1, <2>2
  <1>9. TIME_LT(next, now) <=> ap < n
    <2>1. TIME_LT(At(clock, ap), At(clock, n)) <=> ap < n
      BY <1>1, <1>6, Compares
    <2>2. now = At(clock, n)
      BY <1>1, <1>3
    <2> QED BY <1>7, <2>1, <2>2
  <1>10. CASE ap < n
    <2>1. s = At(clock, np) /\ l = np
      <3>1. l = p - since
        BY <1>9, <1>10
      <3>2. l = np
        BY <1>1, <1>3, <1>5, <3>1
      <3> QED BY <1>8, <1>9, <1>10, <3>2
    <2>2. Comparable(np) /\ np + since >= 0
      BY <1>1, <1>2, <1>3, <1>5, Ranges DEF Comparable, Near, Slack
    <2> QED BY <2>1, <2>2
  <1>11. CASE ~(ap < n)
    <2>1. s = At(clock, ap) /\ l = ap
      BY <1>2, <1>4, <1>7, <1>9, <1>11
    <2>2. Comparable(ap) /\ ap + since >= 0
      BY <1>1, <1>2, <1>3, <1>4, <1>11, Ranges DEF Comparable, Near, Slack
    <2> QED BY <2>1, <2>2
  <1> QED BY <1>10, <1>11

LEMMA CallbackReturnsKeeps ==
  ASSUME TimerIndInv, callback_returns
  PROVE  TimerIndInv'
  <1>1. TimerTypeOK /\ QueueInOrder /\ left \in [Timers -> Int] /\ since \in 0 .. TickInterval
    BY DEF TimerIndInv, TimerTypeOK
  <1>2. PICK t \in Timers : t = firing /\ t # NoTimer
    BY <1>1, TimerAssumption DEF TimerTypeOK, callback_returns
  <1>3. /\ firing' = NoTimer /\ periodic' = FALSE
        /\ UNCHANGED <<clock, since, periodic_time, callback, setting, now, ticking, late>>
    BY DEF callback_returns
  <1>4. ticking /\ Fired(t) /\ t \notin setting
    BY <1>2 DEF TimerIndInv, TickState, Fired
  <1>5. NothingOverdue'
    BY <1>3, <1>4 DEF NothingOverdue
  <1>6. TickState'
    BY <1>3, <1>4 DEF TimerIndInv, TickState, Near, Slack, At
  <1>7. CASE periodic /\ ~InList(t) /\ periodic_time[t] > 0
    <2>1. PICK p \in Nat \ {0} : p = periodic_time[t]
      BY <1>1, <1>7 DEF TimerTypeOK
    <2>2. PICK next : next = (scheduled_time[t] + p) % Modulus
      OBVIOUS
    <2>3. PICK s : s = IF TIME_LT(next, now) THEN (now + p) % Modulus ELSE next
      OBVIOUS
    <2>4. PICK l : l = IF TIME_LT(next, now) THEN p - since ELSE left[t] + p
      OBVIOUS
    <2>5. /\ scheduled_time' = [scheduled_time EXCEPT ![t] = s]
          /\ timer_queue' = insert_timer_in_queue(t, s)
          /\ left' = [left EXCEPT ![t] = l]
      BY <1>1, <1>2, <1>7, <2>1, <2>2, <2>3, <2>4 DEF callback_returns
    <2>6. s = At(clock, l) /\ Comparable(l) /\ l + since >= 0 /\ l \in Int
      BY <1>2, <1>7, <2>1, <2>2, <2>3, <2>4, NextPeriod DEF Comparable, Near
    <2>7. \A u \in Timers : InList(u) => Comparable(left[u]) /\ scheduled_time[u] = At(clock, left[u])
      BY ListComparable
    <2>8. /\ timer_queue' \in Seq(Timers)
          /\ \A u : Holds(timer_queue', u) <=> InList(u) \/ u = t
          /\ InOrder(timer_queue', left')
      <3>1. timer_queue' = insert_timer_in_queue(t, At(clock, l))
        BY <2>5, <2>6
      <3>2. /\ timer_queue' \in Seq(Timers)
            /\ \A u : Holds(timer_queue', u) <=> InList(u) \/ u = t
            /\ InOrder(timer_queue', [left EXCEPT ![t] = l])
        BY <1>1, <1>7, <2>6, <2>7, <3>1, Inserts
      <3> QED BY <2>5, <3>2
    <2>9. /\ \A u : InList(u)' <=> InList(u) \/ u = t
          /\ QueueInOrder'
      BY <2>8 DEF Holds, InList, QueueInOrder, InOrder
    <2>10. TimerTypeOK'
      <3>1. s \in 0 .. Modulus - 1
        <4>1. clock \in 0 .. Modulus - 1 /\ -Modulus <= l /\ l <= Modulus
          BY <1>1, <2>6, Ranges DEF TimerTypeOK, Comparable, Near
        <4> QED BY <2>6, <4>1, Reads
      <3> QED BY <1>1, <1>3, <2>5, <2>6, <2>8, <3>1 DEF TimerTypeOK
    <2>11. /\ \A u \in Timers : u # t => left'[u] = left[u] /\ scheduled_time'[u] = scheduled_time[u]
           /\ left'[t] = l /\ scheduled_time'[t] = s
      BY <1>1, <2>5 DEF TimerTypeOK
    <2>12. ASSUME NEW u \in Timers, InList(u)' PROVE Listed(u)'
      <3>1. CASE u = t
        <4>1. callback[t]
          BY <1>4, <1>7 DEF Fired
        <4> QED BY <1>1, <1>3, <1>4, <2>6, <2>11, <3>1, <4>1, Ranges DEF Comparable, Listed, Near, At, Slack
      <3>2. CASE u # t
        <4>1. Listed(u)
          BY <2>9, <2>12, <3>2 DEF TimerIndInv
        <4> QED BY <1>3, <2>11, <3>2, <4>1 DEF Listed, Near, At, Slack
      <3> QED BY <3>1, <3>2
    <2>13. ASSUME NEW u \in setting' PROVE BeingSet(u)'
      <3>1. BeingSet(u) /\ u # t /\ u \in Timers
        BY <1>1, <1>3, <1>4 DEF TimerIndInv, TimerTypeOK
      <3> QED BY <1>3, <2>11, <3>1 DEF BeingSet, Near, At, Slack
    <2> QED BY <1>5, <1>6, <2>9, <2>10, <2>12, <2>13 DEF TimerIndInv
  <1>8. CASE ~(periodic /\ ~InList(t) /\ periodic_time[t] > 0)
    <2>1. /\ timer_queue' = timer_queue
          /\ \/ InList(t) /\ scheduled_time' = scheduled_time /\ left' = left
             \/ /\ ~InList(t)
                /\ scheduled_time' = [scheduled_time EXCEPT ![t] = 0]
                /\ left' = [left EXCEPT ![t] = 0]
      BY <1>2, <1>8 DEF callback_returns
    <2>2. /\ \A u : InList(u)' <=> InList(u)
          /\ \A u \in Timers : u # t \/ InList(u) =>
               left'[u] = left[u] /\ scheduled_time'[u] = scheduled_time[u]
      BY <1>1, <2>1 DEF InList, TimerTypeOK
    <2>3. TimerTypeOK'
      <3>1. 0 \in 0 .. Modulus - 1
        BY Ranges
      <3>2. scheduled_time' \in [Timers -> 0 .. Modulus - 1] /\ left' \in [Timers -> Int]
        <4>1. scheduled_time \in [Timers -> 0 .. Modulus - 1]
          BY <1>1 DEF TimerTypeOK
        <4>2. CASE InList(t)
          BY <1>1, <2>1, <4>1, <4>2
        <4>3. CASE ~InList(t)
          <5>1. scheduled_time' = [scheduled_time EXCEPT ![t] = 0] /\ left' = [left EXCEPT ![t] = 0]
            BY <2>1, <4>3
          <5>2. 0 \in Int
            OBVIOUS
          <5> QED BY <1>1, <3>1, <4>1, <5>1, <5>2
        <4> QED BY <4>2, <4>3
      <3>3. firing' \in Timers \cup {NoTimer} /\ periodic' \in BOOLEAN
        BY <1>3
      <3> QED BY <1>1, <1>3, <2>1, <3>2, <3>3 DEF TimerTypeOK
    <2>4. \A i \in DOMAIN timer_queue : timer_queue[i] \in Timers /\ InList(timer_queue[i])
      <3> SUFFICES ASSUME NEW i \in DOMAIN timer_queue
                   PROVE  timer_queue[i] \in Timers /\ InList(timer_queue[i])
        BY Zenon
      <3>1. timer_queue[i] \in Timers
        BY <1>1 DEF TimerTypeOK
      <3> QED BY <3>1, Zenon DEF InList
    <2>5. QueueInOrder'
      BY <1>1, <2>1, <2>2, <2>4 DEF QueueInOrder
    <2>6. ASSUME NEW u \in Timers, InList(u)' PROVE Listed(u)'
      <3>1. Listed(u) /\ left'[u] = left[u] /\ scheduled_time'[u] = scheduled_time[u]
        BY <2>2, <2>6 DEF TimerIndInv
      <3> QED BY <1>3, <3>1 DEF Listed, Near, At, Slack
    <2>7. ASSUME NEW u \in setting' PROVE BeingSet(u)'
      <3>1. BeingSet(u) /\ u # t /\ u \in Timers
        BY <1>1, <1>3, <1>4 DEF TimerIndInv, TimerTypeOK
      <3> QED BY <1>3, <2>2, <3>1 DEF BeingSet, Near, At, Slack
    <2> QED BY <1>5, <1>6, <2>3, <2>5, <2>6, <2>7 DEF TimerIndInv
  <1> QED BY <1>7, <1>8

(* A reading of the clock is one unit less ahead when the clock moves on. *)
LEMMA ClockMoves ==
  ASSUME NEW c \in 0 .. Modulus - 1, NEW l \in Int, -Modulus < l, l <= Modulus
  PROVE  At((c + 1) % Modulus, l - 1) = At(c, l)
  <1>1. PICK m \in Int : m = l - 1
    OBVIOUS
  <1>2. /\ -Modulus <= 1 /\ 1 <= Modulus /\ -Modulus <= m /\ m <= Modulus
        /\ -Modulus <= 1 + m /\ 1 + m <= Modulus /\ 1 + m = l
    BY <1>1, Ranges
  <1>3. At(At(c, 1), m) = At(c, 1 + m)
    BY <1>2, ReadsLater
  <1>4. At(c, 1) = (c + 1) % Modulus
    BY DEF At
  <1> QED BY <1>1, <1>2, <1>3, <1>4

LEMMA TimePassesKeeps ==
  ASSUME TimerIndInv, time_passes
  PROVE  TimerIndInv'
  <1>1. /\ TimerTypeOK /\ QueueInOrder /\ left \in [Timers -> Int] /\ since \in 0 .. TickInterval
        /\ clock \in 0 .. Modulus - 1 /\ timer_queue \in Seq(Timers)
    BY DEF TimerIndInv, TimerTypeOK
  <1>2. /\ since < TickInterval /\ \A t \in setting : left[t] > -MaxLag
        /\ clock' = (clock + 1) % Modulus /\ since' = since + 1
        /\ left' = [t \in Timers |-> IF Active(t) /\ left[t] > -Modulus THEN left[t] - 1 ELSE left[t]]
        /\ UNCHANGED <<timer_queue, scheduled_time, periodic_time, callback, setting, now,
                       ticking, firing, periodic, late>>
    BY DEF time_passes
  <1>3. TimerTypeOK'
    <2>1. clock' \in 0 .. Modulus - 1 /\ since' \in 0 .. TickInterval
      BY <1>1, <1>2, Ranges
    <2>2. left' \in [Timers -> Int]
      BY <1>1, <1>2, Ranges
    <2> QED BY <1>1, <1>2, <2>1, <2>2 DEF TimerTypeOK
  <1>4. \A u : InList(u)' <=> InList(u)
    BY <1>2 DEF InList
  <1>5. ASSUME NEW u \in Timers, Active(u), left[u] > -Modulus, left[u] <= Modulus,
               scheduled_time[u] = At(clock, left[u])
        PROVE  left'[u] = left[u] - 1 /\ scheduled_time'[u] = At(clock', left'[u])
    <2>1. left'[u] = left[u] - 1 /\ left[u] \in Int
      BY <1>1, <1>2, <1>5
    <2>2. At((clock + 1) % Modulus, left[u] - 1) = At(clock, left[u])
      BY <1>1, <1>5, <2>1, ClockMoves
    <2> QED BY <1>2, <1>5, <2>1, <2>2
  <1>6. ASSUME NEW u \in Timers, InList(u)
        PROVE  left'[u] = left[u] - 1 /\ Listed(u)'
    <2>1. Listed(u) /\ Comparable(left[u]) /\ left[u] \in Int /\ Active(u)
      BY <1>1, <1>6, ListComparable DEF TimerIndInv, Active
    <2>2. left[u] > -Modulus /\ left[u] <= Modulus
      BY <2>1, Ranges DEF Comparable, Near
    <2>3. left'[u] = left[u] - 1 /\ scheduled_time'[u] = At(clock', left'[u])
      BY <1>5, <2>1, <2>2 DEF Listed
    <2>4. Near(left'[u])
      <3>1. Near(left[u])
        BY <2>1 DEF Listed
      <3> QED BY <2>1, <2>3, <3>1, Ranges DEF Near
    <2>5. left'[u] + since' = left[u] + since
      BY <1>1, <1>2, <2>1, <2>3
    <2>6. Listed(u)'
      BY <1>2, <2>1, <2>3, <2>4, <2>5 DEF Listed, Near, At, Slack
    <2> QED BY <2>3, <2>6
  <1>7. \A i \in DOMAIN timer_queue :
          /\ timer_queue[i] \in Timers /\ left[timer_queue[i]] \in Int
          /\ left'[timer_queue[i]] = left[timer_queue[i]] - 1
    <2> SUFFICES ASSUME NEW i \in DOMAIN timer_queue
                 PROVE  /\ timer_queue[i] \in Timers /\ left[timer_queue[i]] \in Int
                        /\ left'[timer_queue[i]] = left[timer_queue[i]] - 1
      BY Zenon
    <2>1. timer_queue[i] \in Timers /\ left[timer_queue[i]] \in Int
      BY <1>1
    <2>2. InList(timer_queue[i])
      BY Zenon DEF InList
    <2> QED BY <1>6, <2>1, <2>2
  <1>8. QueueInOrder'
    <2> SUFFICES ASSUME NEW i \in DOMAIN timer_queue, NEW j \in DOMAIN timer_queue, i < j
                 PROVE  /\ left'[timer_queue[i]] <= left'[timer_queue[j]]
                        /\ timer_queue[i] # timer_queue[j]
      BY <1>2 DEF QueueInOrder
    <2>1. left[timer_queue[i]] <= left[timer_queue[j]] /\ timer_queue[i] # timer_queue[j]
      BY <1>1, Zenon DEF QueueInOrder
    <2>2. /\ left[timer_queue[i]] \in Int /\ left[timer_queue[j]] \in Int
          /\ left'[timer_queue[i]] = left[timer_queue[i]] - 1
          /\ left'[timer_queue[j]] = left[timer_queue[j]] - 1
      BY <1>7, Zenon
    <2> QED BY <2>1, <2>2
  <1>9. NothingOverdue'
    BY <1>1, <1>2, <1>7 DEF TimerIndInv, NothingOverdue
  <1>10. firing # NoTimer => Fired(firing)'
    <2> SUFFICES ASSUME NEW t \in Timers, t = firing, firing # NoTimer PROVE Fired(t)'
      BY <1>1, <1>2 DEF TimerTypeOK
    <2>1. Fired(t) /\ left[t] \in Int
      BY <1>1 DEF TimerIndInv, TickState
    <2>2. CASE InList(t) \/ ~(periodic_time[t] > 0)
      BY <1>2, <1>4, <2>1, <2>2 DEF Fired
    <2>3. CASE ~InList(t) /\ periodic_time[t] > 0
      <3>1. Near(periodic_time[t]) /\ Active(t)
        <4>1. TickState
          BY DEF TimerIndInv
        <4>2. Active(t)
          BY Zenon DEF Active
        <4> QED BY <2>3, <4>1, <4>2 DEF TickState
      <3>2. left[t] > -Modulus /\ left[t] <= Modulus
        <4>1. left[t] + since >= -MaxLag - TickInterval /\ left[t] + since <= 0
          BY <2>1, <2>3 DEF Fired
        <4>2. /\ Modulus \in Nat /\ MaxLag \in Nat /\ TickInterval \in Nat
              /\ 2 * (MaxLag + 2 * TickInterval) < Modulus
          BY Ranges DEF Slack
        <4>3. PICK a \in Int, b \in Int : a = left[t] /\ b = since
          BY <1>1, <2>1
        <4>4. b >= 0 /\ b <= TickInterval
          BY <1>1, <4>2, <4>3
        <4>5. a + b >= -MaxLag - TickInterval /\ a + b <= 0
          BY <4>1, <4>3
        <4>6. a > -Modulus /\ a <= Modulus
          BY <4>2, <4>4, <4>5
        <4> QED BY <4>3, <4>6
      <3>3. left'[t] = left[t] - 1 /\ scheduled_time'[t] = At(clock', left'[t])
        BY <1>5, <2>1, <2>3, <3>1, <3>2 DEF Fired
      <3>4. left'[t] + since' = left[t] + since
        BY <1>1, <1>2, <2>1, <3>3
      <3> QED BY <1>2, <1>4, <2>1, <2>3, <3>3, <3>4 DEF Fired, At
    <2> QED BY <2>2, <2>3
  <1>11. ticking => now = At(clock', -since')
    <2> SUFFICES ASSUME ticking PROVE now = At(clock', -since')
      OBVIOUS
    <2>1. now = At(clock, -since)
      BY DEF TimerIndInv, TickState
    <2>2. PICK n \in Int : n = -since
      BY <1>1
    <2>3. At((clock + 1) % Modulus, n - 1) = At(clock, n)
      <3>1. -Modulus < n /\ n <= Modulus
        BY <1>1, <2>2, Ranges DEF Slack
      <3> QED BY <1>1, <3>1, ClockMoves
    <2>4. n - 1 = -since'
      BY <1>1, <1>2, <2>2
    <2> QED BY <1>2, <2>1, <2>2, <2>3, <2>4
  <1>12. TickState'
    <2>1. /\ firing # NoTimer => ticking
          /\ \A t \in Timers : periodic_time[t] > 0 => Near(periodic_time[t])
      BY DEF TimerIndInv, TickState
    <2> QED BY <1>2, <1>10, <1>11, <2>1 DEF TickState, Near, Slack, At
  <1>13. ASSUME NEW u \in setting' PROVE BeingSet(u)'
    <2>1. BeingSet(u) /\ u \in Timers /\ u \in setting /\ left[u] \in Int /\ left[u] > -MaxLag /\ Active(u)
      BY <1>1, <1>2 DEF TimerIndInv, TimerTypeOK, Active
    <2>2. left[u] > -Modulus /\ left[u] <= Modulus
      BY <2>1, Ranges DEF BeingSet, Near, Slack
    <2>3. left'[u] = left[u] - 1 /\ scheduled_time'[u] = At(clock', left'[u])
      BY <1>5, <2>1, <2>2 DEF BeingSet
    <2>4. Near(left[u] - 1) /\ left[u] - 1 >= -MaxLag
      BY <2>1, Ranges DEF BeingSet, Near
    <2> QED BY <1>2, <2>1, <2>3, <2>4 DEF BeingSet, Near, At, Slack
  <1> QED BY <1>3, <1>4, <1>6, <1>8, <1>9, <1>12, <1>13 DEF TimerIndInv
-----------------------------------------------------------------------------
LEMMA StepKeeps ==
  ASSUME TimerIndInv, [TimerNext]_timervars
  PROVE  TimerIndInv'
  <1>1. CASE TimeGoesOn
    BY <1>1, TickBeginsKeeps, TickFiresKeeps, CallbackReturnsKeeps, TickEndsKeeps,
       TimePassesKeeps DEF TimeGoesOn
  <1>2. ASSUME NEW t \in Timers, timer_set_inserts(t) \/ timer_cancel(t) PROVE TimerIndInv'
    BY <1>2, SetInsertsKeeps, CancelKeeps
  <1>3. ASSUME NEW t \in Timers, NEW d \in Delays, NEW repeat \in BOOLEAN, NEW p,
               p = IF repeat THEN Delay(d) ELSE 0,
               timer_set(t, Delay(d), p) \/ callback_sets(t, Delay(d), p)
        PROVE  TimerIndInv'
    <2>1. p \in {0, Delay(d)}
      BY <1>3
    <2> QED BY <1>3, <2>1, SetKeeps, CallbackSetsKeeps
  <1>4. CASE UNCHANGED timervars
    BY <1>4 DEF timervars, TimerIndInv, TimerTypeOK, QueueInOrder, NothingOverdue, TickState,
       InList, Listed, BeingSet, Fired, At, Near, Slack
  <1> QED BY <1>1, <1>2, <1>3, <1>4 DEF TimerNext

(* timer.c: whatever the clock's width and however the clock wraps, the    *)
(* list insert_timer_in_queue keeps is in the order in which the timers    *)
(* are really due, and when no tick is running it holds nothing that was   *)
(* due when the last tick began.                                           *)
THEOREM ListInTrueOrder == TimerSpec => []TimerInv
  <1>1. TimerInit => TimerIndInv
    BY InitKeeps
  <1>2. TimerIndInv /\ [TimerNext]_timervars => TimerIndInv'
    BY StepKeeps
  <1>3. TimerIndInv => TimerInv
    BY DEF TimerIndInv, TimerInv
  <1> QED BY <1>1, <1>2, <1>3, PTL DEF TimerSpec

(* timer_tick: no callback is run before its timer is due, nor after its   *)
(* timer was cancelled.                                                    *)
THEOREM NeverEarly == TimerSpec => FiresDueTimers
  <1>1. TimerInit => TimerIndInv
    BY InitKeeps
  <1>2. TimerIndInv /\ [TimerNext]_timervars => TimerIndInv'
    BY StepKeeps
  <1>3. TimerIndInv /\ [TimerNext]_timervars =>
          [firing' # firing /\ firing' # NoTimer =>
             left[firing'] + since <= 0 /\ callback[firing']]_timervars
    <2> SUFFICES ASSUME TimerIndInv, TimerNext, firing' # firing, firing' # NoTimer
                 PROVE  left[firing'] + since <= 0 /\ callback[firing']
      OBVIOUS
    <2>1. CASE tick_fires
      BY <2>1, HeadIsDue
    <2>2. CASE timer_tick \/ callback_returns \/ tick_ends \/ time_passes
      BY <2>2 DEF timer_tick, callback_returns, tick_ends, time_passes
    <2>3. ASSUME NEW t \in Timers, timer_set_inserts(t) \/ timer_cancel(t) PROVE FALSE
      BY <2>3 DEF timer_set_inserts, timer_cancel
    <2>4. ASSUME NEW t \in Timers, NEW d, NEW p, timer_set(t, d, p) \/ callback_sets(t, d, p)
          PROVE  FALSE
      BY <2>4 DEF timer_set, callback_sets
    <2> QED BY <2>1, <2>2, <2>3, <2>4 DEF TimerNext, TimeGoesOn
  <1> QED BY <1>1, <1>2, <1>3, PTL DEF TimerSpec, FiresDueTimers
=============================================================================
