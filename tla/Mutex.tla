-------------------------------- MODULE Mutex --------------------------------
(***************************************************************************)
(* kernel/mutex.c: a counting mutex with hand-off.  count is the holder    *)
(* plus every thread that has entered mutex_acquire_timeout and not backed *)
(* out; mutex_release passes the mutex to the head of the wait queue.      *)
(***************************************************************************)
EXTENDS WaitQueue

CONSTANTS
  TimeoutsUsed,   (* the classes of timeout the callers pass              *)
  NoThread        (* the NULL holder                                      *)

ASSUME MutexAssumption ==
  /\ IsFiniteSet(Threads)
  /\ NoThread \notin Threads
  /\ TimeoutsUsed \subseteq Timeout

VARIABLES
  magic,    (* m->magic = MUTEX_MAGIC                                     *)
  holder,   (* m->holder                                                  *)
  count,    (* m->count                                                   *)
  expired,  (* history: the timer of some wait has taken its thread out   *)
            (* of the queue                                               *)
  pc        (* where each thread is in its use of the mutex:              *)
            (*   "out"      not using it                                  *)
            (*   "block"    inside wait_queue_block, from acquire         *)
            (*   "hold"     acquire returned NO_ERROR, not released       *)
            (*   "destroy"  past mutex_destroy's owner check, before the  *)
            (*              lock is taken                                 *)

vars == <<wqvars, magic, holder, count, pc, expired>>

Init ==
  /\ WaitQueueInit
  /\ magic = TRUE
  /\ holder = NoThread
  /\ count = 0
  /\ expired = FALSE
  /\ pc = [t \in Threads |-> "out"]

Goto(t, l) == pc' = [pc EXCEPT ![t] = l]

(* Mutant: count++ > 1 where ++count > 1 is meant. *)
mutex_acquire_timeout_PostIncrement(t, timeout) ==
  /\ magic
  /\ pc[t] = "out"
  /\ UNCHANGED <<magic, expired>>
  /\ count' = count + 1
  /\ \/ count <= 1 /\ holder' = t /\ Goto(t, "hold") /\ UNCHANGED wqvars
     \/ count > 1 /\ wait_queue_block(t, timeout) /\ Goto(t, "block") /\ UNCHANGED holder

(* mutex_acquire_timeout up to the point where it returns or blocks. *)
mutex_acquire_timeout(t, timeout) ==
  /\ magic
  /\ pc[t] = "out"
  /\ UNCHANGED <<magic, expired>>
  /\ \/ /\ count + 1 <= 1
        /\ count' = count + 1
        /\ holder' = t
        /\ Goto(t, "hold")
        /\ UNCHANGED wqvars
     \/ /\ count + 1 > 1
        /\ timeout # ZERO
        /\ count' = count + 1
        /\ wait_queue_block(t, timeout)
        /\ Goto(t, "block")
        /\ UNCHANGED holder
     \/ /\ count + 1 > 1          \* ++count, ERR_TIMED_OUT, count--
        /\ timeout = ZERO
        /\ UNCHANGED <<count, holder, pc, wqvars>>

(* ... and from the return of wait_queue_block. *)
mutex_acquire_returns(t) ==
  /\ pc[t] = "block"
  /\ wait_queue_block_returns(t)
  /\ UNCHANGED <<magic, expired>>
  /\ \/ /\ block_ret[t] = NO_ERROR
        /\ holder' = t
        /\ Goto(t, "hold")
        /\ UNCHANGED count
     \/ /\ block_ret[t] = ERR_TIMED_OUT
        /\ count' = count - 1
        /\ Goto(t, "out")
        /\ UNCHANGED holder
     \/ /\ block_ret[t] = ERR_OBJECT_DESTROYED
        /\ Goto(t, "out")
        /\ UNCHANGED <<count, holder>>

(* Mutant: --count > 1 where --count >= 1 is meant. *)
mutex_release_OffByOne(t) ==
  /\ magic
  /\ pc[t] = "hold"
  /\ holder = t
  /\ holder' = NoThread
  /\ count' = count - 1
  /\ IF count - 1 > 1 THEN wait_queue_wake_one(NO_ERROR) ELSE UNCHANGED wqvars
  /\ Goto(t, "out")
  /\ UNCHANGED <<magic, expired>>

mutex_release(t) ==
  /\ magic
  /\ pc[t] = "hold"
  /\ holder = t
  /\ holder' = NoThread
  /\ count' = count - 1
  /\ IF count - 1 >= 1 THEN wait_queue_wake_one(NO_ERROR) ELSE UNCHANGED wqvars
  /\ Goto(t, "out")
  /\ UNCHANGED <<magic, expired>>

(* The owner check of mutex_destroy, made before the lock is taken.  One   *)
(* thread at a time destroys the mutex: a second call fails an assertion.  *)
mutex_destroy_check(t) ==
  /\ magic
  /\ \A u \in Threads : pc[u] # "destroy"
  /\ pc[t] = "out"
  /\ holder = NoThread
  /\ Goto(t, "destroy")
  /\ UNCHANGED <<wqvars, magic, holder, count, expired>>

(* The locked part of mutex_destroy, for a thread past the check and for   *)
(* the holder, whose check cannot become stale.                            *)
mutex_destroy(t) ==
  /\ magic
  /\ pc[t] \in {"destroy", "hold"}
  /\ \A u \in Threads \ {t} : pc[u] # "destroy"
  /\ magic' = FALSE
  /\ count' = 0
  /\ wait_queue_destroy
  /\ Goto(t, "out")
  /\ UNCHANGED <<holder, expired>>

(* The timer interrupt of a thread inside mutex_acquire_timeout. *)
timeout_interrupt(t) ==
  /\ wait_queue_timeout_handler(t)
  /\ expired' = (expired \/ tstate[t] = "BLOCKED")
  /\ UNCHANGED <<magic, holder, count, pc>>

Next ==
  \E t \in Threads :
    \/ \E timeout \in TimeoutsUsed : mutex_acquire_timeout(t, timeout)
    \/ mutex_acquire_returns(t)
    \/ mutex_release(t)
    \/ mutex_destroy_check(t)
    \/ mutex_destroy(t)
    \/ timeout_interrupt(t)

Spec == Init /\ [][Next]_vars

(* A READY thread runs again (round robin between threads of one           *)
(* priority), and a holder's critical section ends.                        *)
Fairness ==
  \A t \in Threads : WF_vars(mutex_acquire_returns(t)) /\ WF_vars(mutex_release(t))

LiveSpec == Spec /\ Fairness
-----------------------------------------------------------------------------
(* A thread that has been handed the mutex but has not run since. *)
Granted(t) == pc[t] = "block" /\ tstate[t] = "READY" /\ block_ret[t] = NO_ERROR

Owns(t) == pc[t] = "hold" \/ Granted(t)

(* The threads m->count stands for. *)
Users == {t \in Threads : pc[t] \in {"block", "hold"}}

(* Types of the mutex and of its wait queue. *)
TypeOK ==
  /\ WaitQueueTypeOK
  /\ magic \in BOOLEAN
  /\ holder \in Threads \cup {NoThread}
  /\ count \in Int
  /\ expired \in BOOLEAN
  /\ pc \in [Threads -> {"out", "block", "hold", "destroy"}]

(* Mutual exclusion, hand-off included: between mutex_release waking a     *)
(* waiter and that waiter running, no third thread gets in, although       *)
(* holder is NULL all that time.                                           *)
MutualExclusion ==
  /\ \A t, u \in Threads : Owns(t) /\ Owns(u) => t = u
  /\ \A t \in Threads : pc[t] = "hold" => holder = t

(* mutex_acquire_timeout and mutex_release agree on what count means: the  *)
(* holder, the queued threads and the threads that timed out but have not  *)
(* run yet to back their increment out.                                    *)
CountIsUsers == magic => count = Cardinality(Users)

(* Where the threads of the wait queue come from: a BLOCKED thread is in   *)
(* mutex_acquire_timeout, and only mutex_destroy answers it                *)
(* ERR_OBJECT_DESTROYED.                                                   *)
BlockedInAcquire ==
  \A t \in Threads :
    /\ tstate[t] = "BLOCKED" => pc[t] = "block"
    /\ pc[t] = "block" /\ block_ret[t] = ERR_OBJECT_DESTROYED => ~magic

(* The inductive invariant of the proofs: together these say that the      *)
(* decision mutex_acquire_timeout takes on count alone, and the one        *)
(* mutex_release takes, are right in every interleaving.                   *)
MutexInv ==
  /\ TypeOK
  /\ QueueMatchesState
  /\ BlockedInAcquire
  /\ MutualExclusion
  /\ CountIsUsers

(* A timer interrupt that arrives after mutex_release has chosen a thread, *)
(* and before that thread runs and cancels the timer, does not take the    *)
(* mutex away from it.                                                     *)
GrantIsFinal ==
  [][\A t \in Threads : Granted(t) => (Granted(t)' \/ pc'[t] = "hold")]_vars

(* As long as no timed wait has expired, no waiter is left in the queue of *)
(* a free mutex: if a thread is queued, some thread owns the mutex.        *)
(* mutex_release decides by count whether there is somebody to wake, and   *)
(* mutex_acquire_timeout whether there is somebody to wait for.  (Once a   *)
(* timed-out thread has been counted by a release, this fails: see         *)
(* NoStrandedWaiter of MutexOnSched.)                                      *)
NoStrandedWaiter ==
  ~expired /\ Waiting # {} => \E t \in Users : t \notin Waiting

(* Every waiter gets the mutex, unless the mutex is destroyed or a timed   *)
(* wait expires: a chain of releases and returns reaches everybody.        *)
WaiterAcquires ==
  \A t \in Threads : pc[t] = "block" ~> pc[t] = "hold" \/ expired \/ ~magic
=============================================================================
