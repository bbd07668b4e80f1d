----------------------------- MODULE MutexOnSched -----------------------------
(***************************************************************************)
(* kernel/mutex.c composed with the scheduler of kernel/thread.c: threads  *)
(* acquire and release one mutex, yield, sleep and start one another, under *)
(* the real run queues and timer interrupts.  Module Mutex leaves the      *)
(* choice of the next thread open; this module shows that what the         *)
(* scheduler does is one of the behaviours Mutex allows.                   *)
(***************************************************************************)
EXTENDS Sched

CONSTANTS
  MutexQueue,     (* the mutex's wait queue, one of Queues                *)
  TimeoutsUsed,   (* the classes of timeout the callers pass              *)
  NoThread        (* the NULL holder                                      *)

ASSUME MutexOnSchedAssumption ==
  /\ MutexQueue \in Queues
  /\ NoThread \notin Threads
  /\ TimeoutsUsed \subseteq {"zero", "finite", "infinite"}

VARIABLES
  holder,   (* m->holder                                                  *)
  count,    (* m->count                                                   *)
  at,       (* "out", "block" or "hold", as pc in Mutex                   *)
  expired,  (* history: a timer has taken a thread out of the queue       *)
  armed     (* history: threads whose wait_queue_block timer has neither  *)
            (* fired nor been followed by the return of the acquire       *)

mutexvars == <<holder, count, at, expired, armed>>
allvars == <<vars, mutexvars>>

MutexInit ==
  /\ Init
  /\ holder = NoThread
  /\ count = 0
  /\ at = [t \in Threads |-> "out"]
  /\ expired = FALSE
  /\ armed = {}

Goto(t, l) == at' = [at EXCEPT ![t] = l]

(* mutex_acquire_timeout up to the point where it returns or blocks.  With *)
(* a zero timeout on a taken mutex it changes nothing: ++count, the        *)
(* ERR_TIMED_OUT of wait_queue_block and count-- are under one lock.       *)
mutex_acquire_timeout(t, timeout) ==
  /\ Calls(t)
  /\ at[t] = "out"
  /\ UNCHANGED expired
  /\ \/ /\ count + 1 <= 1
        /\ count' = count + 1
        /\ holder' = t
        /\ Goto(t, "hold")
        /\ UNCHANGED <<vars, armed>>
     \/ /\ count + 1 > 1
        /\ timeout # "zero"
        /\ count' = count + 1
        /\ wait_queue_block(t, MutexQueue, timeout)
        /\ Goto(t, "block")
        /\ armed' = IF timeout = "finite" THEN armed \cup {t} ELSE armed
        /\ UNCHANGED holder

(* The current thread has been switched to inside wait_queue_block: it     *)
(* finishes mutex_acquire_timeout before the lock is released.             *)
Returning == current # Idle /\ at[current] = "block"

(* Mutant: a timed-out thread forgets to take its increment back. *)
mutex_acquire_returns_KeepsCount(t) ==
  /\ Executing(t)
  /\ at[t] = "block"
  /\ armed' = armed \ {t}
  /\ \/ block_ret[t] = "NO_ERROR" /\ holder' = t /\ Goto(t, "hold")
     \/ block_ret[t] = "ERR_TIMED_OUT" /\ Goto(t, "out") /\ UNCHANGED holder
  /\ UNCHANGED <<vars, count, expired>>

mutex_acquire_returns(t) ==
  /\ Executing(t)
  /\ at[t] = "block"
  /\ armed' = armed \ {t}
  /\ UNCHANGED <<vars, expired>>
  /\ \/ /\ block_ret[t] = "NO_ERROR"
        /\ holder' = t
        /\ Goto(t, "hold")
        /\ UNCHANGED count
     \/ /\ block_ret[t] = "ERR_TIMED_OUT"
        /\ count' = count - 1
        /\ Goto(t, "out")
        /\ UNCHANGED holder

mutex_release(t) ==
  /\ Calls(t)
  /\ at[t] = "hold"
  /\ holder = t
  /\ holder' = NoThread
  /\ count' = count - 1
  /\ IF count - 1 >= 1 /\ wait_list[MutexQueue] # <<>>
     THEN wait_queue_wake_one(t, MutexQueue, TRUE)
     ELSE UNCHANGED vars
  /\ Goto(t, "out")
  /\ UNCHANGED <<expired, armed>>

(* Steps of the scheduler that do not touch the mutex's own fields. *)
OtherStep(t) ==
  /\ \/ \E s \in Threads : thread_resume(t, s)
     \/ thread_yield(t)
     \/ thread_sleep(t)
  /\ UNCHANGED mutexvars

Interrupt ==
  \/ /\ timer_interrupt \/ interrupt_return
     /\ UNCHANGED mutexvars
  \/ /\ \E t \in Threads : thread_sleep_handler(t)
     /\ UNCHANGED mutexvars
  \/ \E t \in Threads :
       /\ wait_queue_timeout_handler(t)
       /\ armed' = armed \ {t}
       /\ expired' = (expired \/ state[t] = "BLOCKED")
       /\ UNCHANGED <<holder, count, at>>

MutexNext ==
  \/ \E t \in Threads : mutex_acquire_returns(t)
  \/ /\ ~Returning
     /\ \/ \E t \in Threads :
             \/ \E timeout \in TimeoutsUsed : mutex_acquire_timeout(t, timeout)
             \/ mutex_release(t)
             \/ OtherStep(t)
        \/ Interrupt

MutexSpec == MutexInit /\ [][MutexNext]_allvars
-----------------------------------------------------------------------------
M == INSTANCE Mutex WITH
       wait   <- wait_list[MutexQueue],
       tstate <- [t \in Threads |-> IF state[t] = "BLOCKED" THEN "BLOCKED" ELSE "READY"],
       timer  <- armed,
       magic  <- TRUE,
       pc     <- at

(* Under the real scheduler the mutex does nothing that module Mutex does  *)
(* not allow: whatever holds of Mutex holds of the composition.            *)
ImplementsMutex == M!Spec

(* A queued thread means that the mutex is taken or that a timed-out       *)
(* thread has yet to back out (mutex.c: "This function waits up to timeout *)
(* ms for the mutex to become available").                                 *)
NoStrandedWaiter ==
  wait_list[MutexQueue] # <<>> => \E t \in Threads : at[t] = "hold" \/
                                    (at[t] = "block" /\ state[t] # "BLOCKED")
=============================================================================
