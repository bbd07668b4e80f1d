------------------------------ MODULE Semaphore ------------------------------
(***************************************************************************)
(* kernel/semaphore.c.  sem_count is what is available; below zero it is   *)
(* minus the number of threads inside a blocking wait.                     *)
(***************************************************************************)
EXTENDS WaitQueue

CONSTANTS
  InitialCount,   (* the value given to sem_init                          *)
  MaxPosts,       (* bound: calls of sem_post                             *)
  SemTimeouts     (* the classes of timeout passed to sem_timedwait;      *)
                  (* sem_wait is INFINITE                                 *)

ASSUME SemaphoreAssumption ==
  /\ IsFiniteSet(Threads)
  /\ InitialCount \in Nat
  /\ MaxPosts \in Nat
  /\ SemTimeouts \subseteq Timeout

VARIABLES
  sem_life,   (* "none" before sem_init, "live", "destroyed"              *)
  sem_count,  (* sem->count                                               *)
  sem_pc,     (* "out", or "block" inside wait_queue_block                *)
  posts,      (* history: calls of sem_post                               *)
  taken,      (* history: waits that returned NO_ERROR                    *)
  sem_expired (* history: the timer of some wait has taken its thread out *)
              (* of the queue                                             *)

semvars == <<sem_life, sem_count, sem_pc, posts, taken, sem_expired>>

SemInit ==
  /\ sem_life = "none"
  /\ sem_count = 0
  /\ sem_pc = [t \in Threads |-> "out"]
  /\ posts = 0
  /\ taken = 0
  /\ sem_expired = FALSE

sem_init ==
  /\ sem_life = "none"
  /\ sem_life' = "live"
  /\ sem_count' = InitialCount
  /\ UNCHANGED <<wqvars, sem_pc, posts, taken, sem_expired>>

(* Mutant: ++count < 0 where ++count <= 0 is meant. *)
sem_post_OffByOne ==
  /\ sem_life = "live"
  /\ posts < MaxPosts
  /\ posts' = posts + 1
  /\ sem_count' = sem_count + 1
  /\ IF sem_count + 1 < 0 THEN wait_queue_wake_one(NO_ERROR) ELSE UNCHANGED wqvars
  /\ UNCHANGED <<sem_life, sem_pc, taken, sem_expired>>

(* Called by a thread that is not waiting, or by an interrupt handler. *)
sem_post ==
  /\ sem_life = "live"
  /\ posts < MaxPosts
  /\ posts' = posts + 1
  /\ sem_count' = sem_count + 1
  /\ IF sem_count + 1 <= 0 THEN wait_queue_wake_one(NO_ERROR) ELSE UNCHANGED wqvars
  /\ UNCHANGED <<sem_life, sem_pc, taken, sem_expired>>

(* Mutant: count-- < 0 where --count < 0 is meant. *)
sem_timedwait_PostDecrement(t, timeout) ==
  /\ sem_life = "live"
  /\ sem_pc[t] = "out"
  /\ sem_count' = sem_count - 1
  /\ \/ sem_count >= 0 /\ taken' = taken + 1 /\ UNCHANGED <<wqvars, sem_pc>>
     \/ /\ sem_count < 0
        /\ wait_queue_block(t, timeout)
        /\ sem_pc' = [sem_pc EXCEPT ![t] = "block"]
        /\ UNCHANGED taken
  /\ UNCHANGED <<sem_life, posts, sem_expired>>

(* sem_wait (timeout INFINITE) and sem_timedwait, up to where they return  *)
(* or block.                                                               *)
sem_timedwait(t, timeout) ==
  /\ sem_life = "live"
  /\ sem_pc[t] = "out"
  /\ \/ /\ sem_count - 1 >= 0
        /\ sem_count' = sem_count - 1
        /\ taken' = taken + 1
        /\ UNCHANGED <<wqvars, sem_pc>>
     \/ /\ sem_count - 1 < 0
        /\ timeout # ZERO
        /\ sem_count' = sem_count - 1
        /\ wait_queue_block(t, timeout)
        /\ sem_pc' = [sem_pc EXCEPT ![t] = "block"]
        /\ UNCHANGED taken
     \/ /\ sem_count - 1 < 0        \* --count, ERR_TIMED_OUT, count++
        /\ timeout = ZERO
        /\ UNCHANGED <<wqvars, sem_count, sem_pc, taken>>
  /\ UNCHANGED <<sem_life, posts, sem_expired>>

(* ... and from the return of wait_queue_block. *)
sem_timedwait_returns(t) ==
  /\ sem_pc[t] = "block"
  /\ wait_queue_block_returns(t)
  /\ sem_pc' = [sem_pc EXCEPT ![t] = "out"]
  /\ taken' = IF block_ret[t] = NO_ERROR THEN taken + 1 ELSE taken
  /\ sem_count' = IF block_ret[t] = ERR_TIMED_OUT THEN sem_count + 1 ELSE sem_count
  /\ UNCHANGED <<sem_life, posts, sem_expired>>

sem_trywait(t) ==
  /\ sem_life = "live"
  /\ sem_pc[t] = "out"
  /\ sem_count > 0           \* otherwise ERR_NOT_READY and nothing changes
  /\ sem_count' = sem_count - 1
  /\ taken' = taken + 1
  /\ UNCHANGED <<wqvars, sem_life, sem_pc, posts, sem_expired>>

sem_destroy ==
  /\ sem_life = "live"
  /\ sem_life' = "destroyed"
  /\ sem_count' = 0
  /\ wait_queue_destroy
  /\ UNCHANGED <<sem_pc, posts, taken, sem_expired>>

sem_timeout_interrupt(t) ==
  /\ wait_queue_timeout_handler(t)
  /\ sem_expired' = (sem_expired \/ tstate[t] = "BLOCKED")
  /\ UNCHANGED <<sem_life, sem_count, sem_pc, posts, taken>>

SemNext ==
  \/ sem_init
  \/ sem_post
  \/ sem_destroy
  \/ \E t \in Threads :
       \/ \E timeout \in SemTimeouts : sem_timedwait(t, timeout)
       \/ sem_timedwait_returns(t)
       \/ sem_trywait(t)
       \/ sem_timeout_interrupt(t)

SemSpec == WaitQueueInit /\ SemInit /\ [][SemNext]_<<wqvars, semvars>>
-----------------------------------------------------------------------------
SemInside  == {t \in Threads : sem_pc[t] = "block"}

(* Threads that sem_post has chosen and that have not run since. *)
SemGranted == {t \in SemInside : tstate[t] = "READY" /\ block_ret[t] = NO_ERROR}

(* Resources posted and neither taken nor promised. *)
Available == InitialCount + posts - taken - Cardinality(SemGranted)

(* Types of the semaphore. *)
SemTypeOK ==
  /\ sem_life \in {"none", "live", "destroyed"}
  /\ sem_count \in Int
  /\ sem_pc \in [Threads -> {"out", "block"}]
  /\ posts \in 0 .. MaxPosts
  /\ taken \in Nat
  /\ sem_expired \in BOOLEAN

(* sem_post, the waits and the back-out of a timed-out wait agree on what  *)
(* count means, whatever the order in which they run.                      *)
CountAccounts ==
  sem_life = "live" =>
    sem_count = InitialCount + posts - taken - Cardinality(SemInside)

(* No resource is given out twice: not to a thread that is woken for it    *)
(* and to one that takes it before the woken thread runs, and not to a     *)
(* thread whose timeout fires while it is being woken.                     *)
NoOverIssue == Available >= 0

(* The count of sem_post, of the waits and of a timed-out wait's back-out  *)
(* is exact, and no resource is given out twice.                           *)
SemInv == SemTypeOK /\ CountAccounts /\ NoOverIssue

(* As long as no timed wait has expired, nobody waits for a resource that  *)
(* is there (semaphore.c: "If the count is or was negative then a thread   *)
(* is waiting for a resource, otherwise it's safe to just increase the     *)
(* count available with no downsides").  After a post that counted a       *)
(* timed-out thread, somebody can.                                         *)
NoWaitForAvailable ==
  sem_life = "live" /\ ~sem_expired /\ Waiting # {} => Available <= 0
=============================================================================
