------------------------------ MODULE WaitQueue ------------------------------
(***************************************************************************)
(* The wait queue of kernel/thread.c as its users see it: a FIFO of        *)
(* blocked threads, the status each of them will be handed when it runs    *)
(* again, and the one-shot timers that pull a thread out of the queue.     *)
(*                                                                         *)
(* Everything here runs under THREAD_LOCK with interrupts disabled on one  *)
(* processor, so each operator is one atomic step.  What is NOT atomic is  *)
(* wait_queue_block: the thread leaves the processor in the middle of it   *)
(* and, once made READY, runs again only when the scheduler picks it.      *)
(* Which READY thread runs next is left open here; module Sched has the    *)
(* real run queues.                                                        *)
(***************************************************************************)
EXTENDS Integers, Sequences, FiniteSets

CONSTANT Threads   (* the threads that use the object *)

VARIABLES
  wait,        (* wait_queue_t.list, head first                             *)
  tstate,      (* "BLOCKED", or "READY" for THREAD_READY and THREAD_RUNNING *)
  block_ret,   (* thread_t.wait_queue_block_ret                             *)
  timer        (* threads whose wait_queue_block timer is still queued      *)

wqvars == <<wait, tstate, block_ret, timer>>

NO_ERROR             == "NO_ERROR"
ERR_TIMED_OUT        == "ERR_TIMED_OUT"
ERR_OBJECT_DESTROYED == "ERR_OBJECT_DESTROYED"
ERR_THREAD_DETACHED  == "ERR_THREAD_DETACHED"
Status == {NO_ERROR, ERR_TIMED_OUT, ERR_OBJECT_DESTROYED, ERR_THREAD_DETACHED}

(* The classes of lk_time_t that wait_queue_block tells apart. *)
ZERO     == "zero"
FINITE   == "finite"
INFINITE == "infinite"
Timeout  == {ZERO, FINITE, INFINITE}

WaitQueueInit ==
  /\ wait = <<>>
  /\ tstate = [t \in Threads |-> "READY"]
  /\ block_ret = [t \in Threads |-> NO_ERROR]
  /\ timer = {}

(* s without the thread t, which is in it: list_delete of its queue_node. *)
Without(s, t) ==
  LET i == CHOOSE k \in DOMAIN s : s[k] = t
  IN  [j \in 1 .. Len(s) - 1 |-> IF j < i THEN s[j] ELSE s[j + 1]]

(* The first half of wait_queue_block with a non-zero timeout: the thread  *)
(* joins the tail and gives up the processor.                              *)
wait_queue_block(t, timeout) ==
  /\ wait' = Append(wait, t)
  /\ tstate' = [tstate EXCEPT ![t] = "BLOCKED"]
  /\ block_ret' = [block_ret EXCEPT ![t] = NO_ERROR]
  /\ timer' = IF timeout = FINITE THEN timer \cup {t} ELSE timer

(* The second half: thread_resched has returned, the timer is cancelled    *)
(* and block_ret[t] is the caller's result.                                *)
wait_queue_block_returns(t) ==
  /\ tstate[t] = "READY"
  /\ timer' = timer \ {t}
  /\ UNCHANGED <<wait, tstate, block_ret>>

(* Mutant: list_peek_head where list_remove_head is meant. *)
wait_queue_wake_one_Peeks(ret) ==
  IF wait = <<>>
  THEN UNCHANGED wqvars
  ELSE /\ tstate' = [tstate EXCEPT ![Head(wait)] = "READY"]
       /\ block_ret' = [block_ret EXCEPT ![Head(wait)] = ret]
       /\ UNCHANGED <<wait, timer>>

(* Removes the head, if there is one, and makes it READY. *)
wait_queue_wake_one(ret) ==
  IF wait = <<>>
  THEN UNCHANGED wqvars
  ELSE /\ wait' = Tail(wait)
       /\ tstate' = [tstate EXCEPT ![Head(wait)] = "READY"]
       /\ block_ret' = [block_ret EXCEPT ![Head(wait)] = ret]
       /\ UNCHANGED timer

(* The threads in the queue. *)
Waiting == {wait[i] : i \in DOMAIN wait}

wait_queue_wake_all(ret) ==
  /\ wait' = <<>>
  /\ tstate' = [t \in Threads |-> IF t \in Waiting THEN "READY" ELSE tstate[t]]
  /\ block_ret' = [t \in Threads |-> IF t \in Waiting THEN ret ELSE block_ret[t]]
  /\ UNCHANGED timer

wait_queue_destroy == wait_queue_wake_all(ERR_OBJECT_DESTROYED)

(* Mutant: the status is set before the test that the thread is BLOCKED. *)
wait_queue_timeout_handler_SetsFirst(t) ==
  /\ t \in timer
  /\ timer' = timer \ {t}
  /\ block_ret' = [block_ret EXCEPT ![t] = ERR_TIMED_OUT]
  /\ tstate' = [tstate EXCEPT ![t] = "READY"]
  /\ wait' = IF tstate[t] = "BLOCKED" THEN Without(wait, t) ELSE wait

(* The timer interrupt.  thread_unblock_from_wait_queue refuses a thread   *)
(* that somebody has woken already and that has not cancelled its timer    *)
(* because it has not run yet.                                             *)
wait_queue_timeout_handler(t) ==
  /\ t \in timer
  /\ timer' = timer \ {t}
  /\ IF tstate[t] # "BLOCKED"
     THEN UNCHANGED <<wait, tstate, block_ret>>
     ELSE /\ wait' = Without(wait, t)
          /\ tstate' = [tstate EXCEPT ![t] = "READY"]
          /\ block_ret' = [block_ret EXCEPT ![t] = ERR_TIMED_OUT]

WaitQueueTypeOK ==
  /\ wait \in Seq(Threads)
  /\ tstate \in [Threads -> {"READY", "BLOCKED"}]
  /\ block_ret \in [Threads -> Status]
  /\ timer \in SUBSET Threads

(* A thread is BLOCKED exactly when it is in the queue, and once only. *)
QueueMatchesState ==
  /\ \A t \in Threads : tstate[t] = "BLOCKED" <=> t \in Waiting
  /\ \A i, j \in DOMAIN wait : wait[i] = wait[j] => i = j
=============================================================================
