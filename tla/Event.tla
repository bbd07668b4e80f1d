-------------------------------- MODULE Event --------------------------------
(***************************************************************************)
(* kernel/event.c: an event that stays signaled for everybody until it is  *)
(* unsignaled, or, with EVENT_FLAG_AUTOUNSIGNAL, one that lets a single    *)
(* waiter through per signal.                                              *)
(***************************************************************************)
EXTENDS WaitQueue

CONSTANTS
  MaxSignals,     (* bound: calls of event_signal                         *)
  EventTimeouts   (* the classes of timeout the callers pass              *)

ASSUME EventAssumption ==
  /\ IsFiniteSet(Threads)
  /\ MaxSignals \in Nat \ {0}
  /\ EventTimeouts \subseteq Timeout

VARIABLES
  ev_life,       (* "none" before event_init, "live", "destroyed": the    *)
                 (* magic is EVENT_MAGIC when "live"                      *)
  autounsignal,  (* e->flags & EVENT_FLAG_AUTOUNSIGNAL                    *)
  signaled,      (* e->signaled                                           *)
  ev_pc,         (* "out", or "block" inside wait_queue_block             *)
  signals,       (* history: calls of event_signal                        *)
  passed         (* history: waits that returned NO_ERROR, counted with   *)
                 (* autounsignal only                                     *)

eventvars == <<ev_life, autounsignal, signaled, ev_pc, signals, passed>>

EventInit ==
  /\ ev_life = "none"
  /\ autounsignal = FALSE
  /\ signaled = FALSE
  /\ ev_pc = [t \in Threads |-> "out"]
  /\ signals = 0
  /\ passed = 0

event_init(initial, auto) ==
  /\ ev_life = "none"
  /\ ev_life' = "live"
  /\ autounsignal' = auto
  /\ signaled' = initial
  /\ signals' = IF initial THEN 1 ELSE 0
  /\ UNCHANGED <<wqvars, ev_pc, passed>>

Passes == passed' = IF autounsignal THEN passed + 1 ELSE passed

(* With timeout ZERO and no signal: ERR_TIMED_OUT, and nothing changes. *)
event_wait_timeout(t, timeout) ==
  /\ ev_life = "live"
  /\ ev_pc[t] = "out"
  /\ \/ /\ signaled
        /\ signaled' = ~autounsignal
        /\ Passes
        /\ UNCHANGED <<wqvars, ev_pc>>
     \/ /\ ~signaled
        /\ timeout # ZERO
        /\ wait_queue_block(t, timeout)
        /\ ev_pc' = [ev_pc EXCEPT ![t] = "block"]
        /\ UNCHANGED <<signaled, passed>>
  /\ UNCHANGED <<autounsignal, ev_life, signals>>

event_wait_returns(t) ==
  /\ ev_pc[t] = "block"
  /\ wait_queue_block_returns(t)
  /\ ev_pc' = [ev_pc EXCEPT ![t] = "out"]
  /\ IF block_ret[t] = NO_ERROR THEN Passes ELSE UNCHANGED passed
  /\ UNCHANGED <<autounsignal, ev_life, signaled, signals>>

(* Mutant: one thread is woken and the event signaled, in either mode. *)
event_signal_WakesOne ==
  /\ ev_life = "live"
  /\ signaled' = TRUE
  /\ IF signaled THEN UNCHANGED wqvars ELSE wait_queue_wake_one(NO_ERROR)
  /\ UNCHANGED <<autounsignal, ev_life, ev_pc, passed>>

event_signal ==
  /\ ev_life = "live"
  /\ \/ /\ signaled
        /\ UNCHANGED <<wqvars, signaled>>
     \/ /\ ~signaled
        /\ autounsignal
        /\ wait_queue_wake_one(NO_ERROR)
        /\ signaled' = (wait = <<>>)
     \/ /\ ~signaled
        /\ ~autounsignal
        /\ wait_queue_wake_all(NO_ERROR)
        /\ signaled' = TRUE
  /\ UNCHANGED <<autounsignal, ev_life, ev_pc, passed>>

(* event_signal by a thread or an interrupt handler, with the history. *)
Signal ==
  /\ signals < MaxSignals
  /\ event_signal
  /\ signals' = signals + 1

(* The one operation that does not take the lock. *)
event_unsignal ==
  /\ ev_life = "live"
  /\ signaled' = FALSE
  /\ UNCHANGED <<wqvars, autounsignal, ev_life, ev_pc, signals, passed>>

(* Mutant: the wait queue is not destroyed. *)
event_destroy_LeavesQueue ==
  /\ ev_life = "live"
  /\ ev_life' = "destroyed"
  /\ signaled' = FALSE
  /\ UNCHANGED <<wqvars, autounsignal, ev_pc, signals, passed>>

event_destroy ==
  /\ ev_life = "live"
  /\ ev_life' = "destroyed"
  /\ signaled' = FALSE
  /\ autounsignal' = FALSE      \* e->flags = 0
  /\ wait_queue_destroy
  /\ UNCHANGED <<ev_pc, signals, passed>>

event_timeout_interrupt(t) ==
  /\ wait_queue_timeout_handler(t)
  /\ UNCHANGED eventvars

EventNext ==
  \/ \E initial, auto \in BOOLEAN : event_init(initial, auto)
  \/ Signal
  \/ event_unsignal
  \/ event_destroy
  \/ \E t \in Threads :
       \/ \E timeout \in EventTimeouts : event_wait_timeout(t, timeout)
       \/ event_wait_returns(t)
       \/ event_timeout_interrupt(t)

EventSpec == WaitQueueInit /\ EventInit /\ [][EventNext]_<<wqvars, eventvars>>
-----------------------------------------------------------------------------
(* Threads that event_signal has released and that have not run since. *)
Released ==
  {t \in Threads : ev_pc[t] = "block" /\ tstate[t] = "READY" /\ block_ret[t] = NO_ERROR}

(* Types of the event. *)
EventTypeOK ==
  /\ ev_life \in {"none", "live", "destroyed"}
  /\ autounsignal \in BOOLEAN
  /\ signaled \in BOOLEAN
  /\ ev_pc \in [Threads -> {"out", "block"}]
  /\ signals \in 0 .. MaxSignals
  /\ passed \in Nat

(* "Continue to do so (no threads will wait) until unsignaled": nobody is  *)
(* queued on a signaled event, in either mode, even when the signal fell   *)
(* between a waiter's timeout and its return; and nobody stays queued on   *)
(* one that event_destroy has taken away.                                  *)
NoWaiterWhileSignaled == signaled \/ ev_life = "destroyed" => wait = <<>>

(* "one signal releases only one thread": with autounsignal the threads    *)
(* let through, those released and not yet run, and a pending signal never *)
(* exceed the signals given.                                               *)
OnePerSignal ==
  autounsignal =>
    passed + Cardinality(Released) + (IF signaled THEN 1 ELSE 0) <= signals

(* A signal releases as many as it says and leaves nobody behind, in both  *)
(* modes of event_signal.                                                  *)
EventInv == EventTypeOK /\ NoWaiterWhileSignaled /\ OnePerSignal

(* A thread blocked on an event that is destroyed gets out of the call,    *)
(* whether the destruction, a signal or its timer released it.             *)
DestroyReleases ==
  ev_life = "destroyed" ~> \A t \in Threads : ev_pc[t] = "out"
=============================================================================
