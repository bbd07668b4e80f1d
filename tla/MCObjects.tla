------------------------------ MODULE MCObjects ------------------------------
(* The kernel objects built on a wait queue, and the timers, for TLC.  A   *)
(* behaviour creates one of them and uses the wait queue; the others are   *)
(* not created.                                                            *)
EXTENDS Semaphore, EvFlag, ThreadLife, Cbuf, Timer

(* Two flags: waiters for one and for either, autoclearing or not, with    *)
(* every class of timeout.  The program waits in OR mode only.             *)
FlagPair == {"a", "b"}

OrRequests ==
  { [pattern |-> {"a"}, mode |-> "OR", autoclear |-> TRUE, timeout |-> FINITE],
    [pattern |-> {"a", "b"}, mode |-> "OR", autoclear |-> TRUE, timeout |-> INFINITE],
    [pattern |-> {"b"}, mode |-> "OR", autoclear |-> FALSE, timeout |-> ZERO] }

VARIABLE object   (* the object of this behaviour *)

vars == <<wqvars, semvars, eventvars, flagvars, thvars, cbvars, timervars, object>>

Init ==
  /\ object \in {"semaphore", "event", "evflag", "thread", "cbuf", "timer"}
  /\ WaitQueueInit
  /\ SemInit
  /\ EventInit
  /\ FlagInit
  /\ ThreadLifeInit
  /\ CbufInit
  /\ TimerInit

Semaphores == /\ object = "semaphore"
              /\ SemNext
              /\ UNCHANGED <<eventvars, flagvars, thvars, cbvars, timervars, object>>
Events     == /\ object = "event"
              /\ EventNext
              /\ UNCHANGED <<semvars, flagvars, thvars, cbvars, timervars, object>>
EventFlags == /\ object = "evflag"
              /\ FlagNext
              /\ UNCHANGED <<semvars, eventvars, thvars, cbvars, timervars, object>>
ThreadOps  == /\ object = "thread"
              /\ ThreadLifeNext
              /\ UNCHANGED <<semvars, eventvars, flagvars, cbvars, timervars, object>>
Buffers    == /\ object = "cbuf"
              /\ CbufNext
              /\ UNCHANGED <<semvars, flagvars, thvars, timervars, object>>
Untimed    == <<wqvars, semvars, eventvars, flagvars, thvars, cbvars, object>>
TimerOps   == /\ object = "timer"
              /\ TimerNext
              /\ UNCHANGED Untimed

Next == Semaphores \/ Events \/ EventFlags \/ ThreadOps \/ Buffers \/ TimerOps

(* A READY thread runs again: it returns from its wait, or goes on with    *)
(* what it is in the middle of.                                            *)
Runs(t) ==
  \/ /\ object = "event"
     /\ event_wait_returns(t)
     /\ UNCHANGED <<semvars, flagvars, thvars, cbvars, timervars, object>>
  \/ /\ object = "thread"
     /\ thread_join_returns(t) \/ thread_detach_reaps(t)
     /\ UNCHANGED <<semvars, eventvars, flagvars, cbvars, timervars, object>>

(* The timer interrupt comes and its handler runs to its end, as in the    *)
(* fairness of module Timer.                                               *)
Ticks(A) == object = "timer" /\ A /\ UNCHANGED Untimed

Spec ==
  /\ Init
  /\ [][Next]_vars
  /\ \A t \in Threads : WF_vars(Runs(t))
  /\ WF_vars(Ticks(TimeGoesOn))
  /\ \A t \in Timers : WF_vars(Ticks(timer_set_inserts(t)))
=============================================================================
