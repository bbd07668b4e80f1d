-------------------------------- MODULE Timer --------------------------------
(***************************************************************************)
(* kernel/timer.c with the fixed tick the PSP build uses: a list of timers *)
(* ordered by a wrapping clock, emptied from its head by timer_tick in     *)
(* interrupt context.                                                      *)
(*                                                                         *)
(* timer_tick has the interrupts off, so no thread runs until it is over,  *)
(* but the clock goes on and the callbacks set and cancel timers.  A       *)
(* thread in timer_set reads the clock before it takes the lock and may be *)
(* interrupted there.                                                      *)
(***************************************************************************)
EXTENDS Integers, Sequences

CONSTANTS
  Timers,        (* the timer objects                                     *)
  NoTimer,       (* the NULL timer                                        *)
  Width,         (* bits of lk_time_t (32)                                *)
  TickInterval,  (* time between two timer interrupts (10)                *)
  Delays,        (* the delays and periods asked for                      *)
  MaxLag         (* bound: how long a thread may be off the processor     *)
                 (* between reading the clock in timer_set and the lock   *)

Modulus == 2 ^ Width

(* timer_set_oneshot and timer_set_periodic turn a delay of 0 into 1. *)
Delay(d) == IF d = 0 THEN 1 ELSE d

(* Times that are compared are less than half of the clock's range apart.  *)
(* (Of the power only that it is even is used.)                            *)
ASSUME TimerAssumption ==
  /\ NoTimer \notin Timers
  /\ Width \in Nat \ {0}
  /\ 2 ^ (Width - 1) \in Nat \ {0} /\ Modulus = 2 * 2 ^ (Width - 1)
  /\ TickInterval \in Nat \ {0}
  /\ MaxLag \in Nat
  /\ Delays \subseteq Nat /\ Delays # {}
  /\ \A d \in Delays : 2 * (Delay(d) + MaxLag + 2 * TickInterval) < Modulus

VARIABLES
  clock,           (* current_time()                                      *)
  since,           (* time since the last timer interrupt began           *)
  timer_queue,     (* timers[cpu].timer_queue                             *)
  scheduled_time,  (* of each timer; 0 for one that is neither queued nor *)
                   (* being set nor firing, where nobody reads it         *)
  periodic_time,   (* of each timer, 0 for a one-shot one                 *)
  callback,        (* timer->callback is not NULL                         *)
  setting,         (* timers whose timer_set is before the lock           *)
  now,             (* the argument of the running timer_tick, else 0      *)
  ticking,         (* timer_tick is running                               *)
  firing,          (* the timer whose callback is running, or NoTimer     *)
  periodic,        (* timer_tick's local of that name                     *)
  left,            (* history: time until each timer is really due, not   *)
                   (* counted below -Modulus                              *)
  late             (* history: timers put in the list since the last tick *)

timervars == <<clock, since, timer_queue, scheduled_time, periodic_time, callback,
          setting, now, ticking, firing, periodic, left, late>>

TIME_GT(a, b) == (a - b) % Modulus \in 1 .. (Modulus \div 2) - 1
TIME_LT(a, b) == (a - b) % Modulus >= Modulus \div 2

InList(t) == \E i \in DOMAIN timer_queue : timer_queue[i] = t

TimerInit ==
  /\ clock = 0
  /\ since = 0
  /\ timer_queue = <<>>
  /\ scheduled_time = [t \in Timers |-> 0]
  /\ periodic_time = [t \in Timers |-> 0]
  /\ callback = [t \in Timers |-> FALSE]
  /\ setting = {}
  /\ now = 0
  /\ ticking = FALSE
  /\ firing = NoTimer
  /\ periodic = FALSE
  /\ left = [t \in Timers |-> 0]
  /\ late = {}

(* Mutant: > where TIME_GT is meant. *)
insert_timer_in_queue_Plain(t, s) ==
  LET later == {i \in DOMAIN timer_queue : scheduled_time[timer_queue[i]] > s}
      k == IF later = {} THEN Len(timer_queue) + 1
           ELSE CHOOSE i \in later : \A j \in later : i <= j
  IN  SubSeq(timer_queue, 1, k - 1) \o <<t>> \o SubSeq(timer_queue, k, Len(timer_queue))

(* The list with t, scheduled for s, before the first entry that is later. *)
insert_timer_in_queue(t, s) ==
  LET later == {i \in DOMAIN timer_queue : TIME_GT(scheduled_time[timer_queue[i]], s)}
      k == IF later = {} THEN Len(timer_queue) + 1
           ELSE CHOOSE i \in later : \A j \in later : i <= j
  IN  SubSeq(timer_queue, 1, k - 1) \o <<t>> \o SubSeq(timer_queue, k, Len(timer_queue))

(* The queue without t, if it is in it. *)
list_delete(t) ==
  LET k == CHOOSE k \in DOMAIN timer_queue : timer_queue[k] = t
  IN  IF InList(t)
      THEN [i \in 1 .. Len(timer_queue) - 1 |->
              IF i < k THEN timer_queue[i] ELSE timer_queue[i + 1]]
      ELSE timer_queue

(* The fields timer_set fills in, from the clock as it is now. *)
FillIn(t, delay, period) ==
  /\ scheduled_time' = [scheduled_time EXCEPT ![t] = (clock + delay) % Modulus]
  /\ periodic_time' = [periodic_time EXCEPT ![t] = period]
  /\ callback' = [callback EXCEPT ![t] = TRUE]
  /\ left' = [left EXCEPT ![t] = delay]

(* timer_set by a thread, up to the lock.  The timer is not in the list    *)
(* (the code panics) and its owner does not set it twice.                  *)
timer_set(t, delay, period) ==
  /\ ~ticking
  /\ ~InList(t)
  /\ t \notin setting
  /\ FillIn(t, delay, period)
  /\ setting' = setting \cup {t}
  /\ UNCHANGED <<clock, since, timer_queue, now, ticking, firing, periodic, late>>

(* ... and under it. *)
timer_set_inserts(t) ==
  /\ ~ticking
  /\ t \in setting
  /\ timer_queue' = insert_timer_in_queue(t, scheduled_time[t])
  /\ setting' = setting \ {t}
  /\ late' = late \cup {t}
  /\ UNCHANGED <<clock, since, scheduled_time, periodic_time, callback, now, ticking,
                 firing, periodic, left>>

(* timer_set by the callback that is running, with the interrupts off. *)
callback_sets(t, delay, period) ==
  /\ firing # NoTimer
  /\ ~InList(t)
  /\ t \notin setting
  /\ FillIn(t, delay, period)
  /\ timer_queue' = insert_timer_in_queue(t, (clock + delay) % Modulus)
  /\ UNCHANGED <<clock, since, setting, now, ticking, firing, periodic, late>>

(* timer_cancel, by a thread or by the callback that is running, of a      *)
(* timer that is not being set by somebody else.                           *)
timer_cancel(t) ==
  /\ ticking => firing # NoTimer
  /\ t \notin setting
  /\ timer_queue' = list_delete(t)
  /\ periodic_time' = [periodic_time EXCEPT ![t] = 0]
  /\ callback' = [callback EXCEPT ![t] = FALSE]
  /\ scheduled_time' = IF t = firing THEN scheduled_time ELSE [scheduled_time EXCEPT ![t] = 0]
  /\ left' = IF t = firing THEN left ELSE [left EXCEPT ![t] = 0]
  /\ late' = late \ {t}
  /\ UNCHANGED <<clock, since, setting, now, ticking, firing, periodic>>

(* allegrex_timer_irq: the time is read once for the whole tick. *)
timer_tick ==
  /\ ~ticking
  /\ since > 0
  /\ ticking' = TRUE
  /\ now' = clock
  /\ since' = 0
  /\ late' = {}
  /\ UNCHANGED <<clock, timer_queue, scheduled_time, periodic_time, callback, setting,
                 firing, periodic, left>>

(* The head of the list is not due, or there is none. *)
NoneDue ==
  IF timer_queue = <<>> THEN TRUE ELSE TIME_LT(now, scheduled_time[Head(timer_queue)])

(* One turn of timer_tick's loop, up to the callback. *)
tick_fires ==
  /\ ticking
  /\ firing = NoTimer
  /\ ~NoneDue
  /\ firing' = Head(timer_queue)
  /\ periodic' = (periodic_time[Head(timer_queue)] > 0)
  /\ timer_queue' = Tail(timer_queue)
  /\ UNCHANGED <<clock, since, scheduled_time, periodic_time, callback, setting, now,
                 ticking, left, late>>

(* Mutant: the callback's timer_cancel is not noticed. *)
callback_returns_Requeues ==
  /\ firing # NoTimer
  /\ firing' = NoTimer
  /\ periodic' = FALSE
  /\ IF periodic /\ ~InList(firing)
     THEN LET s == (now + 1) % Modulus
          IN  /\ scheduled_time' = [scheduled_time EXCEPT ![firing] = s]
              /\ timer_queue' = insert_timer_in_queue(firing, s)
              /\ left' = [left EXCEPT ![firing] = 1 - since]
     ELSE UNCHANGED <<scheduled_time, timer_queue, left>>
  /\ UNCHANGED <<clock, since, periodic_time, callback, setting, now, ticking, late>>

(* Mutant: scheduled_time is not moved on by the period. *)
callback_returns_SameTime ==
  /\ firing # NoTimer
  /\ firing' = NoTimer
  /\ periodic' = FALSE
  /\ IF periodic /\ ~InList(firing) /\ periodic_time[firing] > 0
     THEN timer_queue' = insert_timer_in_queue(firing, scheduled_time[firing])
     ELSE UNCHANGED timer_queue
  /\ UNCHANGED <<clock, since, scheduled_time, periodic_time, callback, setting, now,
                 ticking, left, late>>

(* The callback returns; a periodic timer that it neither cancelled nor    *)
(* set again goes back into the list, one period after it was due or, if   *)
(* that has passed, one period from now.                                   *)
callback_returns ==
  /\ firing # NoTimer
  /\ firing' = NoTimer
  /\ periodic' = FALSE
  /\ \/ /\ periodic /\ ~InList(firing) /\ periodic_time[firing] > 0
        /\ LET p == periodic_time[firing]
               next == (scheduled_time[firing] + p) % Modulus
               missed == TIME_LT(next, now)
               s == IF missed THEN (now + p) % Modulus ELSE next
           IN  /\ scheduled_time' = [scheduled_time EXCEPT ![firing] = s]
               /\ timer_queue' = insert_timer_in_queue(firing, s)
               /\ left' = [left EXCEPT ![firing] = IF missed THEN p - since ELSE @ + p]
     \/ /\ InList(firing)
        /\ UNCHANGED <<scheduled_time, timer_queue, left>>
     \/ /\ ~InList(firing) /\ ~(periodic /\ periodic_time[firing] > 0)
        /\ scheduled_time' = [scheduled_time EXCEPT ![firing] = 0]
        /\ left' = [left EXCEPT ![firing] = 0]
        /\ UNCHANGED timer_queue
  /\ UNCHANGED <<clock, since, periodic_time, callback, setting, now, ticking, late>>

tick_ends ==
  /\ ticking
  /\ firing = NoTimer
  /\ NoneDue
  /\ ticking' = FALSE
  /\ now' = 0
  /\ UNCHANGED <<clock, since, timer_queue, scheduled_time, periodic_time, callback,
                 setting, firing, periodic, left, late>>

(* Time passes: at most TickInterval between two timer interrupts, and at  *)
(* most MaxLag past the due time of a timer still being set.               *)
Active(t) == InList(t) \/ t \in setting \/ t = firing

time_passes ==
  /\ since < TickInterval
  /\ \A t \in setting : left[t] > -MaxLag
  /\ clock' = (clock + 1) % Modulus
  /\ since' = since + 1
  /\ left' = [t \in Timers |-> IF Active(t) /\ left[t] > -Modulus THEN left[t] - 1 ELSE left[t]]
  /\ UNCHANGED <<timer_queue, scheduled_time, periodic_time, callback, setting, now,
                 ticking, firing, periodic, late>>

TimeGoesOn == timer_tick \/ tick_fires \/ callback_returns \/ tick_ends \/ time_passes

TimerNext ==
  \/ TimeGoesOn
  \/ \E t \in Timers :
       \/ timer_set_inserts(t)
       \/ timer_cancel(t)
       \/ \E d \in Delays, repeat \in BOOLEAN :
            LET p == IF repeat THEN Delay(d) ELSE 0
            IN  timer_set(t, Delay(d), p) \/ callback_sets(t, Delay(d), p)

(* The clock and the timer interrupt go on, the handler and the callbacks  *)
(* run to their end, and a thread inside timer_set runs again.             *)
TimerFairness ==
  /\ WF_timervars(TimeGoesOn)
  /\ \A t \in Timers : WF_timervars(timer_set_inserts(t))

TimerSpec == TimerInit /\ [][TimerNext]_timervars /\ TimerFairness
-----------------------------------------------------------------------------
(* Types of the timers and of the tick. *)
TimerTypeOK ==
  /\ clock \in 0 .. Modulus - 1
  /\ since \in 0 .. TickInterval
  /\ timer_queue \in Seq(Timers)
  /\ scheduled_time \in [Timers -> 0 .. Modulus - 1]
  /\ periodic_time \in [Timers -> Nat]
  /\ callback \in [Timers -> BOOLEAN]
  /\ setting \in SUBSET Timers
  /\ now \in 0 .. Modulus - 1
  /\ ticking \in BOOLEAN
  /\ firing \in Timers \cup {NoTimer}
  /\ periodic \in BOOLEAN
  /\ left \in [Timers -> Int]
  /\ late \in SUBSET Timers

(* The list is in the order in which its timers are really due, although   *)
(* it is ordered by a clock that wraps, and no timer is in it twice.       *)
QueueInOrder ==
  \A i, j \in DOMAIN timer_queue :
    i < j => /\ left[timer_queue[i]] <= left[timer_queue[j]]
             /\ timer_queue[i] # timer_queue[j]

(* A timer is not run before it is due, nor with its callback gone: no     *)
(* cancellation, from a thread or from the timer's own callback, leaves it *)
(* in the list.                                                            *)
FiresDueTimers ==
  [][firing' # firing /\ firing' # NoTimer =>
       left[firing'] + since <= 0 /\ callback[firing']]_timervars

(* A tick leaves nothing that was due when it began: what is in the list   *)
(* and overdue for that tick was put there after it.                       *)
NothingOverdue ==
  ~ticking => \A i \in DOMAIN timer_queue :
                LET t == timer_queue[i]
                IN  t \in late \/ left[t] + since > 0

(* insert_timer_in_queue and timer_tick agree on the order of a clock that *)
(* wraps: the list is in order and nothing in it is overdue.               *)
TimerInv == TimerTypeOK /\ QueueInOrder /\ NothingOverdue

(* A timer in the list is run or cancelled, whatever the others do. *)
TimerFires == \A t \in Timers : InList(t) ~> ~InList(t)
=============================================================================
