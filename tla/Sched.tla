-------------------------------- MODULE Sched --------------------------------
(***************************************************************************)
(* kernel/thread.c on one processor: run queues, context switches, quantum *)
(* and wait queues, with kernel/timer.c's tick as far as it reaches the    *)
(* scheduler.                                                              *)
(*                                                                         *)
(* A step is what happens under THREAD_LOCK.  Two loops run under one lock *)
(* and are split into one step per iteration, with nothing else enabled in *)
(* between: wait_queue_wake_all (waking # NotWaking) and the timer         *)
(* interrupt (irq = "timer").  Time is abstracted: a queued timer may      *)
(* expire at any timer interrupt.                                          *)
(***************************************************************************)
EXTENDS Integers, Sequences, FiniteSets

CONSTANTS
  Threads,          (* every thread that is ever created                  *)
  Idle,             (* the idle thread: runs when no run queue has one    *)
  Queues,           (* wait queues                                        *)
  NoQueue,          (* the NULL blocking_wait_queue                       *)
  HIGHEST_PRIORITY, (* NUM_PRIORITIES - 1; IDLE_PRIORITY is 0             *)
  DEFAULT_PRIORITY, (* priority given to thread_create                    *)
  InitialQuantum,   (* the 5 of thread_resched                            *)
  SettablePriorities (* arguments callers pass to thread_set_priority     *)

IDLE_PRIORITY == 0
Priorities == IDLE_PRIORITY .. HIGHEST_PRIORITY

ASSUME SchedAssumption ==
  /\ Idle \notin Threads
  /\ NoQueue \notin Queues
  /\ HIGHEST_PRIORITY \in Nat
  /\ DEFAULT_PRIORITY \in Priorities \ {IDLE_PRIORITY}
  /\ InitialQuantum \in Nat \ {0}
  /\ SettablePriorities \subseteq Int

VARIABLES
  state,        (* thread_t.state                                         *)
  priority,     (* thread_t.priority                                      *)
  quantum,      (* thread_t.remaining_quantum                             *)
  run_queue,    (* run_queue[], each head first                           *)
  bitmap,       (* run_queue_bitmap, as the set of its bits               *)
  current,      (* get_current_thread()                                   *)
  yielding,     (* threads in thread_resume between unlock and yield      *)
  wait_list,    (* wait_queue_t.list of each queue                        *)
  wait_count,   (* wait_queue_t.count of each queue                       *)
  blocked_on,   (* thread_t.blocking_wait_queue                           *)
  block_ret,    (* thread_t.wait_queue_block_ret                          *)
  timer,        (* the one-shot timer a thread has queued, by callback    *)
  irq,          (* the interrupt being served, "none" in thread context   *)
  resched,      (* a handler of this interrupt returned INT_RESCHEDULE    *)
  waking        (* the wait_queue_wake_all in progress                    *)

runvars  == <<run_queue, bitmap>>
waitvars == <<wait_list, wait_count, blocked_on, block_ret>>
vars == <<state, priority, quantum, runvars, current, yielding, waitvars,
          timer, irq, resched, waking>>

NotWaking == [queue |-> NoQueue, reschedule |-> FALSE, woken |-> 0]

ThreadState == {"SUSPENDED", "READY", "RUNNING", "BLOCKED", "SLEEPING", "DEATH"}
Status == {"NO_ERROR", "ERR_TIMED_OUT"}
-----------------------------------------------------------------------------
(* insert_in_run_queue_head and insert_in_run_queue_tail on run queues rq. *)
InsertHead(rq, t, p) == [rq EXCEPT ![p] = <<t>> \o @]
InsertTail(rq, t, p) == [rq EXCEPT ![p] = Append(@, t)]

(* The queue get_top_thread takes its thread from, if any has one. *)
Candidates(rq, bm) == {p \in bm : rq[p] # <<>>}
(* Mutant: the lowest bit of the bitmap where the highest is meant. *)
TopQueue_Lowest(rq, bm) ==
  CHOOSE p \in Candidates(rq, bm) : \A r \in Candidates(rq, bm) : p <= r

TopQueue(rq, bm) ==
  CHOOSE p \in Candidates(rq, bm) : \A r \in Candidates(rq, bm) : r <= p

get_top_thread(rq, bm) ==
  IF Candidates(rq, bm) = {} THEN Idle ELSE Head(rq[TopQueue(rq, bm)])

(* thread_resched, entered with run queues rq, bitmap bm, thread states st *)
(* and quanta qu.  A thread that comes back from wait_queue_block cancels  *)
(* its timer before the lock is released.                                  *)
thread_resched(rq, bm, st, qu, tm) ==
  LET new == get_top_thread(rq, bm)
      top == TopQueue(rq, bm)
  IN  /\ current' = new
      /\ state' = [st EXCEPT ![new] = "RUNNING"]
      /\ IF new = Idle
         THEN /\ run_queue' = rq
              /\ bitmap' = bm
              /\ quantum' = qu
              /\ timer' = tm
         ELSE /\ run_queue' = [rq EXCEPT ![top] = Tail(@)]
              /\ bitmap' = IF Tail(rq[top]) = <<>> THEN bm \ {top} ELSE bm
              /\ quantum' = IF new # current /\ qu[new] <= 0
                            THEN [qu EXCEPT ![new] = InitialQuantum]
                            ELSE qu
              /\ timer' = [tm EXCEPT ![new] = "none"]
-----------------------------------------------------------------------------
(* The idle thread (thread_become_idle) has yielded to the one thread that *)
(* kmain resumed; the others are created and not resumed.                  *)
Init ==
  /\ \E boot \in Threads :
       /\ current = boot
       /\ state = [t \in Threads \cup {Idle} |-> CASE t = boot -> "RUNNING"
                                                 [] t = Idle -> "READY"
                                                 [] OTHER    -> "SUSPENDED"]
       /\ quantum = [t \in Threads |-> IF t = boot THEN InitialQuantum ELSE 0]
  /\ priority = [t \in Threads |-> DEFAULT_PRIORITY]
  /\ run_queue = [p \in Priorities |-> <<>>]
  /\ bitmap = {}
  /\ yielding = {}
  /\ wait_list = [q \in Queues |-> <<>>]
  /\ wait_count = [q \in Queues |-> 0]
  /\ blocked_on = [t \in Threads |-> NoQueue]
  /\ block_ret = [t \in Threads |-> "NO_ERROR"]
  /\ timer = [t \in Threads |-> "none"]
  /\ irq = "none"
  /\ resched = FALSE
  /\ waking = NotWaking

(* t executes in thread context, outside THREAD_LOCK. *)
Executing(t) == t = current /\ irq = "none" /\ waking = NotWaking

(* ... and is not about to yield at the end of thread_resume. *)
Calls(t) == Executing(t) /\ t \notin yielding

(* thread_resume of s, up to THREAD_UNLOCK. *)
thread_resume(t, s) ==
  /\ Calls(t)
  /\ state[s] = "SUSPENDED"
  /\ state' = [state EXCEPT ![s] = "READY"]
  /\ run_queue' = InsertHead(run_queue, s, priority[s])
  /\ bitmap' = bitmap \cup {priority[s]}
  /\ yielding' = yielding \cup {t}
  /\ UNCHANGED <<priority, quantum, current, waitvars, timer, irq, resched, waking>>

thread_yield(t) ==
  /\ Executing(t)
  /\ yielding' = yielding \ {t}
  /\ thread_resched(InsertTail(run_queue, t, priority[t]), bitmap \cup {priority[t]},
                    [state EXCEPT ![t] = "READY"], [quantum EXCEPT ![t] = 0], timer)
  /\ UNCHANGED <<priority, waitvars, irq, resched, waking>>

(* Mutant: a preempted thread goes to the head whatever its quantum. *)
thread_preempt_AlwaysHead(qu) ==
  /\ \/ /\ current = Idle
        /\ thread_resched(run_queue, bitmap, [state EXCEPT ![Idle] = "READY"], qu, timer)
     \/ /\ current # Idle
        /\ thread_resched(InsertHead(run_queue, current, priority[current]),
                          bitmap \cup {priority[current]},
                          [state EXCEPT ![current] = "READY"], qu, timer)
  /\ UNCHANGED <<priority, yielding, waitvars, waking>>

(* The end of an interrupt whose handlers asked for a reschedule, with the *)
(* quanta qu the tick has left.                                            *)
thread_preempt(qu) ==
  /\ \/ /\ current = Idle
        /\ thread_resched(run_queue, bitmap, [state EXCEPT ![Idle] = "READY"], qu, timer)
     \/ /\ current # Idle
        /\ LET Insert(rq, t, p) == IF qu[t] > 0 THEN InsertHead(rq, t, p) ELSE InsertTail(rq, t, p)
           IN  thread_resched(Insert(run_queue, current, priority[current]),
                              bitmap \cup {priority[current]},
                              [state EXCEPT ![current] = "READY"], qu, timer)
  /\ UNCHANGED <<priority, yielding, waitvars, waking>>

thread_sleep(t) ==
  /\ Calls(t)
  /\ thread_resched(run_queue, bitmap, [state EXCEPT ![t] = "SLEEPING"], quantum,
                    [timer EXCEPT ![t] = "sleep"])
  /\ UNCHANGED <<priority, yielding, waitvars, irq, resched, waking>>

(* thread_exit of a detached thread. *)
thread_exit(t) ==
  /\ Calls(t)
  /\ thread_resched(run_queue, bitmap, [state EXCEPT ![t] = "DEATH"], quantum, timer)
  /\ UNCHANGED <<priority, yielding, waitvars, irq, resched, waking>>

Clamp(p) ==
  IF p <= IDLE_PRIORITY THEN IDLE_PRIORITY + 1
  ELSE IF p > HIGHEST_PRIORITY THEN HIGHEST_PRIORITY ELSE p

thread_set_priority(t, p) ==
  /\ Calls(t)
  /\ priority' = [priority EXCEPT ![t] = Clamp(p)]
  /\ thread_resched(InsertHead(run_queue, t, Clamp(p)), bitmap \cup {Clamp(p)},
                    [state EXCEPT ![t] = "READY"], quantum, timer)
  /\ UNCHANGED <<yielding, waitvars, irq, resched, waking>>
-----------------------------------------------------------------------------
(* wait_queue_block with a non-zero timeout. *)
wait_queue_block(t, q, timeout) ==
  /\ Calls(t)
  /\ wait_list' = [wait_list EXCEPT ![q] = Append(@, t)]
  /\ wait_count' = [wait_count EXCEPT ![q] = @ + 1]
  /\ blocked_on' = [blocked_on EXCEPT ![t] = q]
  /\ block_ret' = [block_ret EXCEPT ![t] = "NO_ERROR"]
  /\ thread_resched(run_queue, bitmap, [state EXCEPT ![t] = "BLOCKED"], quantum,
                    [timer EXCEPT ![t] = IF timeout = "finite" THEN "wait" ELSE "none"])
  /\ UNCHANGED <<priority, yielding, irq, resched, waking>>

(* The head of queue q leaves it with status NO_ERROR. *)
PopWaiter(q) ==
  LET w == Head(wait_list[q])
  IN  /\ wait_list' = [wait_list EXCEPT ![q] = Tail(@)]
      /\ wait_count' = [wait_count EXCEPT ![q] = @ - 1]
      /\ blocked_on' = [blocked_on EXCEPT ![w] = NoQueue]
      /\ block_ret' = [block_ret EXCEPT ![w] = "NO_ERROR"]

(* wait_queue_wake_one on a queue with a waiter; on an empty one it does   *)
(* nothing.                                                                *)
wait_queue_wake_one(t, q, reschedule) ==
  /\ Calls(t)
  /\ wait_list[q] # <<>>
  /\ PopWaiter(q)
  /\ LET w == Head(wait_list[q])
     IN IF reschedule
        THEN thread_resched(
               InsertHead(InsertHead(run_queue, t, priority[t]), w, priority[w]),
               bitmap \cup {priority[t], priority[w]},
               [state EXCEPT ![t] = "READY", ![w] = "READY"], quantum, timer)
        ELSE /\ run_queue' = InsertHead(run_queue, w, priority[w])
             /\ bitmap' = bitmap \cup {priority[w]}
             /\ state' = [state EXCEPT ![w] = "READY"]
             /\ UNCHANGED <<quantum, current, timer>>
  /\ UNCHANGED <<priority, yielding, irq, resched, waking>>

(* Mutant: the caller is queued again even if there is nobody to wake. *)
wait_queue_wake_all_AlwaysYields(t, q, reschedule) ==
  /\ Calls(t)
  /\ waking' = [queue |-> q, reschedule |-> reschedule, woken |-> 0]
  /\ IF reschedule
     THEN /\ state' = [state EXCEPT ![t] = "READY"]
          /\ run_queue' = InsertHead(run_queue, t, priority[t])
          /\ bitmap' = bitmap \cup {priority[t]}
     ELSE UNCHANGED <<state, runvars>>
  /\ UNCHANGED <<priority, quantum, current, yielding, waitvars, timer, irq, resched>>

(* wait_queue_wake_all, called by a thread: up to the loop. *)
wait_queue_wake_all(t, q, reschedule) ==
  /\ Calls(t)
  /\ waking' = [queue |-> q, reschedule |-> reschedule, woken |-> 0]
  /\ IF reschedule /\ wait_count[q] > 0
     THEN /\ state' = [state EXCEPT ![t] = "READY"]
          /\ run_queue' = InsertHead(run_queue, t, priority[t])
          /\ bitmap' = bitmap \cup {priority[t]}
     ELSE UNCHANGED <<state, runvars>>
  /\ UNCHANGED <<priority, quantum, current, yielding, waitvars, timer, irq, resched>>

(* ... one iteration of its loop ... *)
wake_all_iteration ==
  /\ waking # NotWaking
  /\ wait_list[waking.queue] # <<>>
  /\ PopWaiter(waking.queue)
  /\ LET w == Head(wait_list[waking.queue])
     IN /\ state' = [state EXCEPT ![w] = "READY"]
        /\ run_queue' = InsertHead(run_queue, w, priority[w])
        /\ bitmap' = bitmap \cup {priority[w]}
  /\ waking' = [waking EXCEPT !.woken = @ + 1]
  /\ UNCHANGED <<priority, quantum, current, yielding, timer, irq, resched>>

(* ... and its end.  vsync_interrupt asks for a reschedule if it woke a    *)
(* thread.                                                                 *)
wake_all_end ==
  /\ waking # NotWaking
  /\ wait_list[waking.queue] = <<>>
  /\ waking' = NotWaking
  /\ resched' = (resched \/ (irq # "none" /\ waking.woken > 0))
  /\ IF waking.woken > 0 /\ waking.reschedule
     THEN thread_resched(run_queue, bitmap, state, quantum, timer)
     ELSE UNCHANGED <<state, quantum, runvars, current, timer>>
  /\ UNCHANGED <<priority, yielding, waitvars, irq>>
-----------------------------------------------------------------------------
(* Interrupts.  A device interrupt wakes the threads of one queue, as      *)
(* vsync_interrupt does.                                                   *)
device_interrupt(q) ==
  /\ Executing(current)
  /\ irq' = "device"
  /\ waking' = [queue |-> q, reschedule |-> FALSE, woken |-> 0]
  /\ UNCHANGED <<state, priority, quantum, runvars, current, yielding, waitvars,
                 timer, resched>>

timer_interrupt ==
  /\ Executing(current)
  /\ irq' = "timer"
  /\ UNCHANGED <<state, priority, quantum, runvars, current, yielding, waitvars,
                 timer, resched, waking>>

(* t is made READY by a timer callback, which asks for a reschedule. *)
WakeFromTimer(t) ==
  /\ state' = [state EXCEPT ![t] = "READY"]
  /\ run_queue' = InsertHead(run_queue, t, priority[t])
  /\ bitmap' = bitmap \cup {priority[t]}
  /\ resched' = TRUE

thread_sleep_handler(t) ==
  /\ irq = "timer"
  /\ timer[t] = "sleep"
  /\ timer' = [timer EXCEPT ![t] = "none"]
  /\ WakeFromTimer(t)
  /\ UNCHANGED <<priority, quantum, current, yielding, waitvars, irq, waking>>

(* s without the thread t, which is in it: list_delete of its queue_node. *)
Without(s, t) ==
  LET i == CHOOSE k \in DOMAIN s : s[k] = t
  IN  [j \in 1 .. Len(s) - 1 |-> IF j < i THEN s[j] ELSE s[j + 1]]

wait_queue_timeout_handler(t) ==
  /\ irq = "timer"
  /\ timer[t] = "wait"
  /\ timer' = [timer EXCEPT ![t] = "none"]
  /\ IF state[t] # "BLOCKED"     \* ERR_NOT_BLOCKED
     THEN UNCHANGED <<state, runvars, waitvars, resched>>
     ELSE /\ WakeFromTimer(t)
          /\ wait_list' = [wait_list EXCEPT ![blocked_on[t]] = Without(@, t)]
          /\ wait_count' = [wait_count EXCEPT ![blocked_on[t]] = @ - 1]
          /\ blocked_on' = [blocked_on EXCEPT ![t] = NoQueue]
          /\ block_ret' = [block_ret EXCEPT ![t] = "ERR_TIMED_OUT"]
  /\ UNCHANGED <<priority, quantum, current, yielding, irq, waking>>

(* The quanta after thread_timer_tick and whether it asks for a            *)
(* reschedule.  A thread that runs alone is never given a new quantum and  *)
(* counts down for ever; every test is "<= 0" or "> 0", so a used quantum  *)
(* is kept at 0.                                                           *)
Tick ==
  IF irq = "timer" /\ current # Idle /\ quantum[current] > 0
  THEN [quantum EXCEPT ![current] = @ - 1]
  ELSE quantum
QuantumUsed == irq = "timer" /\ current # Idle /\ Tick[current] <= 0

(* The end of either interrupt: thread_timer_tick for the timer's, then    *)
(* thread_preempt if a handler asked for it.                               *)
interrupt_return ==
  /\ irq # "none"
  /\ waking = NotWaking
  /\ irq' = "none"
  /\ resched' = FALSE
  /\ \/ /\ resched \/ QuantumUsed
        /\ thread_preempt(Tick)
     \/ /\ ~(resched \/ QuantumUsed)
        /\ quantum' = Tick
        /\ UNCHANGED <<state, priority, runvars, current, yielding, waitvars, timer, waking>>
-----------------------------------------------------------------------------
ThreadStep(t) ==
  \/ \E s \in Threads : thread_resume(t, s)
  \/ thread_yield(t)
  \/ thread_sleep(t)
  \/ thread_exit(t)
  \/ \E p \in SettablePriorities : thread_set_priority(t, p)
  \/ \E q \in Queues :
       \/ \E timeout \in {"finite", "infinite"} : wait_queue_block(t, q, timeout)
       \/ \E reschedule \in BOOLEAN : wait_queue_wake_one(t, q, reschedule)
       \/ \E reschedule \in BOOLEAN : wait_queue_wake_all(t, q, reschedule)

InterruptStep ==
  \/ timer_interrupt
  \/ \E t \in Threads : thread_sleep_handler(t) \/ wait_queue_timeout_handler(t)
  \/ \E q \in Queues : device_interrupt(q)
  \/ interrupt_return

Next ==
  \/ \E t \in Threads : ThreadStep(t)
  \/ wake_all_iteration
  \/ wake_all_end
  \/ InterruptStep

Spec == Init /\ [][Next]_vars

(* The tick is periodic and stays pending while interrupts are disabled;   *)
(* code under THREAD_LOCK and interrupt handlers run to their end.         *)
Fairness ==
  /\ SF_vars(timer_interrupt)
  /\ WF_vars(wake_all_iteration \/ wake_all_end \/ interrupt_return)

FairSpec == Spec /\ Fairness
-----------------------------------------------------------------------------
Occurrences(s, t) == Cardinality({i \in DOMAIN s : s[i] = t})

(* Types of the scheduler's state. *)
TypeOK ==
  /\ state \in [Threads \cup {Idle} -> ThreadState]
  /\ priority \in [Threads -> Priorities \ {IDLE_PRIORITY}]
  /\ quantum \in [Threads -> 0 .. InitialQuantum]
  /\ run_queue \in [Priorities -> Seq(Threads)]
  /\ bitmap \in SUBSET Priorities
  /\ current \in Threads \cup {Idle}
  /\ yielding \in SUBSET Threads
  /\ wait_list \in [Queues -> Seq(Threads)]
  /\ wait_count \in [Queues -> Nat]
  /\ blocked_on \in [Threads -> Queues \cup {NoQueue}]
  /\ block_ret \in [Threads -> Status]
  /\ timer \in [Threads -> {"none", "sleep", "wait"}]
  /\ irq \in {"none", "timer", "device"}
  /\ resched \in BOOLEAN
  /\ waking \in [queue : Queues \cup {NoQueue}, reschedule : BOOLEAN, woken : Nat]

(* A READY thread is in the run queue of its priority, once, and in no     *)
(* other; no other thread is in a run queue.  (The assertions of           *)
(* insert_in_run_queue_head and _tail, and the queue_node being shared     *)
(* between run queues and wait queues.)                                    *)
ReadyThreadsQueued ==
  \A t \in Threads, p \in Priorities :
    Occurrences(run_queue[p], t) =
      IF state[t] = "READY" /\ priority[t] = p THEN 1 ELSE 0

(* A BLOCKED thread is in the wait queue it points to, once, and in no     *)
(* other; every count is the length of its list (wait_queue_wake_all       *)
(* decides by the count and loops by the list).                            *)
BlockedThreadsQueued ==
  /\ \A t \in Threads, q \in Queues :
       Occurrences(wait_list[q], t) =
         IF state[t] = "BLOCKED" /\ blocked_on[t] = q THEN 1 ELSE 0
  /\ \A t \in Threads : state[t] = "BLOCKED" <=> blocked_on[t] # NoQueue
  /\ \A q \in Queues : wait_count[q] = Len(wait_list[q])

(* run_queue_bitmap tells exactly which run queues have a thread. *)
BitmapExact == \A p \in Priorities : p \in bitmap <=> run_queue[p] # <<>>

(* One thread is RUNNING, the current one, except inside a                 *)
(* wait_queue_wake_all that has already queued it again.                   *)
OneRunning ==
  \A t \in Threads \cup {Idle} :
    state[t] = "RUNNING" <=>
      /\ t = current
      /\ ~(waking # NotWaking /\ waking.reschedule /\
           waking.woken + wait_count[waking.queue] > 0)

(* A sleep timer belongs to a SLEEPING thread (the assertion of            *)
(* thread_sleep_handler) and a sleeper has one; a wait timer, which lives  *)
(* on its thread's stack, belongs to a thread still in wait_queue_block.   *)
TimersOwned ==
  \A t \in Threads :
    /\ timer[t] = "sleep" <=> state[t] = "SLEEPING"
    /\ timer[t] = "wait" => state[t] \in {"BLOCKED", "READY"}

(* The scheduler's data agree: states, run queues, bitmap, wait queues,    *)
(* the running thread and the timers, between any two steps of the kernel. *)
SchedInv ==
  /\ TypeOK
  /\ ReadyThreadsQueued
  /\ BlockedThreadsQueued
  /\ BitmapExact
  /\ OneRunning
  /\ TimersOwned

(* Whatever a switch found in the queues, the thread it switched to has    *)
(* the highest priority of all that are READY.                             *)
DispatchesHighest ==
  [][current' # current =>
       \A t \in Threads : state'[t] = "READY" =>
          current' # Idle /\ priority'[t] <= priority'[current']]_vars

(* Nobody stays READY for ever unless threads of higher priority keep      *)
(* being runnable: ticks take the processor from whoever uses up its       *)
(* quantum, although threads that wake are put at the head of the queue.   *)
NoStarvation ==
  \A t \in Threads :
    []<>(\/ state[t] # "READY"
         \/ \E u \in Threads : priority[u] > priority[t] /\ state[u] \in {"READY", "RUNNING"})
=============================================================================
