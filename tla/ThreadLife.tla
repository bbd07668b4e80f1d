----------------------------- MODULE ThreadLife -----------------------------
(***************************************************************************)
(* The life of one thread in kernel/thread.c: created suspended, resumed,  *)
(* detached or joined by others, dead, and torn down by exactly one of     *)
(* itself, a joiner or a detacher.  The callers are the Threads; the wait  *)
(* queue is the thread's retcode_wait_queue.                               *)
(*                                                                         *)
(* A caller may start a call while the thread's magic is intact; what it   *)
(* finds when it comes back from a wait, or between the two critical       *)
(* sections of thread_detach, is up to the others.                         *)
(***************************************************************************)
EXTENDS WaitQueue

CONSTANT JoinTimeouts   (* the classes of timeout passed to thread_join *)

ASSUME ThreadLifeAssumption == JoinTimeouts \subseteq Timeout

VARIABLES
  th_state,     (* "none" before thread_create; t->state, with "READY" for *)
                (* everything between THREAD_SUSPENDED and THREAD_DEATH   *)
  th_magic,     (* t->magic = THREAD_MAGIC: not torn down                 *)
  th_detached,  (* t->flags & THREAD_FLAG_DETACHED                        *)
  th_pc,        (* caller: "out", "join" inside wait_queue_block,         *)
                (* "reap" in thread_detach before it calls thread_join    *)
  touched,      (* history: callers that came back to a torn-down thread  *)
  contested     (* history: the dead thread was due to two callers at     *)
                (* once                                                   *)

thvars == <<th_state, th_magic, th_detached, th_pc, touched, contested>>

ThreadLifeInit ==
  /\ th_state = "none"
  /\ th_magic = FALSE
  /\ th_detached = FALSE
  /\ th_pc = [t \in Threads |-> "out"]
  /\ touched = {}
  /\ contested = FALSE

(* Callers told, or about to find out, that the thread is theirs to tear   *)
(* down.                                                                   *)
Due ==
  {t \in Threads : \/ th_pc[t] = "reap"
                   \/ th_pc[t] = "join" /\ tstate[t] = "READY" /\ block_ret[t] = NO_ERROR}

thread_create ==
  /\ th_state = "none"
  /\ th_state' = "SUSPENDED"
  /\ th_magic' = TRUE
  /\ th_detached' = FALSE
  /\ UNCHANGED <<wqvars, th_pc, touched, contested>>

thread_resume ==
  /\ th_magic
  /\ th_state = "SUSPENDED"
  /\ th_state' = "READY"
  /\ UNCHANGED <<wqvars, th_magic, th_detached, th_pc, touched, contested>>

(* The end of thread_join: the thread is dead, and caller t tears it down. *)
(* With the magic gone already the code's assertion fails and the list     *)
(* node and the memory are released a second time.                         *)
Reap(t) ==
  /\ th_magic' = FALSE
  /\ touched' = IF th_magic THEN touched ELSE touched \cup {t}
  /\ contested' = (contested \/ Due \ {t} # {})
  /\ th_pc' = [th_pc EXCEPT ![t] = "out"]
  /\ UNCHANGED <<th_state, th_detached>>

(* thread_join up to where it returns or blocks; a detached thread is      *)
(* ERR_THREAD_DETACHED, and timeout ZERO on a live one ERR_TIMED_OUT.      *)
thread_join(t, timeout) ==
  /\ th_magic
  /\ th_pc[t] = "out"
  /\ ~th_detached
  /\ \/ th_state = "DEATH" /\ Reap(t) /\ UNCHANGED wqvars
     \/ /\ th_state # "DEATH"
        /\ timeout # ZERO
        /\ wait_queue_block(t, timeout)
        /\ th_pc' = [th_pc EXCEPT ![t] = "join"]
        /\ UNCHANGED <<th_state, th_magic, th_detached, touched, contested>>

(* ... and from the return of wait_queue_block. *)
thread_join_returns(t) ==
  /\ th_pc[t] = "join"
  /\ wait_queue_block_returns(t)
  /\ IF block_ret[t] = NO_ERROR
     THEN Reap(t)
     ELSE /\ th_pc' = [th_pc EXCEPT ![t] = "out"]
          /\ UNCHANGED <<th_state, th_magic, th_detached, touched, contested>>

(* Who is blocked in thread_join gets ERR_THREAD_DETACHED.  A dead thread  *)
(* is torn down by a thread_join of its own, after the lock was released.  *)
thread_detach(t) ==
  /\ th_magic
  /\ th_pc[t] = "out"
  /\ wait_queue_wake_all(ERR_THREAD_DETACHED)
  /\ th_detached' = (th_state # "DEATH")
  /\ th_pc' = [th_pc EXCEPT ![t] = IF th_state = "DEATH" THEN "reap" ELSE "out"]
  /\ contested' = (contested \/ (th_state = "DEATH" /\ Due # {}))
  /\ UNCHANGED <<th_state, th_magic, touched>>

thread_detach_reaps(t) ==
  /\ th_pc[t] = "reap"
  /\ Reap(t)
  /\ UNCHANGED wqvars

(* Mutant: the thread is torn down although somebody may join it. *)
thread_exit_AlwaysFrees ==
  /\ th_magic
  /\ th_state = "READY"
  /\ th_state' = "DEATH"
  /\ th_magic' = FALSE
  /\ wait_queue_wake_all(NO_ERROR)
  /\ contested' = (contested \/ Cardinality(Waiting) > 1)
  /\ UNCHANGED <<th_detached, th_pc, touched>>

(* Mutant: the teardown of a detached thread is left out. *)
thread_exit_KeepsDetached ==
  /\ th_magic
  /\ th_state = "READY"
  /\ th_state' = "DEATH"
  /\ IF th_detached THEN UNCHANGED <<wqvars, contested>>
     ELSE /\ wait_queue_wake_all(NO_ERROR)
          /\ contested' = (contested \/ Cardinality(Waiting) > 1)
  /\ UNCHANGED <<th_magic, th_detached, th_pc, touched>>

(* The thread itself: torn down here if it is detached, otherwise every    *)
(* joiner is told.                                                         *)
thread_exit ==
  /\ th_magic
  /\ th_state = "READY"
  /\ th_state' = "DEATH"
  /\ \/ /\ th_detached
        /\ th_magic' = FALSE
        /\ UNCHANGED <<wqvars, contested>>
     \/ /\ ~th_detached
        /\ wait_queue_wake_all(NO_ERROR)
        /\ contested' = (contested \/ Cardinality(Waiting) > 1)
        /\ UNCHANGED th_magic
  /\ UNCHANGED <<th_detached, th_pc, touched>>

join_timeout_interrupt(t) ==
  /\ wait_queue_timeout_handler(t)
  /\ UNCHANGED thvars

ThreadLifeNext ==
  \/ thread_create
  \/ thread_resume
  \/ thread_exit
  \/ \E t \in Threads :
       \/ \E timeout \in JoinTimeouts : thread_join(t, timeout)
       \/ thread_join_returns(t)
       \/ thread_detach(t)
       \/ thread_detach_reaps(t)
       \/ join_timeout_interrupt(t)

ThreadLifeSpec ==
  WaitQueueInit /\ ThreadLifeInit /\ [][ThreadLifeNext]_<<wqvars, thvars>>
-----------------------------------------------------------------------------
(* Types of the thread's life. *)
ThreadLifeTypeOK ==
  /\ th_state \in {"none", "SUSPENDED", "READY", "DEATH"}
  /\ th_magic \in BOOLEAN
  /\ th_detached \in BOOLEAN
  /\ th_pc \in [Threads -> {"out", "join", "reap"}]
  /\ touched \in SUBSET Threads
  /\ contested \in BOOLEAN

(* As long as a dead thread is due to one caller only, it is torn down     *)
(* once, and nobody comes back from a wait to a torn-down one: the         *)
(* assertion on the magic after the wait in thread_join holds.  It fails   *)
(* when two joiners wait for the same thread, or when thread_detach meets  *)
(* a joiner that the exit has woken and that has not run.                  *)
TornDownOnce == ~contested => touched = {}

(* No joiner is left behind: nobody is queued on a thread that is dead or  *)
(* detached, and one that is due its return finds the thread dead.         *)
JoinersReleased ==
  /\ th_state = "DEATH" \/ th_detached => Waiting = {}
  /\ Due # {} => th_state = "DEATH"

(* thread_exit, thread_join and thread_detach agree on who tears the       *)
(* thread down, and no joiner is left behind.                              *)
ThreadLifeInv == ThreadLifeTypeOK /\ TornDownOnce /\ JoinersReleased

(* A detached thread, and one that somebody joins, does not stay around    *)
(* once it is dead.                                                        *)
DeadIsTornDown ==
  (th_state = "DEATH" /\ (th_detached \/ Due # {})) ~> ~th_magic
=============================================================================
