-------------------------------- MODULE EvFlag --------------------------------
(***************************************************************************)
(* external/lib/evflag: a word of flags that threads raise and wait for.   *)
(* evflag_raise wakes every waiter; each looks again and goes back to the  *)
(* queue if its pattern does not match.                                    *)
(***************************************************************************)
EXTENDS WaitQueue

CONSTANTS
  Flags,       (* the bits of the word                                    *)
  Requests,    (* the arguments waiters pass: records with fields pattern, *)
               (* mode ("OR" or "AND"), autoclear and timeout             *)
  MaxRaises    (* bound: calls of evflag_raise                            *)

ASSUME EvFlagAssumption ==
  /\ IsFiniteSet(Flags)
  /\ MaxRaises \in Nat
  /\ Requests # {}
  /\ Requests \subseteq [pattern : SUBSET Flags, mode : {"OR", "AND"},
                         autoclear : BOOLEAN, timeout : Timeout]

VARIABLES
  fl_life,    (* "none" before evflag_init, "live", "destroyed": the magic *)
              (* is EVENT_FLAG_MAGIC when "live"                          *)
  bits,       (* e->bits                                                  *)
  fl_pc,      (* "out", or "block" inside wait_queue_block                *)
  req,        (* the request of each blocked thread, of no meaning for    *)
              (* the others                                               *)
  raises,     (* history: how often each flag was raised                  *)
  consumed    (* history: how often each flag was given to a waiter that  *)
              (* asked for it to be cleared                              *)

flagvars == <<fl_life, bits, fl_pc, req, raises, consumed>>

check_pattern(b, pattern, mode) ==
  CASE mode = "AND" -> (b \cap pattern) = b
    [] mode = "OR"  -> (b \cap pattern) # {}

clear_pattern(b, pattern) == b \ pattern

NoRequest == CHOOSE r \in Requests : TRUE

FlagInit ==
  /\ fl_life = "none"
  /\ bits = {}
  /\ fl_pc = [t \in Threads |-> "out"]
  /\ req = [t \in Threads |-> NoRequest]
  /\ raises = [f \in Flags |-> 0]
  /\ consumed = [f \in Flags |-> 0]

evflag_init ==
  /\ fl_life = "none"
  /\ fl_life' = "live"
  /\ bits' = {}
  /\ UNCHANGED <<wqvars, fl_pc, req, raises, consumed>>

(* One turn of the loop of evflag_wait_timeout for request r: the pattern  *)
(* matches and the wait is over ...                                        *)
Matched(t, r) ==
  /\ check_pattern(bits, r.pattern, r.mode)
  /\ bits' = IF r.autoclear THEN clear_pattern(bits, r.pattern) ELSE bits
  /\ consumed' = [f \in Flags |-> consumed[f] +
                    (IF r.autoclear /\ f \in bits \cap r.pattern THEN 1 ELSE 0)]
  /\ fl_pc' = [fl_pc EXCEPT ![t] = "out"]
  /\ req' = [req EXCEPT ![t] = NoRequest]

(* ... or it does not and the thread joins the queue. *)
Unmatched(t, r) ==
  /\ ~check_pattern(bits, r.pattern, r.mode)
  /\ fl_pc' = [fl_pc EXCEPT ![t] = "block"]
  /\ req' = [req EXCEPT ![t] = r]
  /\ UNCHANGED <<bits, consumed>>

evflag_wait_timeout(t, r) ==
  /\ fl_life = "live"
  /\ fl_pc[t] = "out"
  /\ \/ Matched(t, r) /\ UNCHANGED wqvars
     \/ r.timeout # ZERO /\ Unmatched(t, r) /\ wait_queue_block(t, r.timeout)
     \/ /\ r.timeout = ZERO
        /\ ~check_pattern(bits, r.pattern, r.mode)
        /\ UNCHANGED <<wqvars, bits, fl_pc, req, consumed>>
  /\ UNCHANGED <<fl_life, raises>>

(* From the return of wait_queue_block: an error ends the wait, NO_ERROR   *)
(* is another turn, with the whole timeout again.                          *)
evflag_wait_returns(t) ==
  /\ fl_pc[t] = "block"
  /\ tstate[t] = "READY"
  /\ \/ /\ block_ret[t] # NO_ERROR
        /\ wait_queue_block_returns(t)
        /\ fl_pc' = [fl_pc EXCEPT ![t] = "out"]
        /\ req' = [req EXCEPT ![t] = NoRequest]
        /\ UNCHANGED <<bits, consumed>>
     \/ /\ block_ret[t] = NO_ERROR
        /\ Matched(t, req[t])
        /\ wait_queue_block_returns(t)
     \/ /\ block_ret[t] = NO_ERROR
        /\ Unmatched(t, req[t])
        /\ wait_queue_block(t, req[t].timeout)
  /\ UNCHANGED <<fl_life, raises>>

(* Mutant: one waiter is woken, and it may not be the one that matches. *)
evflag_raise_WakesOne(b) ==
  /\ fl_life = "live"
  /\ bits' = bits \cup b
  /\ wait_queue_wake_one(NO_ERROR)

evflag_raise(b) ==
  /\ fl_life = "live"
  /\ bits' = bits \cup b
  /\ wait_queue_wake_all(NO_ERROR)

(* evflag_raise by a thread or an interrupt handler, with the history. *)
Raise(b) ==
  /\ \A f \in b : raises[f] < MaxRaises
  /\ evflag_raise(b)
  /\ raises' = [f \in Flags |-> raises[f] + (IF f \in b THEN 1 ELSE 0)]
  /\ UNCHANGED <<fl_life, fl_pc, req, consumed>>

evflag_destroy ==
  /\ fl_life = "live"
  /\ fl_life' = "destroyed"
  /\ bits' = {}
  /\ wait_queue_destroy
  /\ UNCHANGED <<fl_pc, req, raises, consumed>>

evflag_timeout_interrupt(t) ==
  /\ wait_queue_timeout_handler(t)
  /\ UNCHANGED flagvars

FlagNext ==
  \/ evflag_init
  \/ \E b \in SUBSET Flags \ {{}} : Raise(b)
  \/ evflag_destroy
  \/ \E t \in Threads :
       \/ \E r \in Requests : evflag_wait_timeout(t, r)
       \/ evflag_wait_returns(t)
       \/ evflag_timeout_interrupt(t)

FlagSpec == WaitQueueInit /\ FlagInit /\ [][FlagNext]_<<wqvars, flagvars>>
-----------------------------------------------------------------------------
(* Types of the event flag. *)
FlagTypeOK ==
  /\ fl_life \in {"none", "live", "destroyed"}
  /\ bits \in SUBSET Flags
  /\ fl_pc \in [Threads -> {"out", "block"}]
  /\ req \in [Threads -> Requests]
  /\ raises \in [Flags -> 0 .. MaxRaises]
  /\ consumed \in [Flags -> Nat]

(* No missed wake-up: no thread stays in the queue while its pattern       *)
(* matches, however raises, matches of other threads and timeouts          *)
(* interleave.                                                             *)
NoMissedRaise ==
  fl_life # "none" =>
    \A t \in Waiting : ~check_pattern(bits, req[t].pattern, req[t].mode)

(* A raised flag is taken by one autoclearing waiter at most, although     *)
(* evflag_raise wakes all of them.                                         *)
ConsumedOnce ==
  \A f \in Flags : consumed[f] + (IF f \in bits THEN 1 ELSE 0) <= raises[f]

(* No raise is missed and none is taken twice (evflag_raise against        *)
(* evflag_wait_timeout and its autoclear).                                 *)
FlagInv == FlagTypeOK /\ NoMissedRaise /\ ConsumedOnce
=============================================================================
