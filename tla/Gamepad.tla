------------------------------- MODULE Gamepad -------------------------------
(***************************************************************************)
(* external/lib/gamepad on top of external/lib/vsync: a thread polls the   *)
(* pad once per frame, works out which keys changed and wakes the threads  *)
(* in gamepad_read.                                                        *)
(*                                                                         *)
(* Key words are sets of keys that are down (TO_KEYS turns the hardware's  *)
(* active-low word around).  Each section under gamepad_mutex is one step. *)
(* A reader may join its queue in the middle of gamepad_poll's section,    *)
(* without the mutex; its queue has then been woken already, or will be,   *)
(* and the reader blocks after the step or before it.                      *)
(*                                                                         *)
(* Of on_press_keys, on_release_keys and on_hold_keys those that some      *)
(* reader asks for are kept, and a local variable is emptied after its     *)
(* last use.                                                               *)
(***************************************************************************)
EXTENDS Integers, FiniteSets

CONSTANTS
  Keys,        (* the keys of KEY_MASK                                    *)
  Readers,     (* the threads that call gamepad_read                      *)
  Trigger      (* the trigger each of them passes: press, release, hold   *)

ASSUME GamepadAssumption ==
  /\ IsFiniteSet(Keys)
  /\ Trigger \in [Readers -> {"press", "release", "hold"}]

Triggers == {Trigger[r] : r \in Readers}

VARIABLES
  prev_keys,   (* prev_keys: what the last successful poll saw            *)
  edges,       (* on_press_keys, on_release_keys and on_hold_keys         *)
  poll_pc,     (* gamepad_poll: "read", "update" or "vsync" (vsync_wait)  *)
  poll_keys,   (* its local variable keys                                 *)
  reader,      (* gamepad_read: "out", "blocked" in its wait queue, or    *)
               (* "woken" and not yet past gamepad_mutex                  *)
  since,       (* history: the edges each reader's trigger has seen since *)
               (* the reader blocked                                      *)
  late         (* history: woken readers that a further poll has overtaken *)

padvars == <<prev_keys, edges, poll_pc, poll_keys, reader, since, late>>

PadInit ==
  /\ prev_keys = {}
  /\ edges = [g \in Triggers |-> {}]
  /\ poll_pc = "read"
  /\ poll_keys = {}
  /\ reader = [r \in Readers |-> "out"]
  /\ since = [r \in Readers |-> {}]
  /\ late = {}

(* syscon_get_digital_key, which may fail: the keys that the user holds    *)
(* down just then.                                                         *)
poll_read ==
  /\ poll_pc = "read"
  /\ \/ poll_keys' \in SUBSET Keys /\ poll_pc' = "update"
     \/ poll_pc' = "vsync" /\ UNCHANGED poll_keys
  /\ UNCHANGED <<prev_keys, edges, reader, since, late>>

Edge(g, now, before) ==
  CASE g = "press"   -> now \ before
    [] g = "release" -> before \ now
    [] g = "hold"    -> now \cap before

(* The section of gamepad_poll under gamepad_mutex, then vsync_wait. *)
poll_update ==
  /\ poll_pc = "update"
  /\ edges' = [g \in Triggers |-> Edge(g, poll_keys, prev_keys)]
  /\ prev_keys' = poll_keys
  /\ reader' = [r \in Readers |->
                  IF reader[r] = "blocked" /\ edges'[Trigger[r]] # {}
                  THEN "woken" ELSE reader[r]]
  /\ since' = [r \in Readers |->
                 IF reader[r] = "out" THEN {} ELSE since[r] \cup edges'[Trigger[r]]]
  /\ late' = late \cup {r \in Readers : reader[r] = "woken"}
  /\ poll_pc' = "vsync"
  /\ poll_keys' = {}

vsync_interrupt ==
  /\ poll_pc = "vsync"
  /\ poll_pc' = "read"
  /\ UNCHANGED <<prev_keys, edges, poll_keys, reader, since, late>>

(* Mutant: keys that are there already are returned without waiting. *)
gamepad_read_NoWait(r) ==
  /\ reader[r] = "out"
  /\ reader' = [reader EXCEPT ![r] = IF edges[Trigger[r]] # {} THEN "woken" ELSE "blocked"]
  /\ UNCHANGED <<prev_keys, edges, poll_pc, poll_keys, since, late>>

(* gamepad_read up to wait_queue_block: it blocks whatever has happened    *)
(* before.                                                                 *)
gamepad_read(r) ==
  /\ reader[r] = "out"
  /\ reader' = [reader EXCEPT ![r] = "blocked"]
  /\ UNCHANGED <<prev_keys, edges, poll_pc, poll_keys, since, late>>

(* ... and from there: what it returns is whatever the last poll left.     *)
gamepad_read_returns(r) ==
  /\ reader[r] = "woken"
  /\ reader' = [reader EXCEPT ![r] = "out"]
  /\ since' = [since EXCEPT ![r] = {}]
  /\ late' = late \ {r}
  /\ UNCHANGED <<prev_keys, edges, poll_pc, poll_keys>>

(* The keys it returns. *)
Read(r) == edges[Trigger[r]]

PollStep == poll_read \/ poll_update \/ vsync_interrupt

PadNext ==
  \/ PollStep
  \/ \E r \in Readers : gamepad_read(r) \/ gamepad_read_returns(r)

PadSpec == PadInit /\ [][PadNext]_padvars
-----------------------------------------------------------------------------
(* Types of the gamepad's state. *)
PadTypeOK ==
  /\ prev_keys \in SUBSET Keys
  /\ edges \in [Triggers -> SUBSET Keys]
  /\ poll_pc \in {"read", "update", "vsync"}
  /\ poll_keys \in SUBSET Keys
  /\ reader \in [Readers -> {"out", "blocked", "woken"}]
  /\ since \in [Readers -> SUBSET Keys]
  /\ late \in SUBSET Readers

(* What gamepad_read is about to return are edges that gamepad_poll has    *)
(* stored since the call blocked, although the value is not kept per       *)
(* reader: none that was stored before a call is ever returned by it.  The *)
(* keys may have been read from the controller just before it.             *)
ReadsAreFresh == \A r \in Readers : reader[r] = "woken" => Read(r) \subseteq since[r]

(* A woken reader that runs before the next poll, which empties            *)
(* on_press_keys, is told of at least one key.                             *)
ReadsAreNotEmpty ==
  \A r \in Readers \ late : reader[r] = "woken" => Read(r) # {}

(* A call of gamepad_read returns edges stored in its own time. *)
PadInv == PadTypeOK /\ ReadsAreFresh /\ ReadsAreNotEmpty
=============================================================================
