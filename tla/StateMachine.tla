----------------------------- MODULE StateMachine -----------------------------
(***************************************************************************)
(* app/aiseirigh/statemachine.c with the states of app/aiseirigh/states,   *)
(* fed by the gamepad.  Two threads share the machine: the one in          *)
(* statemachine_start, which runs every handler, and on_press, which turns *)
(* key presses into the flag SM_ON_PRESS.                                  *)
(*                                                                         *)
(* Each section under machine->mutex is one step.  The state-machine       *)
(* thread is the only one that waits for the event flag, so its            *)
(* evflag_wait is a step enabled when a flag is up (module EvFlag has the  *)
(* queue).                                                                 *)
(***************************************************************************)
EXTENDS Gamepad

CONSTANTS
  OnPress,   (* the on_press thread, a reader of the gamepad              *)
  Cross,     (* SYSCON_CTRL_CROSS, a key                                  *)
  NULL       (* the NULL state pointer                                    *)

ASSUME StateMachineAssumption ==
  /\ OnPress \in Readers
  /\ Trigger[OnPress] = "press"
  /\ Cross \in Keys

(* The states whose on_enter does work and goes to the next one or, when   *)
(* the work fails, to the error state.                                     *)
Successor ==
  [s \in {"mount_ms", "check_updater", "process_psar", "partition_flash",
          "format_flash", "mount_flash", "create_directories", "flash_files"} |->
     CASE s = "mount_ms"           -> "check_updater"
       [] s = "check_updater"      -> "process_psar"
       [] s = "process_psar"       -> "partition_flash"
       [] s = "partition_flash"    -> "format_flash"
       [] s = "format_flash"       -> "mount_flash"
       [] s = "mount_flash"        -> "create_directories"
       [] s = "create_directories" -> "flash_files"
       [] s = "flash_files"        -> "finish"]

Working == DOMAIN Successor
States == Working \cup {"init", "menu", "finish", "error"}
Flashing == {"partition_flash", "format_flash", "mount_flash",
             "create_directories", "flash_files", "finish"}

ASSUME NullIsNoState == NULL \notin States

(* What each state's on_enter may ask for: a transition or nothing. *)
AfterEnter(s) ==
  CASE s = "init"      -> {"menu"}
    [] s \in Working   -> {Successor[s], "error"}
    [] OTHER           -> {NULL}

VARIABLES
  state,          (* machine->state                                       *)
  next_state,     (* machine->next_state                                  *)
  on_press_keys,  (* machine->on_press_keys                               *)
  flags,          (* machine->evflag.bits                                 *)
  main,           (* where the thread in statemachine_start is            *)
  keys,           (* on_press: its local variable keys                    *)
  press,          (* on_press: "read", "store" or "raise"                 *)
  consent         (* history: some poll has seen Cross go down            *)

smvars == <<state, next_state, on_press_keys, flags, main, keys, press, consent>>
allvars == <<padvars, smvars>>

SMInit ==
  /\ PadInit
  /\ state = NULL
  /\ next_state = NULL
  /\ on_press_keys = {}
  /\ flags = {}
  /\ main = "start"
  /\ keys = {}
  /\ press = "read"
  /\ consent = FALSE
-----------------------------------------------------------------------------
(* The thread in statemachine_start. *)

(* statemachine_transition up to the raise, from the step where main = l. *)
statemachine_transition(l, s) ==
  /\ main = l
  /\ next_state = NULL         \* the assertion: a thread stuck here has failed it
  /\ next_state' = s
  /\ main' = "raise"
  /\ UNCHANGED <<padvars, state, on_press_keys, flags, keys, press, consent>>

start == statemachine_transition("start", "init")

transition_raise ==
  /\ main = "raise"
  /\ flags' = flags \cup {"SM_TRANSITION"}
  /\ main' = IF state = NULL THEN "loop" ELSE "reset"
  /\ UNCHANGED <<padvars, state, next_state, on_press_keys, keys, press, consent>>

(* Mutant: SM_ON_PRESS is looked at first. *)
wait_flags_PressFirst ==
  /\ main = "loop"
  /\ flags # {}
  /\ flags' = {}
  /\ main' = IF "SM_ON_PRESS" \in flags THEN "key" ELSE "perform"
  /\ UNCHANGED <<padvars, state, next_state, on_press_keys, keys, press, consent>>

(* evflag_wait with AUTOCLEAR: both flags are cleared, SM_TRANSITION wins. *)
wait_flags ==
  /\ main = "loop"
  /\ flags # {}
  /\ flags' = {}
  /\ main' = IF "SM_TRANSITION" \in flags THEN "perform" ELSE "key"
  /\ UNCHANGED <<padvars, state, next_state, on_press_keys, keys, press, consent>>

(* Mutant: next_state is not cleared before on_enter. *)
perform_state_transition_NoReset ==
  /\ main = "perform"
  /\ next_state # NULL
  /\ state' = next_state
  /\ main' = "enter"
  /\ UNCHANGED <<padvars, next_state, on_press_keys, flags, keys, press, consent>>

(* perform_state_transition up to on_enter; no state has an on_exit. *)
perform_state_transition ==
  /\ main = "perform"
  /\ next_state # NULL
  /\ state' = next_state
  /\ next_state' = NULL
  /\ main' = "enter"
  /\ UNCHANGED <<padvars, on_press_keys, flags, keys, press, consent>>

on_enter ==
  \E s \in AfterEnter(state) :
    \/ s # NULL /\ statemachine_transition("enter", s)
    \/ /\ s = NULL
       /\ main = "enter"
       /\ main' = "reset"
       /\ UNCHANGED <<padvars, state, next_state, on_press_keys, flags, keys, press, consent>>

(* Mutant: the menu leaves on any key. *)
on_key_press_AnyKey ==
  \/ state = "menu" /\ statemachine_transition("key", "mount_ms")
  \/ /\ main = "key"
     /\ state # "menu"
     /\ main' = "reset"
     /\ UNCHANGED <<padvars, state, next_state, on_press_keys, flags, keys, press, consent>>

(* The handlers of the two states that have one; the others ignore keys.   *)
(* The finish state's handler resets the device.                           *)
on_key_press ==
  \/ /\ state = "menu" /\ Cross \in on_press_keys
     /\ statemachine_transition("key", "mount_ms")
  \/ /\ main = "key"
     /\ ~(state = "menu" /\ Cross \in on_press_keys)
     /\ main' = IF state = "finish" /\ Cross \in on_press_keys
                THEN "rebooted" ELSE "reset"
     /\ UNCHANGED <<padvars, state, next_state, on_press_keys, flags, keys, press, consent>>

(* on_press_keys = 0 at the end of either branch of the loop. *)
reset_keys ==
  /\ main = "reset"
  /\ on_press_keys' = {}
  /\ main' = "loop"
  /\ UNCHANGED <<padvars, state, next_state, flags, keys, press, consent>>

MainStep ==
  \/ start \/ transition_raise \/ wait_flags \/ perform_state_transition
  \/ on_enter \/ on_key_press \/ reset_keys
-----------------------------------------------------------------------------
(* The on_press thread. *)
press_read ==
  /\ press = "read"
  /\ \/ gamepad_read(OnPress) /\ UNCHANGED <<keys, press>>
     \/ /\ gamepad_read_returns(OnPress)
        /\ keys' = Read(OnPress)
        /\ press' = "store"
  /\ UNCHANGED <<state, next_state, on_press_keys, flags, main, consent>>

press_store ==
  /\ press = "store"
  /\ on_press_keys' = keys
  /\ keys' = {}
  /\ press' = "raise"
  /\ UNCHANGED <<padvars, state, next_state, flags, main, consent>>

press_raise ==
  /\ press = "raise"
  /\ flags' = flags \cup {"SM_ON_PRESS"}
  /\ press' = "read"
  /\ UNCHANGED <<padvars, state, next_state, on_press_keys, main, keys, consent>>

PressStep == press_read \/ press_store \/ press_raise

(* The poll thread. *)

poll_step ==
  /\ PollStep
  /\ consent' = (consent \/ Cross \in edges'["press"])
  /\ UNCHANGED <<state, next_state, on_press_keys, flags, main, keys, press>>

SMNext == MainStep \/ PressStep \/ poll_step

(* The handlers return, and the thread gets the processor again: all of    *)
(* the program's threads have one priority.                                *)
SMFairness == WF_allvars(MainStep)

SMSpec == SMInit /\ [][SMNext]_allvars /\ SMFairness
-----------------------------------------------------------------------------
(* Types of the machine's state. *)
SMTypeOK ==
  /\ PadTypeOK
  /\ state \in States \cup {NULL}
  /\ next_state \in States \cup {NULL}
  /\ on_press_keys \in SUBSET Keys
  /\ flags \in SUBSET {"SM_TRANSITION", "SM_ON_PRESS"}
  /\ main \in {"start", "raise", "loop", "perform", "enter", "key", "reset", "rebooted"}
  /\ keys \in SUBSET Keys
  /\ press \in {"read", "store", "raise"}
  /\ consent \in BOOLEAN

(* The assertions of statemachine_transition and perform_state_transition: *)
(* no transition is requested over one that is pending, and none is        *)
(* performed that was not requested.                                       *)
TransitionAssertions ==
  /\ main \in {"start", "enter", "key"} => next_state = NULL
  /\ main = "perform" => next_state # NULL

(* A requested transition is never dropped: until it is performed its flag *)
(* is up, about to be raised, or already seen.                             *)
TransitionPending ==
  next_state # NULL => main \in {"raise", "perform"} \/ "SM_TRANSITION" \in flags

(* No assertion of the state machine fails and no transition that was      *)
(* requested is dropped.                                                   *)
SMInv == SMTypeOK /\ TransitionAssertions /\ TransitionPending

(* The flash is not touched unless Cross was pressed, whatever the order   *)
(* in which presses, resets of on_press_keys and transitions interleave.   *)
ConsentBeforeFlash == state \in Working \cup {"finish"} => consent

(* Once started, the installation ends, in finish or in error: no press    *)
(* that comes between makes the loop forget a transition.                  *)
InstallEnds == []<>(state \notin Working)
=============================================================================
