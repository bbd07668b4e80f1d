-------------------------- MODULE ApplicationProofs --------------------------
(***************************************************************************)
(* Proofs about the application and its gamepad library.  For any keys and *)
(* readers: a read returns the edges of its own time, no transition is     *)
(* dropped or requested twice, and nothing is flashed without a press of   *)
(* Cross.  For any table of the update, any NAND geometry and any set of   *)
(* bad blocks: what app/aiseirigh/ipl.c leaves on the NAND wherever the    *)
(* power fails, and what the installation has done when it says so.        *)
(***************************************************************************)
EXTENDS StateMachine, Installer, SequenceTheorems, TLAPS

LEMMA EdgeType ==
  ASSUME NEW g \in Triggers, NEW now \in SUBSET Keys, NEW before \in SUBSET Keys
  PROVE  Edge(g, now, before) \in SUBSET Keys
  <1>1. g \in {"press", "release", "hold"}
    BY GamepadAssumption DEF Triggers
  <1> QED BY <1>1 DEF Edge

(* PadInv is inductive as it stands. *)
LEMMA PadStep == PadInv /\ [PadNext]_padvars => PadInv'
  <1> SUFFICES ASSUME PadInv, [PadNext]_padvars PROVE PadInv'
    OBVIOUS
  <1> USE DEF PadInv
  <1>0. \A r \in Readers : Trigger[r] \in Triggers
    BY DEF Triggers
  <1>1. CASE poll_read \/ vsync_interrupt
    <2>1. /\ UNCHANGED <<prev_keys, edges, reader, since, late>>
          /\ poll_keys' \in SUBSET Keys /\ poll_pc' \in {"read", "update", "vsync"}
      BY <1>1 DEF poll_read, vsync_interrupt, PadTypeOK
    <2> QED BY <2>1 DEF PadTypeOK, ReadsAreFresh, ReadsAreNotEmpty, Read
  <1>2. CASE poll_update
    <2>1. /\ edges' = [g \in Triggers |-> Edge(g, poll_keys, prev_keys)]
          /\ prev_keys' = poll_keys
          /\ reader' = [r \in Readers |->
                          IF reader[r] = "blocked" /\ edges'[Trigger[r]] # {}
                          THEN "woken" ELSE reader[r]]
          /\ since' = [r \in Readers |->
                         IF reader[r] = "out" THEN {} ELSE since[r] \cup edges'[Trigger[r]]]
          /\ late' = late \cup {r \in Readers : reader[r] = "woken"}
          /\ poll_pc' = "vsync" /\ poll_keys' = {}
      BY <1>2 DEF poll_update
    <2>2. edges' \in [Triggers -> SUBSET Keys]
      BY <2>1, EdgeType DEF PadTypeOK
    <2>3. since' \in [Readers -> SUBSET Keys]
      BY <1>0, <2>1, <2>2 DEF PadTypeOK
    <2>4. reader' \in [Readers -> {"out", "blocked", "woken"}]
      BY <2>1 DEF PadTypeOK
    <2>5. PadTypeOK'
      BY <2>1, <2>2, <2>3, <2>4 DEF PadTypeOK
    <2>6. ReadsAreFresh'
      BY <2>1 DEF PadTypeOK, ReadsAreFresh, Read
    <2>7. ReadsAreNotEmpty'
      BY <2>1 DEF PadTypeOK, ReadsAreNotEmpty, Read
    <2> QED BY <2>5, <2>6, <2>7
  <1>3. ASSUME NEW r \in Readers, gamepad_read(r) \/ gamepad_read_returns(r)
        PROVE  PadInv'
    <2>1. /\ UNCHANGED <<prev_keys, edges, poll_pc, poll_keys>>
          /\ reader' \in [Readers -> {"out", "blocked", "woken"}]
          /\ since' \in [Readers -> SUBSET Keys]
          /\ late' \in SUBSET Readers /\ late \subseteq late' \cup {r}
          /\ reader'[r] # "woken"
          /\ \A x \in Readers : x # r => reader'[x] = reader[x] /\ since'[x] = since[x]
      BY <1>3 DEF gamepad_read, gamepad_read_returns, PadTypeOK
    <2> QED BY <2>1 DEF PadTypeOK, ReadsAreFresh, ReadsAreNotEmpty, Read
  <1>4. CASE UNCHANGED padvars
    BY <1>4 DEF padvars, PadTypeOK, ReadsAreFresh, ReadsAreNotEmpty, Read
  <1> QED BY <1>1, <1>2, <1>3, <1>4 DEF PadNext, PollStep

LEMMA PadStart == PadInit => PadInv
  BY DEF PadInit, PadInv, PadTypeOK, ReadsAreFresh, ReadsAreNotEmpty, Read

(* external/lib/gamepad, for any keys, readers and triggers: gamepad_read  *)
(* returns only edges stored after the call blocked, and at least one      *)
(* unless a further poll has overtaken the woken reader.                   *)
THEOREM ReadsAreOfTheirTime == PadSpec => []PadInv
  BY PadStart, PadStep, PTL DEF PadSpec
-----------------------------------------------------------------------------
(* Where a pending transition is, exactly: the strengthening of            *)
(* TransitionAssertions and TransitionPending.                             *)
TransitionExact ==
  /\ main = "raise" => next_state # NULL
  /\ "SM_TRANSITION" \in flags => next_state # NULL /\ main \in {"reset", "loop"}

(* Whoever knows of a press of Cross knows it from a poll, and the states  *)
(* behind the menu are reached through it.                                 *)
ConsentKnown ==
  /\ Cross \in edges["press"] => consent
  /\ Cross \in keys => consent
  /\ Cross \in on_press_keys => consent
  /\ next_state \in Working \cup {"finish"} => consent
  /\ state \in Working \cup {"finish"} => consent

(* The inductive invariant of the state machine. *)
SMIndInv ==
  /\ PadInv
  /\ SMTypeOK
  /\ TransitionAssertions
  /\ TransitionPending
  /\ TransitionExact
  /\ ConsentKnown

(* The gamepad's part of a step of the program is a step of the gamepad.   *)
LEMMA MachineDrivesPad == [SMNext]_allvars => [PadNext]_padvars
  <1> SUFFICES ASSUME [SMNext]_allvars PROVE PadNext \/ UNCHANGED padvars
    OBVIOUS
  <1>1. CASE MainStep
    BY <1>1 DEF MainStep, start, transition_raise, wait_flags, perform_state_transition, on_enter,
                on_key_press, reset_keys, statemachine_transition
  <1>2. CASE PressStep
    <2>1. CASE press_read
      BY <2>1, StateMachineAssumption DEF press_read, PadNext
    <2>2. CASE press_store \/ press_raise
      BY <2>2 DEF press_store, press_raise
    <2> QED BY <1>2, <2>1, <2>2 DEF PressStep
  <1>3. CASE poll_step
    BY <1>3 DEF poll_step, PadNext
  <1>4. CASE UNCHANGED allvars
    BY <1>4 DEF allvars
  <1> QED BY <1>1, <1>2, <1>3, <1>4 DEF SMNext

LEMMA PressIsATrigger == "press" \in Triggers
  BY StateMachineAssumption DEF Triggers

LEMMA SMStart == SMInit => SMIndInv
  <1> SUFFICES ASSUME SMInit PROVE SMIndInv
    OBVIOUS
  <1>1. PadInv
    BY PadStart DEF SMInit
  <1>2. SMTypeOK
    BY <1>1 DEF SMInit, SMTypeOK, PadInv
  <1>3. TransitionAssertions /\ TransitionPending /\ TransitionExact
    BY DEF SMInit, TransitionAssertions, TransitionPending, TransitionExact
  <1>4. ConsentKnown
    <2>1. edges["press"] = {}
      BY PressIsATrigger DEF SMInit, PadInit
    <2>2. NULL \notin Working \cup {"finish"}
      BY NullIsNoState DEF States
    <2> QED BY <2>1, <2>2 DEF SMInit, ConsentKnown
  <1> QED BY <1>1, <1>2, <1>3, <1>4 DEF SMIndInv

(* Where a working state leads. *)
LEMMA SuccessorType == \A s \in Working : Successor[s] \in Working \cup {"finish"}
  BY DEF Working, Successor

(* statemachine_transition: the state asked for is one the caller may ask  *)
(* for.                                                                    *)
LEMMA TransitionKeeps ==
  ASSUME SMIndInv, NEW l \in {"start", "enter", "key"}, NEW s \in States,
         statemachine_transition(l, s), PadInv',
         s \in Working \cup {"finish"} => consent
  PROVE  SMIndInv'
  <1>1. /\ main = l /\ next_state = NULL /\ next_state' = s /\ main' = "raise"
        /\ UNCHANGED <<padvars, state, on_press_keys, flags, keys, press, consent>>
    BY DEF statemachine_transition
  <1>2. s # NULL
    BY NullIsNoState
  <1>3. SMTypeOK'
    BY <1>1 DEF SMIndInv, SMTypeOK, PadInv
  <1>4. TransitionAssertions' /\ TransitionPending' /\ TransitionExact'
    BY <1>1, <1>2 DEF SMIndInv, TransitionAssertions, TransitionPending, TransitionExact
  <1>5. ConsentKnown'
    BY <1>1 DEF SMIndInv, ConsentKnown, padvars
  <1> QED BY <1>3, <1>4, <1>5 DEF SMIndInv

(* The thread in statemachine_start. *)
LEMMA MainKeeps ==
  ASSUME SMIndInv, MainStep, PadInv'
  PROVE  SMIndInv'
  <1> USE DEF SMIndInv
  <1>1. CASE start
    BY <1>1, TransitionKeeps DEF start, States, Working, Successor
  <1>2. CASE transition_raise
    <2>1. /\ main = "raise" /\ flags' = flags \cup {"SM_TRANSITION"}
          /\ main' \in {"loop", "reset"}
          /\ UNCHANGED <<padvars, state, next_state, on_press_keys, keys, press, consent>>
      BY <1>2 DEF transition_raise
    <2>2. SMTypeOK'
      BY <2>1 DEF SMTypeOK, PadInv
    <2>3. TransitionAssertions' /\ TransitionPending' /\ TransitionExact'
      BY <2>1 DEF TransitionAssertions, TransitionPending, TransitionExact
    <2>4. ConsentKnown'
      BY <2>1 DEF ConsentKnown, padvars
    <2> QED BY <2>2, <2>3, <2>4
  <1>3. CASE wait_flags
    <2>1. /\ main = "loop" /\ flags' = {}
          /\ main' = IF "SM_TRANSITION" \in flags THEN "perform" ELSE "key"
          /\ UNCHANGED <<padvars, state, next_state, on_press_keys, keys, press, consent>>
      BY <1>3 DEF wait_flags
    <2>2. SMTypeOK'
      BY <2>1 DEF SMTypeOK, PadInv
    <2>3. TransitionAssertions' /\ TransitionPending' /\ TransitionExact'
      BY <2>1 DEF TransitionAssertions, TransitionPending, TransitionExact
    <2>4. ConsentKnown'
      BY <2>1 DEF ConsentKnown, padvars
    <2> QED BY <2>2, <2>3, <2>4
  <1>4. CASE perform_state_transition
    <2>1. /\ main = "perform" /\ next_state # NULL /\ state' = next_state /\ next_state' = NULL
          /\ main' = "enter"
          /\ UNCHANGED <<padvars, on_press_keys, flags, keys, press, consent>>
      BY <1>4 DEF perform_state_transition
    <2>2. SMTypeOK'
      BY <2>1 DEF SMTypeOK, PadInv
    <2>3. TransitionAssertions' /\ TransitionPending' /\ TransitionExact'
      BY <2>1 DEF TransitionAssertions, TransitionPending, TransitionExact
    <2>4. ConsentKnown'
      <3>1. NULL \notin Working \cup {"finish"}
        BY NullIsNoState DEF States
      <3> QED BY <2>1, <3>1 DEF ConsentKnown, padvars
    <2> QED BY <2>2, <2>3, <2>4
  <1>5. CASE on_enter
    <2>1. PICK s \in AfterEnter(state) :
            \/ s # NULL /\ statemachine_transition("enter", s)
            \/ /\ main = "enter" /\ main' = "reset"
               /\ UNCHANGED <<padvars, state, next_state, on_press_keys, flags, keys, press, consent>>
      BY <1>5 DEF on_enter
    <2>2. CASE s # NULL /\ statemachine_transition("enter", s)
      <3>1. \/ state = "init" /\ s = "menu"
            \/ state \in Working /\ s \in {Successor[state], "error"}
        BY <2>2 DEF AfterEnter
      <3>2. s \in States /\ (s \in Working \cup {"finish"} => consent)
        <4>1. "menu" \notin Working \cup {"finish"} /\ "error" \notin Working \cup {"finish"}
          BY DEF Working, Successor
        <4> QED BY <3>1, <4>1, SuccessorType DEF ConsentKnown, States
      <3> QED BY <2>2, <3>2, TransitionKeeps
    <2>3. CASE /\ main = "enter" /\ main' = "reset"
               /\ UNCHANGED <<padvars, state, next_state, on_press_keys, flags, keys, press, consent>>
      <3>1. SMTypeOK'
        BY <2>3 DEF SMTypeOK, PadInv
      <3>2. TransitionAssertions' /\ TransitionPending' /\ TransitionExact'
        BY <2>3 DEF TransitionAssertions, TransitionPending, TransitionExact
      <3>3. ConsentKnown'
        BY <2>3 DEF ConsentKnown, padvars
      <3> QED BY <3>1, <3>2, <3>3
    <2> QED BY <2>1, <2>2, <2>3
  <1>6. CASE on_key_press
    <2>1. CASE /\ state = "menu" /\ Cross \in on_press_keys
               /\ statemachine_transition("key", "mount_ms")
      <3>1. consent /\ "mount_ms" \in States
        BY <2>1 DEF ConsentKnown, States, Working, Successor
      <3> QED BY <2>1, <3>1, TransitionKeeps
    <2>2. CASE /\ main = "key" /\ main' \in {"rebooted", "reset"}
               /\ UNCHANGED <<padvars, state, next_state, on_press_keys, flags, keys, press, consent>>
      <3>1. SMTypeOK'
        BY <2>2 DEF SMTypeOK, PadInv
      <3>2. TransitionAssertions' /\ TransitionPending' /\ TransitionExact'
        BY <2>2 DEF TransitionAssertions, TransitionPending, TransitionExact
      <3>3. ConsentKnown'
        BY <2>2 DEF ConsentKnown, padvars
      <3> QED BY <3>1, <3>2, <3>3
    <2> QED BY <1>6, <2>1, <2>2 DEF on_key_press
  <1>7. CASE reset_keys
    <2>1. /\ main = "reset" /\ on_press_keys' = {} /\ main' = "loop"
          /\ UNCHANGED <<padvars, state, next_state, flags, keys, press, consent>>
      BY <1>7 DEF reset_keys
    <2>2. SMTypeOK'
      BY <2>1 DEF SMTypeOK, PadInv
    <2>3. TransitionAssertions' /\ TransitionPending' /\ TransitionExact'
      BY <2>1 DEF TransitionAssertions, TransitionPending, TransitionExact
    <2>4. ConsentKnown'
      BY <2>1 DEF ConsentKnown, padvars
    <2> QED BY <2>2, <2>3, <2>4
  <1> QED BY <1>1, <1>2, <1>3, <1>4, <1>5, <1>6, <1>7 DEF MainStep

(* The on_press thread and the poll thread. *)
LEMMA OthersKeep ==
  ASSUME SMIndInv, PressStep \/ poll_step, PadInv'
  PROVE  SMIndInv'
  <1> USE DEF SMIndInv
  <1>1. UNCHANGED <<state, next_state, main>> /\ flags \subseteq flags' /\ flags' \subseteq flags \cup {"SM_ON_PRESS"}
    BY DEF PressStep, press_read, press_store, press_raise, poll_step
  <1>2. TransitionAssertions' /\ TransitionPending' /\ TransitionExact'
    BY <1>1 DEF TransitionAssertions, TransitionPending, TransitionExact
  <1>3. SMTypeOK' /\ ConsentKnown'
    <2>1. CASE press_read
      <3>1. /\ UNCHANGED <<state, next_state, on_press_keys, flags, main, consent, edges>>
            /\ \/ UNCHANGED <<keys, press>>
               \/ keys' = edges["press"] /\ press' = "store"
        BY <2>1, StateMachineAssumption
           DEF press_read, gamepad_read, gamepad_read_returns, Read
      <3>2. edges["press"] \in SUBSET Keys
        BY PressIsATrigger DEF PadInv, PadTypeOK
      <3>3. SMTypeOK'
        BY <3>1, <3>2 DEF SMTypeOK, PadInv
      <3>4. ConsentKnown'
        BY <3>1 DEF ConsentKnown
      <3> QED BY <3>3, <3>4
    <2>2. CASE press_store \/ press_raise
      <3>1. SMTypeOK'
        BY <2>2 DEF press_store, press_raise, SMTypeOK, PadInv
      <3>2. ConsentKnown'
        BY <2>2 DEF press_store, press_raise, ConsentKnown, padvars
      <3> QED BY <3>1, <3>2
    <2>3. CASE poll_step
      <3>1. /\ consent' = (consent \/ Cross \in edges'["press"])
            /\ UNCHANGED <<state, next_state, on_press_keys, flags, main, keys, press>>
        BY <2>3 DEF poll_step
      <3>2. consent' \in BOOLEAN
        BY <3>1
      <3>3. SMTypeOK'
        BY <3>1, <3>2 DEF SMTypeOK, PadInv
      <3>4. ConsentKnown'
        BY <3>1 DEF ConsentKnown
      <3> QED BY <3>3, <3>4
    <2> QED BY <2>1, <2>2, <2>3 DEF PressStep
  <1> QED BY <1>2, <1>3

LEMMA SMStep == SMIndInv /\ [SMNext]_allvars => SMIndInv'
  <1> SUFFICES ASSUME SMIndInv, [SMNext]_allvars PROVE SMIndInv'
    OBVIOUS
  <1>1. PadInv'
    BY PadStep, MachineDrivesPad DEF SMIndInv
  <1>2. CASE UNCHANGED allvars
    <2>1. SMTypeOK'
      BY <1>1, <1>2 DEF allvars, smvars, SMIndInv, SMTypeOK, PadInv
    <2>2. TransitionAssertions' /\ TransitionPending' /\ TransitionExact'
      BY <1>2 DEF allvars, smvars, SMIndInv, TransitionAssertions, TransitionPending, TransitionExact
    <2>3. ConsentKnown'
      BY <1>2 DEF allvars, smvars, padvars, SMIndInv, ConsentKnown
    <2> QED BY <1>1, <2>1, <2>2, <2>3 DEF SMIndInv
  <1> QED BY <1>1, <1>2, MainKeeps, OthersKeep DEF SMNext

(* statemachine.c, for any keys and readers: no assertion of               *)
(* statemachine_transition or perform_state_transition fails, and no       *)
(* transition is dropped, however presses interleave with the loop.        *)
THEOREM NoTransitionLost == SMSpec => []SMInv
  <1>1. SMIndInv => SMInv
    BY DEF SMIndInv, SMInv
  <1> QED BY <1>1, SMStart, SMStep, PTL DEF SMSpec

(* No state behind the menu, where the memory card is read and the flash   *)
(* written, is entered before some poll has seen Cross go down.            *)
THEOREM FlashedOnlyOnConsent == SMSpec => []ConsentBeforeFlash
  <1>1. SMIndInv => ConsentBeforeFlash
    BY DEF SMIndInv, ConsentKnown, ConsentBeforeFlash
  <1> QED BY <1>1, SMStart, SMStep, PTL DEF SMSpec

(* The program uses the gamepad as module Gamepad says it is used: what    *)
(* holds of the library alone holds in the program.                        *)
THEOREM MachineImplementsPad == SMSpec => PadSpec
  <1>1. SMInit => PadInit
    BY DEF SMInit
  <1> QED BY <1>1, MachineDrivesPad, PTL DEF SMSpec, PadSpec
-----------------------------------------------------------------------------
(* The contents of a block are told apart by their first component. *)
LEMMA Kinds ==
  /\ Erased # Old /\ Torn # Old
  /\ Old[1] # "index" /\ Erased[1] # "index" /\ Torn[1] # "index"
  /\ \A p : Chunk(p)[1] # "index" /\ Chunk(p) # Old
  /\ \A s : Index(s)[1] = "index" /\ Index(s)[2] = s /\ Index(s) # Old
  <1>1. /\ Old[1] = "old" /\ Erased[1] = "erased" /\ Torn[1] = "torn"
        /\ \A p : Chunk(p)[1] = "chunk"
        /\ \A s : Index(s)[1] = "index" /\ Index(s)[2] = s
    BY DEF Old, Erased, Torn, Chunk, Index
  <1> QED BY <1>1

(* Products and quotients of naturals. *)
LEMMA ProductGrows ==
  ASSUME NEW a \in Nat, NEW b \in Nat, NEW k \in Nat \ {0}, a < b
  PROVE  a * k + k <= b * k
  <1>1. PICK c \in Nat : b = a + 1 + c
    <2>1. b - a - 1 \in Nat /\ b = a + 1 + (b - a - 1)
      OBVIOUS
    <2> QED BY <2>1
  <1>2. b * k = a * k + k + c * k /\ c * k >= 0
    BY <1>1
  <1>3. a * k \in Int /\ b * k \in Int /\ c * k \in Int
    OBVIOUS
  <1> QED BY <1>2, <1>3

LEMMA Quotient ==
  ASSUME NEW a \in Nat, NEW k \in Nat \ {0}
  PROVE  a \div k \in Nat /\ (a \div k) * k <= a /\ a < (a \div k) * k + k
  OBVIOUS

LEMMA QuotientUp ==
  ASSUME NEW n \in Nat, NEW q \in Nat, NEW k \in Nat \ {0}, n <= q * k, q * k < n + k
  PROVE  (n + k - 1) \div k = q
  <1> DEFINE r == (n + k - 1) \div k
  <1>1. r \in Nat /\ r * k <= n + k - 1 /\ n + k - 1 < r * k + k
    <2>1. n + k - 1 \in Nat
      OBVIOUS
    <2> QED BY <2>1, Quotient
  <1> HIDE DEF r
  <1>2. r * k \in Int /\ q * k \in Int
    BY <1>1
  <1>3. CASE r < q
    <2>1. r * k + k <= q * k
      BY <1>1, <1>3, ProductGrows
    <2> QED BY <1>1, <1>2, <2>1
  <1>4. CASE q < r
    <2>1. q * k + k <= r * k
      BY <1>1, <1>4, ProductGrows
    <2> QED BY <1>1, <1>2, <2>1
  <1>5. r = q
    BY <1>1, <1>3, <1>4
  <1> QED BY <1>5 DEF r
-----------------------------------------------------------------------------
(* IplTypeOK, with what it needs to be inductive: the loop over the data   *)
(* blocks starts at the first of them.                                     *)
IplTypeInd == IplTypeOK /\ (ipl_pc = "data" => block_num >= FirstData)

LEMMA IplTypeStep == IplTypeInd /\ [IplNext]_iplvars => IplTypeInd'
  <1> SUFFICES ASSUME IplTypeInd, [IplNext]_iplvars PROVE IplTypeInd'
    OBVIOUS
  <1> USE DEF IplTypeInd, IplTypeOK
  <1>0. /\ FirstIndex \in Nat /\ EndIndex \in Nat /\ FirstIndex <= EndIndex
        /\ FirstData \in Nat /\ EndData \in Nat /\ EndIndex <= FirstData /\ FirstData <= EndData
        /\ ppb \in Nat /\ ppb # 0
    BY IplAssumption
  <1>1. CASE ipl_begin
    BY <1>0, <1>1 DEF ipl_begin
  <1>2. CASE clear_ipl
    <2>1. /\ ipl_pc' = ipl_pc /\ ipl_pc = "clear" /\ block_num < EndData /\ block_num' = block_num + 1
          /\ UNCHANGED <<bad, pages, num_written, block_index, written, res>>
          /\ \/ nand' = [nand EXCEPT ![block_num] = Erased] /\ unerased' = unerased
             \/ unerased' = unerased \cup {block_num} /\ nand' = nand
      BY <1>2 DEF clear_ipl
    <2>2. block_num' \in 0 .. EndData /\ block_num \in Blocks
      BY <1>0, <2>1 DEF Blocks
    <2>3. DOMAIN nand' = Blocks /\ unerased' \in SUBSET Blocks
      BY <2>1, <2>2
    <2> QED BY <2>1, <2>2, <2>3
  <1>3. CASE clear_ipl_returns
    BY <1>3 DEF clear_ipl_returns
  <1>4. CASE check_length
    <2>1. /\ UNCHANGED <<nand, bad, pages, written, unerased>>
          /\ \/ ipl_pc' = "done" /\ res' = -1 /\ UNCHANGED <<block_num, num_written, block_index>>
             \/ /\ ipl_pc' = "data" /\ block_num' = FirstData /\ num_written' = 0
                /\ block_index' = <<>> /\ res' = res
      BY <1>4 DEF check_length, Return
    <2>2. block_index' \in Seq(DataBlocks)
      <3>1. block_index \in Seq(DataBlocks) /\ <<>> \in Seq(DataBlocks)
        OBVIOUS
      <3> QED BY <2>1, <3>1
    <2> QED BY <1>0, <2>1, <2>2
  <1>5. CASE skip_bad_block
    BY <1>0, <1>5 DEF skip_bad_block, Return
  <1>6. CASE write_data_block
    <2>1. /\ UNCHANGED <<bad, pages, written, unerased>>
          /\ block_index' = Append(block_index, block_num)
          /\ block_num \in DataBlocks
          /\ \/ block_num' = block_num + 1 /\ num_written' = num_written + ppb /\ UNCHANGED <<ipl_pc, res>>
             \/ ipl_pc' = "done" /\ res' = -1 /\ UNCHANGED <<block_num, num_written>>
      BY <1>0, <1>6 DEF write_data_block, Return, DataBlocks
    <2>2. DOMAIN nand' = Blocks
      BY <1>6 DEF write_data_block
    <2>3. block_index' \in Seq(DataBlocks)
      BY <2>1
    <2>4. block_num' \in 0 .. EndData /\ num_written' \in Nat /\ (ipl_pc' = "data" => block_num' >= FirstData)
      BY <1>0, <2>1 DEF DataBlocks
    <2> QED BY <2>1, <2>2, <2>3, <2>4
  <1>7. CASE begin_index
    <2>1. /\ ipl_pc' = "index" /\ block_num' = FirstIndex
          /\ UNCHANGED <<nand, bad, pages, num_written, block_index, res, unerased>>
      BY <1>7 DEF begin_index
    <2>2. written' \in BOOLEAN
      BY <1>7 DEF begin_index
    <2> QED BY <1>0, <2>1, <2>2
  <1>8. CASE write_index_block
    <2>1. /\ UNCHANGED <<bad, pages, ipl_pc, num_written, block_index, res, unerased>>
          /\ block_num < EndIndex /\ block_num' = block_num + 1 /\ ipl_pc = "index"
          /\ written' = written \/ written' = TRUE
      BY <1>8 DEF write_index_block
    <2>2. DOMAIN nand' = Blocks
      BY <1>8 DEF write_index_block
    <2>3. written' \in BOOLEAN
      BY <2>1
    <2>4. block_num' \in 0 .. EndData
      BY <1>0, <2>1
    <2> QED BY <2>1, <2>2, <2>3, <2>4
  <1>9. CASE write_ipl_returns
    <2>1. /\ ipl_pc' = "done" /\ res' \in {0, -1}
          /\ UNCHANGED <<nand, bad, pages, block_num, num_written, block_index, written, unerased>>
      BY <1>9 DEF write_ipl_returns, Return
    <2> QED BY <2>1
  <1>10. CASE UNCHANGED iplvars
    BY <1>10 DEF iplvars
  <1> QED BY <1>1, <1>2, <1>3, <1>4, <1>5, <1>6, <1>7, <1>8, <1>9, <1>10 DEF IplNext, IplStep

(* The blocks are cleared in order, and after that a block that is as it   *)
(* was before is one whose erase failed.                                   *)
ClearedInOrder ==
  /\ ipl_pc = "idle" => \A b \in Blocks : nand[b] = Old
  /\ ipl_pc = "clear" =>
       \A b \in Blocks : IF b < block_num THEN nand[b] = Old => b \in unerased ELSE nand[b] = Old
  /\ ipl_pc \in {"length", "data", "index", "done"} =>
       \A b \in Blocks : nand[b] = Old => b \in unerased

(* What block_index lists is on the NAND, chunk by chunk, in good blocks. *)
ChunksListed ==
  /\ num_written = Len(block_index) * ppb
  /\ num_written < pages + ppb
  /\ \A k \in DOMAIN block_index :
       block_index[k] \notin bad /\ nand[block_index[k]] = Chunk((k - 1) * ppb)

AllListed == ChunksListed /\ num_written >= pages

(* When it is: while data blocks are written, in increasing order, and     *)
(* from then on if they have all been written; an index is written only    *)
(* then, only to index blocks, and is the list.                            *)
ListedWhen ==
  /\ ipl_pc = "data" => ChunksListed /\ \A k \in DOMAIN block_index : block_index[k] < block_num
  /\ ipl_pc = "index" => AllListed
  /\ ipl_pc = "done" /\ res = 0 => AllListed
  /\ \A b \in Blocks : nand[b][1] = "index" =>
       ipl_pc \in {"index", "done"} /\ AllListed /\ nand[b] = Index(block_index)

(* The inductive invariant of clear_ipl and write_ipl. *)
IplIndInv == IplTypeInd /\ ClearedInOrder /\ ListedWhen

LEMMA IplStart == IplInit => IplIndInv
  <1> SUFFICES ASSUME IplInit PROVE IplIndInv
    OBVIOUS
  <1>0. EndData \in Nat
    BY IplAssumption
  <1>1. \A b \in Blocks : nand[b] = Old
    BY DEF IplInit
  <1>2. IplTypeInd
    <2>1. block_index \in Seq(DataBlocks)
      BY DEF IplInit
    <2>2. /\ DOMAIN nand = Blocks /\ bad \in SUBSET Blocks /\ pages \in IplPages /\ ipl_pc = "idle"
          /\ block_num = 0 /\ num_written = 0 /\ res = 0 /\ unerased = {}
      BY DEF IplInit
    <2>3. written \in BOOLEAN
      BY DEF IplInit
    <2> QED BY <1>0, <2>1, <2>2, <2>3 DEF IplTypeInd, IplTypeOK
  <1>3. ClearedInOrder
    BY <1>1 DEF IplInit, ClearedInOrder
  <1>4. ListedWhen
    BY <1>1, Kinds DEF IplInit, ListedWhen
  <1> QED BY <1>2, <1>3, <1>4 DEF IplIndInv

LEMMA IplStepKeeps == IplIndInv /\ [IplNext]_iplvars => IplIndInv'
  <1> SUFFICES ASSUME IplIndInv, [IplNext]_iplvars PROVE IplIndInv'
    OBVIOUS
  <1>0. /\ FirstIndex \in Nat /\ EndIndex \in Nat /\ FirstIndex <= EndIndex
        /\ FirstData \in Nat /\ EndData \in Nat /\ EndIndex <= FirstData /\ FirstData <= EndData
        /\ ppb \in Nat /\ ppb # 0
    BY IplAssumption
  <1>1. IplTypeInd' /\ IplTypeInd
    BY IplTypeStep DEF IplIndInv
  <1>2. /\ DOMAIN nand = Blocks /\ block_num \in Nat /\ num_written \in Nat /\ pages \in Nat
        /\ block_index \in Seq(DataBlocks) /\ Len(block_index) \in Nat
        /\ DOMAIN block_index = 1 .. Len(block_index)
        /\ ipl_pc = "data" => block_num >= FirstData
    BY <1>1, IplAssumption DEF IplTypeInd, IplTypeOK
  <1> USE DEF IplIndInv
  <1>3. CASE \/ ipl_begin \/ clear_ipl_returns \/ check_length \/ skip_bad_block \/ begin_index
             \/ write_ipl_returns \/ UNCHANGED iplvars
    <2>0. nand' = nand /\ bad' = bad /\ pages' = pages /\ unerased' = unerased
      BY <1>3 DEF ipl_begin, clear_ipl_returns, check_length, skip_bad_block, begin_index,
                  write_ipl_returns, iplvars
    <2>1. CASE ipl_begin
      <3>1. ipl_pc = "idle" /\ ipl_pc' = "clear" /\ block_num' = 0
        BY <2>1 DEF ipl_begin
      <3>2. ClearedInOrder'
        BY <2>0, <3>1 DEF ClearedInOrder, Blocks
      <3>3. ListedWhen'
        BY <2>0, <3>1 DEF ListedWhen
      <3> QED BY <1>1, <3>2, <3>3
    <2>2. CASE clear_ipl_returns
      <3>1. ipl_pc = "clear" /\ ipl_pc' = "length" /\ block_num >= EndData
        BY <2>2 DEF clear_ipl_returns
      <3>2. \A b \in Blocks : b < block_num
        BY <1>0, <1>2, <3>1 DEF Blocks
      <3>3. ClearedInOrder'
        BY <2>0, <3>1, <3>2 DEF ClearedInOrder
      <3>4. ListedWhen'
        BY <2>0, <3>1 DEF ListedWhen
      <3> QED BY <1>1, <3>3, <3>4
    <2>3. CASE check_length
      <3>1. /\ ipl_pc = "length"
            /\ \/ ipl_pc' = "done" /\ res' = -1
               \/ ipl_pc' = "data" /\ num_written' = 0 /\ block_index' = <<>>
        BY <2>3 DEF check_length, Return
      <3>2. ClearedInOrder'
        BY <2>0, <3>1 DEF ClearedInOrder
      <3>3. CASE ipl_pc' = "done" /\ res' = -1
        BY <1>1, <2>0, <3>1, <3>2, <3>3 DEF ListedWhen
      <3>4. CASE ipl_pc' = "data" /\ num_written' = 0 /\ block_index' = <<>>
        <4>1. Len(block_index') = 0 /\ DOMAIN block_index' = {}
          BY <3>4
        <4>2. ChunksListed'
          BY <1>0, <1>2, <2>0, <3>4, <4>1 DEF ChunksListed
        <4>3. ListedWhen'
          BY <2>0, <3>1, <3>4, <4>1, <4>2 DEF ListedWhen
        <4> QED BY <1>1, <3>2, <4>3
      <3> QED BY <3>1, <3>3, <3>4
    <2>4. CASE skip_bad_block
      <3>1. /\ ipl_pc = "data" /\ num_written' = num_written /\ block_index' = block_index
            /\ \/ ipl_pc' = "done" /\ res' = -1
               \/ ipl_pc' = "data" /\ block_num' = block_num + 1
        BY <2>4 DEF skip_bad_block, Return
      <3>2. ClearedInOrder'
        BY <2>0, <3>1 DEF ClearedInOrder
      <3>3. CASE ipl_pc' = "done" /\ res' = -1
        BY <1>1, <2>0, <3>1, <3>2, <3>3 DEF ListedWhen
      <3>4. CASE ipl_pc' = "data" /\ block_num' = block_num + 1
        <4>1. ChunksListed'
          BY <2>0, <3>1 DEF ListedWhen, ChunksListed
        <4>2. \A k \in DOMAIN block_index : block_index[k] < block_num + 1
          <5>1. \A k \in DOMAIN block_index : block_index[k] \in Nat
            BY <1>0, <1>2 DEF DataBlocks
          <5> QED BY <1>2, <3>1, <5>1 DEF ListedWhen
        <4>3. ListedWhen'
          BY <2>0, <3>1, <3>4, <4>1, <4>2 DEF ListedWhen
        <4> QED BY <1>1, <3>2, <4>3
      <3> QED BY <3>1, <3>3, <3>4
    <2>5. CASE begin_index
      <3>1. /\ ipl_pc = "data" /\ ipl_pc' = "index" /\ num_written >= pages
            /\ num_written' = num_written /\ block_index' = block_index
        BY <2>5 DEF begin_index
      <3>2. ClearedInOrder'
        BY <2>0, <3>1 DEF ClearedInOrder
      <3>3. AllListed'
        BY <2>0, <3>1 DEF ListedWhen, AllListed, ChunksListed
      <3>4. ListedWhen'
        BY <2>0, <3>1, <3>3 DEF ListedWhen
      <3> QED BY <1>1, <3>2, <3>4
    <2>6. CASE write_ipl_returns
      <3>1. /\ ipl_pc = "index" /\ ipl_pc' = "done"
            /\ num_written' = num_written /\ block_index' = block_index
        BY <2>6 DEF write_ipl_returns, Return
      <3>2. ClearedInOrder'
        BY <2>0, <3>1 DEF ClearedInOrder
      <3>3. AllListed'
        BY <2>0, <3>1 DEF ListedWhen, AllListed, ChunksListed
      <3>4. ListedWhen'
        BY <2>0, <3>1, <3>3 DEF ListedWhen
      <3> QED BY <1>1, <3>2, <3>4
    <2>7. CASE UNCHANGED iplvars
      BY <1>1, <2>7 DEF iplvars, ClearedInOrder, ListedWhen, AllListed, ChunksListed
    <2> QED BY <1>3, <2>1, <2>2, <2>3, <2>4, <2>5, <2>6, <2>7
  <1>4. CASE clear_ipl
    <2>1. /\ ipl_pc = "clear" /\ ipl_pc' = "clear" /\ block_num' = block_num + 1
          /\ block_num < EndData
          /\ \/ nand' = [nand EXCEPT ![block_num] = Erased] /\ unerased' = unerased
             \/ unerased' = unerased \cup {block_num} /\ nand' = nand
      BY <1>4 DEF clear_ipl
    <2>2. \A b \in Blocks : b # block_num => nand'[b] = nand[b] /\ (b \in unerased => b \in unerased')
      BY <1>2, <2>1
    <2>3. block_num \in Blocks /\ nand[block_num] = Old
      BY <1>0, <1>2, <2>1 DEF ClearedInOrder, Blocks
    <2>4. nand'[block_num] = Erased \/ (nand'[block_num] = Old /\ block_num \in unerased')
      BY <1>2, <2>1, <2>3
    <2>5. ClearedInOrder'
      <3> SUFFICES ASSUME NEW b \in Blocks
                   PROVE  IF b < block_num + 1 THEN nand'[b] = Old => b \in unerased' ELSE nand'[b] = Old
        BY <2>1 DEF ClearedInOrder
      <3>1. CASE b = block_num
        BY <1>2, <2>4, <3>1, Kinds
      <3>2. CASE b # block_num
        <4>1. b \in Int /\ (b < block_num + 1 <=> b < block_num)
          BY <1>0, <1>2, <3>2 DEF Blocks
        <4> QED BY <2>1, <2>2, <3>2, <4>1 DEF ClearedInOrder
      <3> QED BY <3>1, <3>2
    <2>6. \A b \in Blocks : nand'[b][1] # "index"
      BY <2>1, <2>2, <2>4, Kinds DEF ListedWhen
    <2>7. ListedWhen'
      BY <2>1, <2>6 DEF ListedWhen
    <2> QED BY <1>1, <2>5, <2>7
  <1>5. CASE write_data_block
    <2> DEFINE b0 == block_num
               n == Len(block_index)
    <2>1. /\ ipl_pc = "data" /\ b0 < EndData /\ b0 \notin bad /\ num_written < pages
          /\ block_index' = Append(block_index, b0)
          /\ UNCHANGED <<bad, pages, written, unerased>>
          /\ \/ /\ nand' = [nand EXCEPT ![b0] = Chunk(num_written)]
                /\ block_num' = b0 + 1 /\ num_written' = num_written + ppb /\ ipl_pc' = "data"
             \/ /\ nand' = [nand EXCEPT ![b0] = Torn]
                /\ ipl_pc' = "done" /\ res' = -1
      BY <1>5 DEF write_data_block, Return
    <2>2. b0 \in Blocks /\ b0 \in DataBlocks
      BY <1>0, <1>2, <2>1 DEF Blocks, DataBlocks
    <2>3. /\ \A b \in Blocks : b # b0 => nand'[b] = nand[b]
          /\ nand'[b0] \in {Chunk(num_written), Torn}
      BY <1>2, <2>1, <2>2
    <2>4. \A b \in Blocks : nand'[b][1] # "index"
      BY <2>1, <2>3, Kinds DEF ListedWhen
    <2>5. ClearedInOrder'
      BY <2>1, <2>3, Kinds DEF ClearedInOrder
    <2>6. CASE ipl_pc' = "done" /\ res' = -1
      BY <1>1, <2>4, <2>5, <2>6 DEF ListedWhen
    <2>7. CASE /\ nand' = [nand EXCEPT ![b0] = Chunk(num_written)]
               /\ block_num' = b0 + 1 /\ num_written' = num_written + ppb /\ ipl_pc' = "data"
      <3>1. nand'[b0] = Chunk(num_written)
        BY <1>2, <2>2, <2>7
      <3>2. /\ Len(block_index') = n + 1 /\ DOMAIN block_index' = 1 .. n + 1
            /\ block_index'[n + 1] = b0
            /\ \A k \in 1 .. n : block_index'[k] = block_index[k]
        BY <1>2, <2>1, <2>2
      <3>3. num_written = n * ppb /\ num_written' = (n + 1) * ppb /\ num_written' < pages' + ppb
        BY <1>0, <1>2, <2>1, <2>7 DEF ListedWhen, ChunksListed
      <3>4. \A k \in 1 .. n : /\ block_index[k] \in Blocks /\ block_index[k] \in Nat
                              /\ block_index[k] < b0
                              /\ block_index[k] \notin bad
                              /\ nand[block_index[k]] = Chunk((k - 1) * ppb)
        <4>1. \A k \in 1 .. n : block_index[k] \in DataBlocks
          BY <1>2
        <4>2. \A d \in DataBlocks : d \in Blocks /\ d \in Nat
          BY <1>0 DEF DataBlocks, Blocks
        <4> QED BY <1>2, <2>1, <4>1, <4>2 DEF ListedWhen, ChunksListed
      <3>5. ASSUME NEW k \in DOMAIN block_index'
            PROVE  /\ block_index'[k] \notin bad' /\ nand'[block_index'[k]] = Chunk((k - 1) * ppb)
                   /\ block_index'[k] < block_num'
        <4>1. CASE k = n + 1
          <5>1. (k - 1) * ppb = num_written
            <6>1. k - 1 = n
              BY <1>2, <4>1
            <6> QED BY <3>3, <6>1
          <5> QED BY <1>2, <2>1, <2>7, <3>1, <3>2, <4>1, <5>1
        <4>2. CASE k # n + 1
          <5>1. k \in 1 .. n
            BY <1>2, <3>2, <4>2
          <5>2. block_index[k] # b0 /\ block_index[k] < b0 + 1
            BY <1>2, <3>4, <5>1
          <5> QED BY <2>1, <2>3, <2>7, <3>2, <3>4, <5>1, <5>2
        <4> QED BY <4>1, <4>2
      <3>6. ChunksListed'
        BY <3>2, <3>3, <3>5 DEF ChunksListed
      <3>7. ListedWhen'
        BY <2>4, <2>7, <3>5, <3>6 DEF ListedWhen
      <3> QED BY <1>1, <2>5, <3>7
    <2> QED BY <2>1, <2>6, <2>7
  <1>6. CASE write_index_block
    <2> DEFINE b0 == block_num
    <2>1. /\ ipl_pc = "index" /\ ipl_pc' = "index" /\ b0 < EndIndex
          /\ UNCHANGED <<bad, pages, num_written, block_index, res, unerased>>
          /\ \/ nand' = nand
             \/ \E c \in {Index(block_index), Torn} : nand' = [nand EXCEPT ![b0] = c]
      BY <1>6 DEF write_index_block
    <2>2. b0 \in Blocks /\ b0 \notin DataBlocks
      BY <1>0, <1>2, <2>1 DEF Blocks, DataBlocks
    <2>3. /\ \A b \in Blocks : b # b0 => nand'[b] = nand[b]
          /\ nand'[b0] \in {nand[b0], Index(block_index), Torn}
      BY <1>2, <2>1, <2>2
    <2>4. AllListed'
      <3>1. \A k \in DOMAIN block_index : block_index[k] \in Blocks /\ block_index[k] # b0
        <4>1. \A k \in DOMAIN block_index : block_index[k] \in DataBlocks
          BY <1>2
        <4>2. \A d \in DataBlocks : d \in Blocks
          BY <1>0 DEF DataBlocks, Blocks
        <4> QED BY <2>2, <4>1, <4>2
      <3> QED BY <2>1, <2>3, <3>1 DEF ListedWhen, AllListed, ChunksListed
    <2>5. ClearedInOrder'
      BY <2>1, <2>3, Kinds DEF ClearedInOrder
    <2>6. ListedWhen'
      <3> SUFFICES ASSUME NEW b \in Blocks, nand'[b][1] = "index" PROVE nand'[b] = Index(block_index)
        BY <2>1, <2>4 DEF ListedWhen
      <3> QED BY <2>1, <2>3, Kinds DEF ListedWhen
    <2> QED BY <1>1, <2>5, <2>6
  <1> QED BY <1>3, <1>4, <1>5, <1>6 DEF IplNext, IplStep

(* All the pages are listed: as many blocks as there are chunks. *)
LEMMA ListIsWhole ==
  ASSUME IplIndInv, AllListed
  PROVE  Len(block_index) = NumChunks
  <1>1. /\ pages \in Nat /\ Len(block_index) \in Nat /\ ppb \in Nat \ {0}
        /\ num_written = Len(block_index) * ppb
        /\ pages <= num_written /\ num_written < pages + ppb
    BY IplAssumption DEF IplIndInv, IplTypeInd, IplTypeOK, AllListed, ChunksListed
  <1> DEFINE n == Len(block_index)
  <1>2. n \in Nat /\ pages <= n * ppb /\ n * ppb < pages + ppb
    BY <1>1
  <1> HIDE DEF n
  <1>3. (pages + ppb - 1) \div ppb = n
    BY <1>1, <1>2, QuotientUp
  <1> QED BY <1>3 DEF NumChunks, n

(* ipl.c, for any NAND, bad blocks and length of the boot loader: at       *)
(* whatever step the power fails, an index that write_ipl has written      *)
(* names good blocks that hold the chunks in order, as many as there are,  *)
(* and an old index that was not spared by a failed erase is still there   *)
(* only while all that it can name is.                                     *)
THEOREM IndexesAreTrue == IplSpec => []IplInv
  <1>1. IplIndInv => IplInv
    <2> SUFFICES ASSUME IplIndInv PROVE IplInv
      OBVIOUS
    <2>1. IndexPointsAtChunks
      <3> SUFFICES ASSUME NEW b \in Blocks, nand[b][1] = "index"
                   PROVE  /\ Len(nand[b][2]) = NumChunks
                          /\ \A k \in DOMAIN nand[b][2] :
                               nand[b][2][k] \notin bad /\ nand[nand[b][2][k]] = Chunk((k - 1) * ppb)
        BY DEF IndexPointsAtChunks
      <3>1. AllListed /\ nand[b] = Index(block_index)
        BY DEF IplIndInv, ListedWhen
      <3>2. nand[b][2] = block_index
        BY <3>1, Kinds
      <3>3. Len(block_index) = NumChunks
        BY <3>1, ListIsWhole
      <3> QED BY <3>1, <3>2, <3>3 DEF AllListed, ChunksListed
    <2>2. OldIndexOldData
      <3> SUFFICES ASSUME NEW b \in IndexBlocks, b \notin unerased, nand[b] = Old, NEW d \in DataBlocks
                   PROVE  nand[d] = Old
        BY DEF OldIndexOldData
      <3>1. b \in Blocks /\ d \in Blocks /\ b < d /\ b \in Int /\ d \in Int /\ block_num \in Int
        BY IplAssumption DEF IndexBlocks, DataBlocks, Blocks, IplIndInv, IplTypeInd, IplTypeOK
      <3>2. CASE ipl_pc = "idle"
        BY <3>1, <3>2 DEF IplIndInv, ClearedInOrder
      <3>3. CASE ipl_pc = "clear"
        <4>1. ~(b < block_num)
          BY <3>1, <3>3 DEF IplIndInv, ClearedInOrder
        <4>2. ~(d < block_num)
          BY <3>1, <4>1
        <4> QED BY <3>1, <3>3, <4>2 DEF IplIndInv, ClearedInOrder
      <3>4. CASE ipl_pc \in {"length", "data", "index", "done"}
        BY <3>1, <3>4 DEF IplIndInv, ClearedInOrder
      <3> QED BY <3>2, <3>3, <3>4 DEF IplIndInv, IplTypeInd, IplTypeOK
    <2> QED BY <2>1, <2>2 DEF IplInv, IplIndInv, IplTypeInd
  <1> QED BY <1>1, IplStart, IplStepKeeps, PTL DEF IplSpec

(* write_ipl returns 0 only when every page of the boot loader is in the   *)
(* chunk of some data block.                                               *)
THEOREM ZeroMeansWritten == IplSpec => []SuccessMeansWritten
  <1>1. IplIndInv => SuccessMeansWritten
    <2> SUFFICES ASSUME IplIndInv, ipl_pc = "done", res = 0, NEW p \in 0 .. pages - 1
                 PROVE  \E d \in DataBlocks : nand[d] = Chunk((p \div ppb) * ppb)
      BY DEF SuccessMeansWritten
    <2>1. AllListed
      BY DEF IplIndInv, ListedWhen
    <2>2. /\ pages \in Nat /\ ppb \in Nat \ {0} /\ block_index \in Seq(DataBlocks)
          /\ num_written = Len(block_index) * ppb /\ pages <= num_written
      BY <2>1, IplAssumption DEF IplIndInv, IplTypeInd, IplTypeOK, AllListed, ChunksListed
    <2> DEFINE n == Len(block_index)
               q == p \div ppb
    <2>3. p \in Nat /\ n \in Nat /\ p < n * ppb
      BY <2>2
    <2>4. q \in Nat /\ q * ppb <= p
      BY <2>2, <2>3, Quotient
    <2> HIDE DEF n, q
    <2>5. q < n
      <3>1. CASE n < q
        <4>1. n * ppb + ppb <= q * ppb /\ n * ppb \in Int /\ q * ppb \in Int
          BY <2>2, <2>3, <2>4, <3>1, ProductGrows
        <4> QED BY <2>2, <2>3, <2>4, <4>1
      <3>2. CASE n = q
        BY <2>2, <2>3, <2>4, <3>2
      <3> QED BY <2>3, <2>4, <3>1, <3>2
    <2>6. q + 1 \in 1 .. n /\ (q + 1) - 1 = q
      BY <2>3, <2>4, <2>5
    <2>7. DOMAIN block_index = 1 .. n
      BY <2>2 DEF n
    <2>8. block_index[q + 1] \in DataBlocks /\ nand[block_index[q + 1]] = Chunk(((q + 1) - 1) * ppb)
      <3>1. q + 1 \in DOMAIN block_index
        BY <2>6, <2>7
      <3>2. block_index[q + 1] \in DataBlocks
        BY <2>2, <3>1
      <3> QED BY <2>1, <3>1, <3>2 DEF AllListed, ChunksListed
    <2>9. nand[block_index[q + 1]] = Chunk(q * ppb)
      BY <2>6, <2>8
    <2> QED BY <2>8, <2>9 DEF q
  <1> QED BY <1>1, IplStart, IplStepKeeps, PTL DEF IplSpec
-----------------------------------------------------------------------------
(* The order that strcmp gives puts a directory's parent before it. *)
LEMMA ParentSortedFirst ==
  ASSUME NEW k \in DOMAIN ReadDirectories
  PROVE  \/ Len(ReadDirectories[k]) = 2
         \/ \E j \in 1 .. k - 1 : ReadDirectories[j] = Parent(ReadDirectories[k])
  <1> DEFINE d == ReadDirectories[k]
             Dirs == {j \in DOMAIN Table : Table[j].type = "directory"}
  <1>1. /\ ReadDirectories \in Seq(Seq(Nat)) /\ d \in Seq(Nat)
        /\ DOMAIN ReadDirectories = 1 .. Len(ReadDirectories) /\ Len(ReadDirectories) \in Nat
    BY QsortSorts DEF ReadDirectories
  <1>2. {ReadDirectories[j] : j \in DOMAIN ReadDirectories} = {Table[j].path : j \in Dirs}
    BY QsortSorts DEF ReadDirectories
  <1>3. \A a, b \in DOMAIN ReadDirectories :
          a < b => ~Before(ReadDirectories[b], ReadDirectories[a])
    BY QsortSorts DEF ReadDirectories
  <1> HIDE DEF Dirs
  <1>4. PICK e \in Dirs : Table[e].path = d
    BY <1>2
  <1>5. CASE Len(d) = 2
    BY <1>5
  <1>6. CASE Len(d) # 2
    <2>1. Len(d) > 2 /\ \E x \in Dirs : Table[x].path = Parent(d)
      BY <1>4, <1>6, TableHasParents DEF Dirs
    <2>2. PICK j \in DOMAIN ReadDirectories : ReadDirectories[j] = Parent(d)
      BY <1>2, <2>1
    <2> HIDE DEF d
    <2>3. /\ Len(d) \in Nat /\ Parent(d) \in Seq(Nat) /\ Len(Parent(d)) = Len(d) - 1
          /\ SubSeq(d, 1, Len(Parent(d))) = Parent(d)
      <3>1. Len(d) \in Nat /\ d \in Seq(Nat) /\ Len(d) - 1 \in 1 .. Len(d)
        BY <1>1, <2>1
      <3>2. Parent(d) \in Seq(Nat) /\ Len(Parent(d)) = Len(d) - 1
        <4>1. Len(SubSeq(d, 1, Len(d) - 1)) = IF 1 <= Len(d) - 1 THEN Len(d) - 1 - 1 + 1 ELSE 0
          BY <3>1, SubSeqProperties
        <4>2. SubSeq(d, 1, Len(d) - 1) \in Seq(Nat)
          BY <3>1, SubSeqProperties
        <4> QED BY <3>1, <4>1, <4>2 DEF Parent
      <3> QED BY <3>1, <3>2 DEF Parent
    <2>4. Len(Parent(d)) < Len(d)
      BY <2>3
    <2>5. Before(Parent(d), d)
      BY <2>3, <2>4 DEF Before
    <2>6. Parent(d) # d
      BY <2>4
    <2>7. j # k /\ ~(k < j)
      BY <1>3, <2>2, <2>5, <2>6 DEF d
    <2>8. j \in 1 .. k - 1
      BY <1>1, <2>7
    <2> QED BY <2>2, <2>8 DEF d
  <1> QED BY <1>5, <1>6

(* What an attempt has done by the time it is in state st.                 *)
Checked == {"process_psar", "partition_flash", "format_flash", "mount_flash",
            "create_directories", "flash_files", "finish"}

(* The card has been recognised and the table read. *)
CheckedSoFar ==
  /\ st \in Checked => card = "genuine"
  /\ st \in Checked \ {"process_psar"} => opened /\ directories = ReadDirectories
  /\ st = "off" => ~touched
  /\ touched => card = "genuine" /\ opened

(* The records and the file systems are there. *)
FormattedSoFar ==
  /\ st = "partition_flash" => i <= 5 /\ \A r \in Records : r < i - 1 => r \in records
  /\ st \in Checked \ {"process_psar", "partition_flash"} => records = Records
  /\ st = "format_flash" => i <= 4 /\ \A f \in Flashes : f > 4 - i => f \in formatted
  /\ st \in {"mount_flash", "create_directories", "flash_files", "finish"} => formatted = Flashes

(* The directories and the files are there; the boot loader is being       *)
(* written only while its own entry is the current one.                    *)
CreatedSoFar ==
  /\ st = "create_directories" /\ ~failed =>
       \A k \in DOMAIN directories : k < i => directories[k] \in made
  /\ st \in {"flash_files", "finish"} => \A k \in DOMAIN directories : directories[k] \in made
  /\ st = "flash_files" =>
       \A k \in DOMAIN Table :
         k < i /\ Table[k].type \in {"file", "personalised"} => file[k] # "absent"
  /\ st = "finish" =>
       \A k \in DOMAIN Table : Table[k].type \in {"file", "personalised"} => file[k] # "absent"
  /\ ipl_pc # "idle" => st = "flash_files" /\ i \in DOMAIN Table /\ Table[i].type = "ipl"

(* The inductive invariant of the installation. *)
InstallerIndInv ==
  /\ InstallerTypeOK
  /\ IplTypeInd
  /\ CheckedSoFar
  /\ FormattedSoFar
  /\ CreatedSoFar

LEMMA InstallerStart == InstallerInit => InstallerIndInv
  <1> SUFFICES ASSUME InstallerInit PROVE InstallerIndInv
    OBVIOUS
  <1>1. IplTypeInd
    BY IplStart DEF InstallerInit, IplIndInv
  <1>2. InstallerTypeOK
    <2>1. /\ st = "off" /\ i = 1 /\ retry = 0 /\ card \in {"genuine", "other"}
          /\ mounted = {} /\ records = {} /\ formatted = {}
          /\ file = [k \in DOMAIN Table |-> "absent"]
      BY DEF InstallerInit
    <2>2. failed \in BOOLEAN /\ opened \in BOOLEAN /\ touched \in BOOLEAN
      BY DEF InstallerInit
    <2>3. retry \in 0 .. MAX_RETRY - 1
      BY <2>1, InstallerAssumption
    <2> QED BY <1>1, <2>1, <2>2, <2>3 DEF InstallerTypeOK, IplTypeInd
  <1>3. CheckedSoFar
    BY DEF InstallerInit, CheckedSoFar, Checked
  <1>4. FormattedSoFar
    BY DEF InstallerInit, FormattedSoFar, Checked
  <1>5. CreatedSoFar
    BY DEF InstallerInit, IplInit, CreatedSoFar
  <1> QED BY <1>1, <1>2, <1>3, <1>4, <1>5 DEF InstallerIndInv

LEMMA TableFacts ==
  /\ DOMAIN Table = 1 .. Len(Table) /\ Len(Table) \in Nat
  /\ DOMAIN ReadDirectories = 1 .. Len(ReadDirectories) /\ Len(ReadDirectories) \in Nat
  /\ \A k \in DOMAIN Table : Table[k].type = "directory" =>
       \E j \in DOMAIN ReadDirectories : ReadDirectories[j] = Table[k].path
  <1>1. DOMAIN Table = 1 .. Len(Table) /\ Len(Table) \in Nat
    BY InstallerAssumption
  <1>2. DOMAIN ReadDirectories = 1 .. Len(ReadDirectories) /\ Len(ReadDirectories) \in Nat
    BY QsortSorts DEF ReadDirectories
  <1>3. ASSUME NEW k \in DOMAIN Table, Table[k].type = "directory"
        PROVE  \E j \in DOMAIN ReadDirectories : ReadDirectories[j] = Table[k].path
    <2> DEFINE D == {j \in DOMAIN Table : Table[j].type = "directory"}
    <2>1. {ReadDirectories[j] : j \in DOMAIN ReadDirectories} = {Table[j].path : j \in D}
      BY QsortSorts DEF ReadDirectories
    <2>2. k \in D
      BY <1>3
    <2> HIDE DEF D
    <2>3. Table[k].path \in {Table[j].path : j \in D}
      BY <2>2
    <2>4. Table[k].path \in {ReadDirectories[j] : j \in DOMAIN ReadDirectories}
      BY <2>1, <2>3
    <2> QED BY <2>4
  <1> QED BY <1>1, <1>2, <1>3

(* A step that leaves the NAND alone, and where it can lead. *)
LEMMA QuietSteps ==
  ASSUME InstallerIndInv, press_x \/ mount_ms \/ check_updater \/ process_psar
  PROVE  InstallerIndInv'
  <1>1. /\ UNCHANGED <<retry, failed, mounted, flash, touched, iplvars>> /\ i' = 1
        /\ \/ /\ st = "off" /\ st' = "mount_ms" /\ card' \in {"genuine", "other"}
              /\ UNCHANGED <<opened, directories>>
           \/ /\ st = "mount_ms" /\ st' \in {"check_updater", "error"}
              /\ UNCHANGED <<card, opened, directories>>
           \/ /\ st = "check_updater" /\ UNCHANGED <<card, opened, directories>>
              /\ \/ st' = "process_psar" /\ card = "genuine"
                 \/ st' = "error"
           \/ /\ st = "process_psar" /\ card' = card
              /\ \/ opened' = TRUE /\ directories' = ReadDirectories /\ st' = "partition_flash"
                 \/ UNCHANGED <<opened, directories>> /\ st' = "error"
    BY DEF press_x, mount_ms, check_updater, process_psar, Goto
  <1>2. IplTypeInd'
    BY <1>1, IplTypeStep DEF InstallerIndInv
  <1>3. /\ failed' \in BOOLEAN /\ touched' \in BOOLEAN /\ opened' \in BOOLEAN
    <2>1. /\ failed' = failed /\ touched' = touched /\ (opened' = opened \/ opened' = TRUE)
      BY <1>1
    <2> QED BY <2>1 DEF InstallerIndInv, InstallerTypeOK
  <1>4. InstallerTypeOK'
    BY <1>1, <1>2, <1>3 DEF InstallerIndInv, InstallerTypeOK, IplTypeInd, flash
  <1>5. CheckedSoFar'
    BY <1>1 DEF InstallerIndInv, CheckedSoFar, Checked
  <1>6. FormattedSoFar'
    BY <1>1 DEF InstallerIndInv, FormattedSoFar, Checked, Records
  <1>7. CreatedSoFar'
    BY <1>1 DEF InstallerIndInv, CreatedSoFar, iplvars
  <1> QED BY <1>2, <1>4, <1>5, <1>6, <1>7 DEF InstallerIndInv

LEMMA PowerOffStep ==
  ASSUME InstallerIndInv, power_off
  PROVE  InstallerIndInv'
  <1>1. /\ st' = "off" /\ i' = 1 /\ retry' = 0 /\ mounted' = {} /\ UNCHANGED <<flash, card, bad, pages>>
        /\ ipl_pc' = "idle" /\ block_num' = 0 /\ num_written' = 0 /\ block_index' = <<>>
        /\ res' = 0 /\ unerased' = {}
        /\ nand' = [b \in Blocks |-> IF nand[b] = Erased THEN Erased ELSE Old]
    BY DEF power_off, Off
  <1>2. /\ failed' \in BOOLEAN /\ opened' \in BOOLEAN /\ touched' \in BOOLEAN /\ written' \in BOOLEAN
    BY DEF power_off, Off
  <1>3. ~touched'
    BY DEF power_off, Off
  <1>4. IplTypeInd'
    <2>1. block_index' \in Seq(DataBlocks) /\ DOMAIN nand' = Blocks
      BY <1>1
    <2>2. EndData \in Nat
      BY IplAssumption
    <2> QED BY <1>1, <1>2, <2>1, <2>2 DEF InstallerIndInv, IplTypeInd, IplTypeOK
  <1>5. InstallerTypeOK'
    <2>1. retry' \in 0 .. MAX_RETRY - 1
      BY <1>1, InstallerAssumption
    <2> QED BY <1>1, <1>2, <1>4, <2>1 DEF InstallerIndInv, InstallerTypeOK, IplTypeInd, flash
  <1>6. CheckedSoFar' /\ FormattedSoFar' /\ CreatedSoFar'
    BY <1>1, <1>3 DEF CheckedSoFar, FormattedSoFar, CreatedSoFar, Checked
  <1> QED BY <1>4, <1>5, <1>6 DEF InstallerIndInv

LEMMA PartitionStep ==
  ASSUME InstallerIndInv, partition_flash
  PROVE  InstallerIndInv'
  <1>1. /\ st = "partition_flash" /\ UNCHANGED <<retry, failed, card, opened, directories, mounted,
                                                  formatted, made, file, iplvars>>
        /\ \/ /\ records' = records \cup {i - 1}
              /\ \/ i - 1 = 4 /\ st' = "format_flash" /\ i' = 1
                 \/ i - 1 # 4 /\ st' = st /\ i' = i + 1
           \/ records' = records \ {i - 1} /\ st' = "error" /\ i' = 1
    BY DEF partition_flash, Goto, Continue
  <1>2. touched'
    BY DEF partition_flash
  <1>3. IplTypeInd'
    BY <1>1, IplTypeStep DEF InstallerIndInv
  <1>4. i \in 1 .. 5 /\ i - 1 \in Records
    BY <1>1 DEF InstallerIndInv, InstallerTypeOK, FormattedSoFar, Records
  <1>5. InstallerTypeOK'
    <2>1. touched' \in BOOLEAN
      BY DEF partition_flash
    <2>2. failed' \in BOOLEAN /\ opened' \in BOOLEAN
      BY <1>1 DEF InstallerIndInv, InstallerTypeOK
    <2> QED BY <1>1, <1>3, <1>4, <2>1, <2>2 DEF InstallerIndInv, InstallerTypeOK, IplTypeInd
  <1>6. CheckedSoFar'
    BY <1>1 DEF InstallerIndInv, CheckedSoFar, Checked
  <1>7. FormattedSoFar'
    <2>1. records \subseteq Records /\ \A r \in Records : r < i - 1 => r \in records
      BY <1>1 DEF InstallerIndInv, InstallerTypeOK, FormattedSoFar
    <2>2. CASE records' = records \cup {i - 1} /\ i - 1 = 4 /\ st' = "format_flash" /\ i' = 1
      <3>1. \A r \in Records : r < i - 1 \/ r = i - 1
        BY <2>2 DEF Records
      <3>2. \A r \in Records : r \in records'
        BY <2>1, <2>2, <3>1
      <3>3. records' \subseteq Records
        BY <1>4, <2>1, <2>2
      <3>4. records' = Records
        BY <3>2, <3>3
      <3> QED BY <2>2, <3>4 DEF FormattedSoFar, Checked, Flashes
    <2>3. CASE records' = records \cup {i - 1} /\ i - 1 # 4 /\ st' = st /\ i' = i + 1
      <3>1. i' <= 5 /\ \A r \in Records : r < i' - 1 => r \in records'
        BY <1>4, <2>1, <2>3 DEF Records
      <3> QED BY <1>1, <2>3, <3>1 DEF FormattedSoFar, Checked
    <2>4. CASE st' = "error"
      BY <2>4 DEF FormattedSoFar, Checked
    <2> QED BY <1>1, <2>2, <2>3, <2>4
  <1>8. CreatedSoFar'
    BY <1>1 DEF InstallerIndInv, CreatedSoFar, iplvars
  <1> QED BY <1>3, <1>5, <1>6, <1>7, <1>8 DEF InstallerIndInv

LEMMA FormatStep ==
  ASSUME InstallerIndInv, format_flash
  PROVE  InstallerIndInv'
  <1> DEFINE f == 4 - i
  <1>1. /\ st = "format_flash" /\ UNCHANGED <<retry, failed, card, opened, directories, mounted,
                                               records, iplvars>>
        /\ file' = [k \in DOMAIN Table |->
                      IF OnFlash(Table[k].path, f) THEN "absent" ELSE file[k]]
        /\ \/ /\ formatted' = formatted \cup {f}
              /\ \/ f = 0 /\ st' = "mount_flash" /\ i' = 1
                 \/ f # 0 /\ st' = st /\ i' = i + 1
           \/ formatted' = formatted \ {f} /\ st' = "error" /\ i' = 1
    BY DEF format_flash, Goto, Continue
  <1>2. IplTypeInd'
    BY <1>1, IplTypeStep DEF InstallerIndInv
  <1>3. i \in 1 .. 4 /\ f \in Flashes
    BY <1>1 DEF InstallerIndInv, InstallerTypeOK, FormattedSoFar, Flashes
  <1>4. InstallerTypeOK'
    <2>1. touched' \in BOOLEAN
      BY DEF format_flash
    <2>2. failed' \in BOOLEAN /\ opened' \in BOOLEAN
      BY <1>1 DEF InstallerIndInv, InstallerTypeOK
    <2>3. file' \in [DOMAIN Table -> {"absent", "partial", "whole"}]
      BY <1>1 DEF InstallerIndInv, InstallerTypeOK
    <2>4. formatted' \subseteq Flashes /\ i' \in Nat \ {0}
      BY <1>1, <1>3 DEF InstallerIndInv, InstallerTypeOK
    <2> QED BY <1>1, <1>2, <2>1, <2>2, <2>3, <2>4 DEF InstallerIndInv, InstallerTypeOK, IplTypeInd
  <1>5. CheckedSoFar'
    BY <1>1 DEF InstallerIndInv, CheckedSoFar, Checked
  <1>6. FormattedSoFar'
    <2>1. /\ formatted \subseteq Flashes /\ \A g \in Flashes : g > 4 - i => g \in formatted
          /\ records = Records
      BY <1>1 DEF InstallerIndInv, InstallerTypeOK, FormattedSoFar, Checked
    <2>2. CASE formatted' = formatted \cup {f} /\ f = 0 /\ st' = "mount_flash" /\ i' = 1
      <3>1. \A g \in Flashes : g > 4 - i \/ g = f
        BY <1>3, <2>2 DEF Flashes
      <3>2. \A g \in Flashes : g \in formatted'
        BY <2>1, <2>2, <3>1
      <3>3. formatted' \subseteq Flashes
        BY <1>3, <2>1, <2>2
      <3>4. formatted' = Flashes
        BY <3>2, <3>3
      <3> QED BY <1>1, <2>1, <2>2, <3>4 DEF FormattedSoFar, Checked
    <2>3. CASE formatted' = formatted \cup {f} /\ f # 0 /\ st' = st /\ i' = i + 1
      <3>1. i' <= 4 /\ \A g \in Flashes : g > 4 - i' => g \in formatted'
        BY <1>3, <2>1, <2>3 DEF Flashes
      <3> QED BY <1>1, <2>1, <2>3, <3>1 DEF FormattedSoFar, Checked
    <2>4. CASE st' = "error"
      BY <2>4 DEF FormattedSoFar, Checked
    <2> QED BY <1>1, <2>2, <2>3, <2>4
  <1>7. CreatedSoFar'
    BY <1>1 DEF InstallerIndInv, CreatedSoFar, iplvars
  <1> QED BY <1>2, <1>4, <1>5, <1>6, <1>7 DEF InstallerIndInv

LEMMA MountStep ==
  ASSUME InstallerIndInv, mount_flash
  PROVE  InstallerIndInv'
  <1>1. /\ st = "mount_flash" /\ UNCHANGED <<retry, failed, card, opened, directories, flash, touched,
                                              iplvars>>
        /\ st' \in {"mount_flash", "create_directories", "error"}
        /\ i' = 1 \/ (i' = i + 1 /\ st' = "mount_flash")
        /\ st' = "create_directories" => i' = 1
        /\ mounted' = mounted \/ (i - 1 \in formatted /\ mounted' = mounted \cup {i - 1})
    BY DEF mount_flash, Goto, Continue
  <1>2. IplTypeInd'
    BY <1>1, IplTypeStep DEF InstallerIndInv
  <1>3. InstallerTypeOK'
    <2>1. failed' \in BOOLEAN /\ opened' \in BOOLEAN /\ touched' \in BOOLEAN
      BY <1>1 DEF InstallerIndInv, InstallerTypeOK
    <2> QED BY <1>1, <1>2, <2>1 DEF InstallerIndInv, InstallerTypeOK, IplTypeInd, flash
  <1>4. CheckedSoFar'
    BY <1>1 DEF InstallerIndInv, CheckedSoFar, Checked
  <1>5. FormattedSoFar'
    BY <1>1 DEF InstallerIndInv, FormattedSoFar, Checked, flash
  <1>6. CreatedSoFar'
    <2>1. \A k \in DOMAIN directories : st' = "create_directories" => ~(k < i')
      <3>1. DOMAIN directories = 1 .. Len(ReadDirectories)
        BY <1>1, TableFacts DEF InstallerIndInv, CheckedSoFar, Checked
      <3> QED BY <1>1, <3>1, TableFacts
    <2> QED BY <1>1, <2>1 DEF InstallerIndInv, CreatedSoFar, iplvars
  <1> QED BY <1>2, <1>3, <1>4, <1>5, <1>6 DEF InstallerIndInv

LEMMA CreateDirectoryStep ==
  ASSUME InstallerIndInv, create_directory
  PROVE  InstallerIndInv'
  <1> DEFINE d == directories[i]
  <1>1. /\ st = "create_directories" /\ st' = st /\ i <= Len(directories)
        /\ UNCHANGED <<card, opened, directories, mounted, records, formatted, file, iplvars>>
        /\ made' = made \/ made' = made \cup {d}
        /\ \/ made' = made \cup {d} /\ retry' = 0 /\ i' = i + 1 /\ failed' = failed
           \/ retry + 1 < MAX_RETRY /\ retry' = retry + 1 /\ failed' = failed /\ i' = i
           \/ retry' = 0 /\ failed' = TRUE /\ i' = i + 1
    BY DEF create_directory, Continue
  <1>2. IplTypeInd'
    BY <1>1, IplTypeStep DEF InstallerIndInv
  <1>3. InstallerTypeOK'
    <2>1. touched' \in BOOLEAN
      BY DEF create_directory
    <2>2. failed' \in BOOLEAN /\ opened' \in BOOLEAN
      BY <1>1 DEF InstallerIndInv, InstallerTypeOK
    <2>3. retry' \in 0 .. MAX_RETRY - 1 /\ i' \in Nat \ {0}
      BY <1>1, InstallerAssumption DEF InstallerIndInv, InstallerTypeOK
    <2> QED BY <1>1, <1>2, <2>1, <2>2, <2>3 DEF InstallerIndInv, InstallerTypeOK, IplTypeInd
  <1>4. CheckedSoFar'
    BY <1>1 DEF InstallerIndInv, CheckedSoFar, Checked
  <1>5. FormattedSoFar'
    BY <1>1 DEF InstallerIndInv, FormattedSoFar, Checked
  <1>6. CreatedSoFar'
    <2>1. ASSUME ~failed', NEW k \in DOMAIN directories, k < i' PROVE directories[k] \in made'
      <3>1. k \in Nat /\ i \in Nat
        <4>1. DOMAIN directories = 1 .. Len(ReadDirectories)
          BY <1>1, TableFacts DEF InstallerIndInv, CheckedSoFar, Checked
        <4> QED BY <4>1, TableFacts DEF InstallerIndInv, InstallerTypeOK
      <3>2. ~failed /\ \A j \in DOMAIN directories : j < i => directories[j] \in made
        BY <1>1, <2>1 DEF InstallerIndInv, CreatedSoFar
      <3>3. CASE made' = made \cup {d} /\ i' = i + 1
        BY <2>1, <3>1, <3>2, <3>3
      <3>4. CASE i' = i
        BY <1>1, <2>1, <3>2, <3>4
      <3> QED BY <1>1, <2>1, <3>3, <3>4
    <2> QED BY <1>1, <2>1 DEF InstallerIndInv, CreatedSoFar, iplvars
  <1> QED BY <1>2, <1>3, <1>4, <1>5, <1>6 DEF InstallerIndInv

LEMMA DirectoriesEndStep ==
  ASSUME InstallerIndInv, create_directories_end
  PROVE  InstallerIndInv'
  <1>1. /\ st = "create_directories" /\ i > Len(directories) /\ i' = 1
        /\ UNCHANGED <<retry, failed, card, opened, directories, mounted, flash, touched, iplvars>>
        /\ st' = IF failed THEN "error" ELSE "flash_files"
    BY DEF create_directories_end, Goto
  <1>2. IplTypeInd'
    BY <1>1, IplTypeStep DEF InstallerIndInv
  <1>3. InstallerTypeOK'
    <2>1. failed' \in BOOLEAN /\ opened' \in BOOLEAN /\ touched' \in BOOLEAN
      BY <1>1 DEF InstallerIndInv, InstallerTypeOK
    <2>2. st' \in {"error", "flash_files"}
      BY <1>1
    <2> QED BY <1>1, <1>2, <2>1, <2>2 DEF InstallerIndInv, InstallerTypeOK, IplTypeInd, flash
  <1>4. CheckedSoFar'
    BY <1>1 DEF InstallerIndInv, CheckedSoFar, Checked
  <1>5. FormattedSoFar'
    BY <1>1 DEF InstallerIndInv, FormattedSoFar, Checked, flash
  <1>6. CreatedSoFar'
    <2>1. DOMAIN directories = 1 .. Len(directories) /\ Len(directories) \in Nat /\ i \in Nat
      BY <1>1, TableFacts DEF InstallerIndInv, InstallerTypeOK, CheckedSoFar, Checked
    <2>2. st' = "flash_files" => \A k \in DOMAIN directories : directories[k] \in made
      BY <1>1, <2>1 DEF InstallerIndInv, CreatedSoFar
    <2>3. \A k \in DOMAIN Table : ~(k < 1)
      BY TableFacts
    <2> QED BY <1>1, <2>2, <2>3 DEF InstallerIndInv, CreatedSoFar, iplvars, flash
  <1> QED BY <1>2, <1>3, <1>4, <1>5, <1>6 DEF InstallerIndInv

(* The steps of psar_read_each_file over an entry that is not the boot     *)
(* loader, and its end.                                                    *)
LEMMA FilesStep ==
  ASSUME InstallerIndInv, flash_skip \/ flash_read_error \/ flash_file \/ flash_files_end
  PROVE  InstallerIndInv'
  <1>1. /\ st = "flash_files"
        /\ UNCHANGED <<retry, failed, card, opened, directories, mounted, records, formatted, made,
                       iplvars>>
        /\ \/ /\ i \in DOMAIN Table /\ Table[i].type = "directory"
              /\ file' = file /\ st' = st /\ i' = i + 1
           \/ /\ ipl_pc = "idle" /\ file' = file /\ st' = "error" /\ i' = 1
           \/ /\ i \in DOMAIN Table /\ Table[i].type \in {"file", "personalised"}
              /\ \E r \in {"partial", "whole"} : file' = [file EXCEPT ![i] = r]
              /\ st' = st /\ i' = i + 1
           \/ /\ i \in DOMAIN Table /\ Table[i].type \in {"file", "personalised"}
              /\ file' = file \/ file' = [file EXCEPT ![i] = "partial"]
              /\ st' = "error" /\ i' = 1
           \/ i > Len(Table) /\ file' = file /\ st' = "finish" /\ i' = 1
    BY DEF flash_skip, flash_read_error, flash_file, flash_files_end, Goto, Continue, flash
  <1>2. ipl_pc' = ipl_pc /\ IplTypeInd'
    <2>1. ipl_pc' = ipl_pc
      BY <1>1 DEF iplvars
    <2> QED BY <1>1, <2>1, IplTypeStep DEF InstallerIndInv
  <1>3. touched' \in BOOLEAN /\ (touched' \/ ~touched')
    <2>1. touched' = touched \/ touched' = TRUE
      BY DEF flash_skip, flash_read_error, flash_file, flash_files_end
    <2> QED BY <2>1 DEF InstallerIndInv, InstallerTypeOK
  <1>4. file' \in [DOMAIN Table -> {"absent", "partial", "whole"}] /\ i' \in Nat \ {0}
    BY <1>1 DEF InstallerIndInv, InstallerTypeOK
  <1>5. InstallerTypeOK'
    <2>1. failed' \in BOOLEAN /\ opened' \in BOOLEAN
      BY <1>1 DEF InstallerIndInv, InstallerTypeOK
    <2> QED BY <1>1, <1>2, <1>3, <1>4, <2>1 DEF InstallerIndInv, InstallerTypeOK, IplTypeInd
  <1>6. CheckedSoFar'
    BY <1>1 DEF InstallerIndInv, CheckedSoFar, Checked
  <1>7. FormattedSoFar'
    BY <1>1 DEF InstallerIndInv, FormattedSoFar, Checked
  <1>8. CreatedSoFar'
    <2>1. /\ \A k \in DOMAIN Table :
               k < i /\ Table[k].type \in {"file", "personalised"} => file[k] # "absent"
          /\ \A k \in DOMAIN directories : directories[k] \in made
          /\ i \in Nat /\ \A k \in DOMAIN Table : k \in Nat /\ k <= Len(Table)
          /\ Len(Table) \in Nat
          /\ file \in [DOMAIN Table -> {"absent", "partial", "whole"}]
      BY <1>1, TableFacts DEF InstallerIndInv, CreatedSoFar, InstallerTypeOK
    <2>2. ipl_pc # "idle" => i \in DOMAIN Table /\ Table[i].type = "ipl"
      BY DEF InstallerIndInv, CreatedSoFar
    <2>3. CASE /\ i \in DOMAIN Table /\ Table[i].type = "directory"
               /\ file' = file /\ st' = st /\ i' = i + 1
      <3>1. \A k \in DOMAIN Table : k < i + 1 => k < i \/ k = i
        BY <2>1
      <3>2. \A k \in DOMAIN Table :
              k < i' /\ Table[k].type \in {"file", "personalised"} => file'[k] # "absent"
        BY <2>1, <2>3, <3>1
      <3> QED BY <1>1, <1>2, <2>1, <2>2, <2>3, <3>2 DEF CreatedSoFar
    <2>4. CASE st' = "error" /\ ipl_pc = "idle"
      BY <1>2, <2>4 DEF CreatedSoFar
    <2>5. CASE /\ i \in DOMAIN Table /\ Table[i].type \in {"file", "personalised"}
               /\ \E r \in {"partial", "whole"} : file' = [file EXCEPT ![i] = r]
               /\ st' = st /\ i' = i + 1
      <3>1. \A k \in DOMAIN Table : k < i + 1 => k < i \/ k = i
        BY <2>1
      <3>2. file'[i] # "absent" /\ \A k \in DOMAIN Table : k # i => file'[k] = file[k]
        BY <2>1, <2>5
      <3>3. \A k \in DOMAIN Table :
              k < i' /\ Table[k].type \in {"file", "personalised"} => file'[k] # "absent"
        BY <2>1, <2>5, <3>1, <3>2
      <3> QED BY <1>1, <1>2, <2>1, <2>2, <2>5, <3>3 DEF CreatedSoFar
    <2>6. CASE i > Len(Table) /\ file' = file /\ st' = "finish" /\ i' = 1
      <3>1. ipl_pc = "idle" /\ \A k \in DOMAIN Table : k < i
        BY <2>1, <2>2, <2>6
      <3> QED BY <1>1, <1>2, <2>1, <2>6, <3>1 DEF CreatedSoFar
    <2>7. CASE i \in DOMAIN Table /\ Table[i].type \in {"file", "personalised"} /\ st' = "error"
      <3>1. ipl_pc = "idle"
        BY <2>2, <2>7
      <3> QED BY <2>4, <2>7, <3>1
    <2> QED BY <1>1, <2>3, <2>4, <2>5, <2>6, <2>7
  <1> QED BY <1>2, <1>5, <1>6, <1>7, <1>8 DEF InstallerIndInv

LEMMA BootLoaderStep ==
  ASSUME InstallerIndInv, flash_ipl \/ flash_ipl_returns
  PROVE  InstallerIndInv'
  <1>1. /\ st = "flash_files" /\ st' = st /\ i \in DOMAIN Table
        /\ UNCHANGED <<retry, failed, card, opened, directories, mounted, flash>>
        /\ \/ Table[i].type = "ipl" /\ IplNext /\ i' = i
           \/ /\ ipl_pc = "done" /\ ipl_pc' = "idle" /\ i' = i + 1
              /\ UNCHANGED <<nand, bad, pages, block_num, num_written, block_index, written, res, unerased>>
    BY DEF flash_ipl, flash_ipl_returns, volatile, Continue
  <1>2. IplTypeInd'
    <2>1. CASE IplNext
      BY <2>1, IplTypeStep DEF InstallerIndInv
    <2>2. CASE /\ ipl_pc' = "idle"
               /\ UNCHANGED <<nand, bad, pages, block_num, num_written, block_index, written, res, unerased>>
      <3>1. written' \in BOOLEAN
        BY <2>2 DEF InstallerIndInv, IplTypeInd, IplTypeOK
      <3> QED BY <2>2, <3>1 DEF InstallerIndInv, IplTypeInd, IplTypeOK
    <2> QED BY <1>1, <2>1, <2>2
  <1>3. touched' \in BOOLEAN
    <2>1. touched' = touched \/ touched' = TRUE
      BY DEF flash_ipl, flash_ipl_returns
    <2> QED BY <2>1 DEF InstallerIndInv, InstallerTypeOK
  <1>4. InstallerTypeOK'
    <2>1. failed' \in BOOLEAN /\ opened' \in BOOLEAN
      BY <1>1 DEF InstallerIndInv, InstallerTypeOK
    <2>2. i' \in Nat \ {0}
      BY <1>1 DEF InstallerIndInv, InstallerTypeOK
    <2> QED BY <1>1, <1>2, <1>3, <2>1, <2>2 DEF InstallerIndInv, InstallerTypeOK, IplTypeInd, flash
  <1>5. CheckedSoFar'
    BY <1>1 DEF InstallerIndInv, CheckedSoFar, Checked
  <1>6. FormattedSoFar'
    BY <1>1 DEF InstallerIndInv, FormattedSoFar, Checked, flash
  <1>7. CreatedSoFar'
    <2>1. ipl_pc = "done" => Table[i].type = "ipl"
      BY DEF InstallerIndInv, CreatedSoFar
    <2>2. \A k \in DOMAIN Table : k < i + 1 => k < i \/ k = i
      BY TableFacts DEF InstallerIndInv, InstallerTypeOK
    <2>3. \A k \in DOMAIN Table :
            k < i' /\ Table[k].type \in {"file", "personalised"} => file'[k] # "absent"
      BY <1>1, <2>1, <2>2 DEF InstallerIndInv, CreatedSoFar, flash
    <2> QED BY <1>1, <2>3 DEF InstallerIndInv, CreatedSoFar, flash
  <1> QED BY <1>2, <1>4, <1>5, <1>6, <1>7 DEF InstallerIndInv

LEMMA InstallerStep == InstallerIndInv /\ [InstallerNext]_installervars => InstallerIndInv'
  <1> SUFFICES ASSUME InstallerIndInv, [InstallerNext]_installervars PROVE InstallerIndInv'
    OBVIOUS
  <1>1. CASE UNCHANGED installervars
    <2>1. IplTypeInd'
      BY <1>1, IplTypeStep DEF InstallerIndInv, installervars
    <2>2. failed' \in BOOLEAN /\ opened' \in BOOLEAN /\ touched' \in BOOLEAN
      BY <1>1 DEF InstallerIndInv, InstallerTypeOK, installervars, volatile
    <2>3. InstallerTypeOK'
      BY <1>1, <2>1, <2>2 DEF InstallerIndInv, InstallerTypeOK, IplTypeInd, installervars, volatile, flash
    <2>4. CheckedSoFar'
      BY <1>1 DEF InstallerIndInv, CheckedSoFar, installervars, volatile
    <2>5. FormattedSoFar' /\ CreatedSoFar'
      BY <1>1 DEF InstallerIndInv, FormattedSoFar, CreatedSoFar, installervars, volatile, flash, iplvars
    <2> QED BY <2>1, <2>3, <2>4, <2>5 DEF InstallerIndInv
  <1> QED BY <1>1, QuietSteps, PowerOffStep, PartitionStep, FormatStep, MountStep,
             CreateDirectoryStep, DirectoriesEndStep, FilesStep, BootLoaderStep DEF InstallerNext

(* The states of app/aiseirigh/states, for any table of the update and any *)
(* sequence of failures, power cuts and new attempts: the NAND is not      *)
(* touched before the updater has been recognised and read, and the        *)
(* directories are made in an order in which each parent comes first.      *)
THEOREM NothingTouchedUnchecked == InstallerSpec => []InstallerInv
  <1>1. InstallerIndInv => InstallerInv
    <2> SUFFICES ASSUME InstallerIndInv PROVE InstallerInv
      OBVIOUS
    <2>1. CheckedBeforeTouched
      BY DEF InstallerIndInv, CheckedSoFar, CheckedBeforeTouched
    <2>2. ParentsFirst
      <3> SUFFICES ASSUME st = "create_directories", i <= Len(directories)
                   PROVE  \/ Len(directories[i]) = 2
                          \/ \E k \in 1 .. i - 1 : directories[k] = Parent(directories[i])
        BY DEF ParentsFirst
      <3>1. directories = ReadDirectories /\ i \in Nat \ {0}
        BY DEF InstallerIndInv, CheckedSoFar, Checked, InstallerTypeOK
      <3>2. i \in DOMAIN ReadDirectories
        BY <3>1, TableFacts
      <3> QED BY <3>1, <3>2, ParentSortedFirst
    <2> QED BY <2>1, <2>2 DEF InstallerInv, InstallerIndInv
  <1> QED BY <1>1, InstallerStart, InstallerStep, PTL DEF InstallerSpec

(* "Done." means that the partition table is whole, every partition has a  *)
(* file system and every directory and file of the table was created by    *)
(* this attempt, whatever earlier attempts left.                           *)
THEOREM DoneMeansFlashed == InstallerSpec => []FinishMeansFlashed
  <1>1. InstallerIndInv => FinishMeansFlashed
    <2> SUFFICES ASSUME InstallerIndInv, st = "finish"
                 PROVE  /\ records = Records /\ formatted = Flashes
                        /\ \A k \in DOMAIN Table :
                             /\ Table[k].type = "directory" => Table[k].path \in made
                             /\ Table[k].type \in {"file", "personalised"} => file[k] # "absent"
      BY DEF FinishMeansFlashed
    <2>1. records = Records /\ formatted = Flashes
      BY DEF InstallerIndInv, FormattedSoFar, Checked
    <2>2. directories = ReadDirectories /\ \A k \in DOMAIN directories : directories[k] \in made
      BY DEF InstallerIndInv, CheckedSoFar, CreatedSoFar, Checked
    <2>3. \A k \in DOMAIN Table : Table[k].type = "directory" => Table[k].path \in made
      BY <2>2, TableFacts
    <2> QED BY <2>1, <2>2, <2>3 DEF InstallerIndInv, CreatedSoFar
  <1> QED BY <1>1, InstallerStart, InstallerStep, PTL DEF InstallerSpec
=============================================================================
