---------------------------- MODULE MCApplication ----------------------------
(* The installer application for TLC: its gamepad library, its state       *)
(* machine, and what its states do to the flash.  A behaviour is of one of *)
(* them.                                                                   *)
EXTENDS StateMachine, Installer

(* One reader per trigger; the state machine's thread is the first. *)
PadReaders == {"on_press", "r", "h"}
PadTriggers == [x \in PadReaders |->
                  CASE x = "on_press" -> "press" [] x = "r" -> "release" [] x = "h" -> "hold"]

(* A table in which a directory comes after one that is inside it, with    *)
(* an empty directory that is not the last one, files on both partitions   *)
(* and the boot loader between them.                                       *)
SmallTable ==
  << [type |-> "directory",    path |-> <<0, 1, 2>>],
     [type |-> "file",         path |-> <<0, 1, 7>>],
     [type |-> "directory",    path |-> <<0, 1>>],
     [type |-> "directory",    path |-> <<1, 1>>],
     [type |-> "ipl",          path |-> <<>>],
     [type |-> "personalised", path |-> <<1, 1, 7>>] >>

VARIABLE part   (* which of them this behaviour is of *)

vars == <<allvars, installervars, part>>

(* The other parts are in some initial state. *)
Init ==
  /\ SMInit
  /\ InstallerInit
  /\ part \in {"gamepad", "machine", "installer"}
  /\ part # "installer" => card = "genuine" /\ bad = {}

Readings == part = "gamepad" /\ PadNext /\ UNCHANGED <<smvars, installervars, part>>
Machine  == part = "machine" /\ SMNext /\ UNCHANGED <<installervars, part>>
Installs == part = "installer" /\ InstallerNext /\ UNCHANGED <<allvars, part>>

Next == Readings \/ Machine \/ Installs

(* The state machine's fairness. *)
Spec ==
  /\ Init
  /\ [][Next]_vars
  /\ WF_vars(part = "machine" /\ MainStep /\ UNCHANGED <<installervars, part>>)

(* The installation alone. *)
InstallerOnly == Init /\ part = "installer" /\ [][Next]_vars
=============================================================================
