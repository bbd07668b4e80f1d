------------------------------ MODULE MCStorage ------------------------------
(* What is kept on flash, and the container it comes from, for TLC: the    *)
(* updater as it is read, the boot loader as it is written, and the two    *)
(* file systems.  A behaviour is of one of them.                           *)
EXTENDS Ipl, Psar, Spifs, Norfs

Plain(n, file, length) ==
  [name |-> n, is_file |-> file, size |-> length, expanded_size |-> length + 1, lines |-> <<>>]
Table(n, text) ==
  [name |-> n, is_file |-> TRUE, size |-> 1, expanded_size |-> 2, lines |-> text]
Line(n, p) == [name |-> n, path |-> p]

(* Files, a directory and the boot loader in an order other than that of   *)
(* the table, one file installed twice, one not at all and one name used   *)
(* twice.                                                                  *)
Text == << Line("f2", "a"), Line("d1", "b"), Line("ipl", "ipl"), Line("f1", "c"), Line("f2", "d") >>
LaidOneByOne(s) ==
  [k \in DOMAIN s |->
     [at |-> FoldLeft(LAMBDA a, e : a + e.size + 1, 0, SubSeq(s, 1, k - 1))] @@ s[k]]
Contents(text) ==
  << Plain("f1", TRUE, 2), Table("00001", <<Line("f1", "x")>>), Plain("d1", FALSE, 0),
     Plain("f2", TRUE, 1), Table("00002", text), Plain("f2", TRUE, 1),
     Plain("ipl", TRUE, 3), Plain("f3", TRUE, 1) >>

Updaters ==
  [pbp : BOOLEAN, firmware : {"6.61", "6.60"},
   entries : { LaidOneByOne(s) : s \in
             { Contents(Text),
               Contents(Append(Text, Line("f9", "e"))),        \* names no entry
               Contents(<<Line("f1", "a"), Line("d1", "b")>>),  \* no boot loader
               SubSeq(Contents(Text), 1, 3),                    \* no table
               Append(Contents(Text), Plain("f4", TRUE, 9)) }}]  \* too big

VARIABLE part   (* which of them this behaviour is of *)

vars == <<iplvars, psarvars, spifsvars, norfsvars, part>>

(* The other parts are in some initial state. *)
Init ==
  /\ IplInit
  /\ PsarInit
  /\ SpifsInit
  /\ NorfsInit
  /\ part \in {"ipl", "psar", "spifs", "norfs"}
  /\ part # "ipl" => bad = {} /\ pages = CHOOSE n \in IplPages : TRUE
  /\ part # "psar" => container = CHOOSE c \in Updaters : TRUE

Boot == part = "ipl" /\ IplNext /\ UNCHANGED <<psarvars, spifsvars, norfsvars, part>>
Updater == part = "psar" /\ PsarNext /\ UNCHANGED <<iplvars, spifsvars, norfsvars, part>>
FlatFiles == part = "spifs" /\ SpifsNext /\ UNCHANGED <<iplvars, psarvars, norfsvars, part>>
Objects == part = "norfs" /\ NorfsNext /\ UNCHANGED <<iplvars, psarvars, spifsvars, part>>

Next == Boot \/ Updater \/ FlatFiles \/ Objects

Spec == Init /\ [][Next]_vars

(* norfs alone. *)
NorfsOnly == Init /\ part = "norfs" /\ [][Next]_vars
=============================================================================
