-------------------------------- MODULE Port --------------------------------
(***************************************************************************)
(* kernel/port.c: named write ports, read ports with a packet buffer each, *)
(* and a group through which several read ports are read.  Every call is   *)
(* one critical section under the thread lock, with three exceptions: a    *)
(* reader leaves the lock while it is blocked, port_create leaves it       *)
(* between the look-up and the insertion, and port_close reschedules while *)
(* it wakes the readers, before it marks the port as closed.               *)
(*                                                                         *)
(* Writers and readers are any threads; one thread opens, groups, closes   *)
(* and destroys ports.  Packets are numbered per write port.               *)
(***************************************************************************)
EXTENDS Integers, Sequences, FiniteSets, SequencesExt

CONSTANTS
  Readers,     (* the threads that read                                   *)
  WPorts,      (* the write ports that can be created                     *)
  RPorts,      (* the read ports that can be opened                       *)
  Group,       (* the port group                                          *)
  Names,       (* the names of the write ports                            *)
  NULL,
  BufSize,     (* packets in a buffer (PORT_BUFF_SIZE)                    *)
  Counts,      (* the counts passed to port_write                         *)
  MaxPackets   (* bound: packets written to a port                        *)

ASSUME PortAssumption ==
  /\ IsFiniteSet(Readers)
  /\ Group \notin WPorts \cup RPorts
  /\ WPorts \cap RPorts = {}
  /\ NULL \notin WPorts \cup RPorts \cup {Group} \cup Seq(Nat)
  /\ BufSize \in Nat \ {0}
  /\ Counts \subseteq Nat \ {0}
  /\ MaxPackets \in Nat

VARIABLES
  write_port_list,  (* the created write ports, in order of creation      *)
  wp,               (* write ports: magic ("none", "alloc" before it is in *)
                    (* the list, "W", "X" closed, "gone" freed), name,    *)
                    (* unicast, buf (NULL when a reader has it), readers  *)
  rp,               (* read ports: magic ("none", "R", "gone"), buf,      *)
                    (* wport, gport (it points to the group)              *)
  pg,               (* the group: magic ("none", "G", "gone") and rp_list *)
  waitq,            (* the wait queue of each read port and of the group  *)
  reader,           (* reader threads: at (the port of the call, or NULL), *)
                    (* blocked and ret (the result of the wait)           *)
  closing,          (* the port whose port_close is rescheduling, or NULL *)
  fault,            (* "none", or why the kernel has gone wrong           *)
  written,          (* history: packets written to each write port        *)
  refused,          (* history: those whose write returned an error       *)
  seen,             (* history: the last packet taken from each read port, *)
                    (* and from each write port by the readers it had     *)
  misuse            (* history of calls after which less can be promised: *)
                    (* "unwoken", one wake-up for several packets or a    *)
                    (* port read both directly and through the group;     *)
                    (* "stale", a port removed from the group or closed   *)
                    (* while a woken reader has not run; "same name"      *)

portstate == <<write_port_list, wp, rp, pg, waitq, reader, closing, fault>>
portvars == <<portstate, written, refused, seen, misuse>>

PortInit ==
  /\ write_port_list = <<>>
  /\ wp = [w \in WPorts |-> [magic |-> "none", name |-> NULL, unicast |-> FALSE,
                             buf |-> NULL, readers |-> <<>>]]
  /\ rp = [r \in RPorts |-> [magic |-> "none", buf |-> NULL, wport |-> NULL, gport |-> FALSE]]
  /\ pg = [magic |-> "none", rp_list |-> <<>>]
  /\ waitq = [q \in RPorts \cup {Group} |-> <<>>]
  /\ reader = [t \in Readers |->
                 [at |-> NULL, blocked |-> FALSE, ret |-> "NO_ERROR"]]
  /\ closing = NULL
  /\ fault = "none"
  /\ written = [w \in WPorts |-> 0]
  /\ refused = [w \in WPorts |-> {}]
  /\ seen = [p \in WPorts \cup RPorts |-> 0]
  /\ misuse = {}

Running == fault = "none"
Admin   == Running /\ closing = NULL
OfOthers == <<written, refused, seen>>

Queues == RPorts \cup {Group}

(* list_delete of the element e of a list. *)
Unlinked(s, e) ==
  IF e \in Range(s) THEN RemoveAt(s, CHOOSE i \in DOMAIN s : s[i] = e) ELSE s

(* The first n[q] threads of each queue q are woken with result ret.       *)
WakeFirst(n, ret) ==
  /\ waitq' = [q \in Queues |-> SubSeq(waitq[q], n[q] + 1, Len(waitq[q]))]
  /\ reader' = [t \in Readers |->
                  IF \E q \in Queues : \E i \in 1 .. n[q] : waitq[q][i] = t
                  THEN [reader[t] EXCEPT !.blocked = FALSE, !.ret = ret] ELSE reader[t]]

AtMost(n, q) == IF n <= Len(waitq[q]) THEN n ELSE Len(waitq[q])
wake_one(q, ret) == WakeFirst([p \in Queues |-> IF p = q THEN AtMost(1, q) ELSE 0], ret)
wake_all(S, ret) == WakeFirst([p \in Queues |-> IF p \in S THEN Len(waitq[p]) ELSE 0], ret)

Named(name) == {i \in DOMAIN write_port_list : wp[write_port_list[i]].name = name}

(* port_create, up to the end of its first critical section; a port of     *)
(* that name that is in the list is returned instead, or ERR_BUSY.         *)
port_create(w, name, unicast) ==
  /\ Running
  /\ wp[w].magic = "none"
  /\ Named(name) = {}
  /\ wp' = [wp EXCEPT ![w] = [magic |-> "alloc", name |-> name, unicast |-> unicast,
                              buf |-> <<>>, readers |-> <<>>]]
  /\ UNCHANGED <<write_port_list, rp, pg, waitq, reader, closing, fault, OfOthers, misuse>>

(* ... and the second one, which does not look again. *)
port_create_inserts(w) ==
  /\ Running
  /\ wp[w].magic = "alloc"
  /\ wp' = [wp EXCEPT ![w].magic = "W"]
  /\ write_port_list' = Append(write_port_list, w)
  /\ misuse' = misuse \cup (IF Named(wp[w].name) # {} THEN {"same name"} ELSE {})
  /\ UNCHANGED <<rp, pg, waitq, reader, closing, fault, OfOthers>>

(* The first reader takes over the write port's buffer and what is in it,  *)
(* a further one of a broadcast port gets a buffer of its own.             *)
port_open(r, w) ==
  /\ wp[w].buf # NULL \/ ~wp[w].unicast           \* else ERR_NOT_ALLOWED
  /\ rp' = [rp EXCEPT ![r] = [magic |-> "R", buf |-> IF wp[w].buf # NULL THEN wp[w].buf ELSE <<>>,
                              wport |-> w, gport |-> FALSE]]
  /\ wp' = [wp EXCEPT ![w].buf = NULL, ![w].readers = Append(@, r)]
  /\ seen' = [seen EXCEPT ![r] = IF wp[w].buf # NULL THEN seen[w] ELSE written[w]]

(* port_open by name: the first write port of that name, closed or not. *)
Open(r, name) ==
  /\ Admin
  /\ rp[r].magic = "none"
  /\ Named(name) # {}
  /\ port_open(r, write_port_list[CHOOSE i \in Named(name) : \A j \in Named(name) : i <= j])
  /\ UNCHANGED <<write_port_list, pg, waitq, reader, closing, fault, written, refused, misuse>>

(* Readers of r that are blocked, or woken and not yet back. *)
Using(q) == {t \in Readers : reader[t].at = q}

(* A port that threads read directly while it is in a group. *)
Shared(r) == IF Using(r) # {} THEN {"unwoken"} ELSE {}

(* port_group with the list s; on any port that is not an open read port   *)
(* without a group everything is undone and ERR_BAD_HANDLE returned.       *)
port_group(s) ==
  /\ Admin
  /\ pg.magic = "none"
  /\ \A r \in Range(s) : rp[r].magic = "R" /\ ~rp[r].gport
  /\ pg' = [magic |-> "G", rp_list |-> s]
  /\ rp' = [r \in RPorts |-> IF r \in Range(s) THEN [rp[r] EXCEPT !.gport = TRUE] ELSE rp[r]]
  /\ misuse' = misuse \cup UNION {Shared(r) : r \in Range(s)}
  /\ UNCHANGED <<write_port_list, wp, waitq, reader, closing, fault, OfOthers>>

(* Mutant: the packets that are there already wake nobody. *)
port_group_add_Silent(r) ==
  /\ Admin
  /\ pg.magic = "G" /\ rp[r].magic = "R" /\ ~rp[r].gport
  /\ pg' = [pg EXCEPT !.rp_list = Append(@, r)]
  /\ rp' = [rp EXCEPT ![r].gport = TRUE]
  /\ misuse' = misuse \cup Shared(r)
  /\ UNCHANGED <<write_port_list, wp, waitq, reader, closing, fault, OfOthers>>

(* One thread is woken for all the packets the port brings along. *)
port_group_add(r) ==
  /\ Admin
  /\ pg.magic = "G" /\ rp[r].magic = "R" /\ ~rp[r].gport
  /\ pg' = [pg EXCEPT !.rp_list = Append(@, r)]
  /\ rp' = [rp EXCEPT ![r].gport = TRUE]
  /\ IF rp[r].buf # <<>>
     THEN wake_one(Group, "NO_ERROR")
     ELSE UNCHANGED <<waitq, reader>>
  /\ misuse' = misuse \cup Shared(r) \cup (IF Len(rp[r].buf) > 1 THEN {"unwoken"} ELSE {})
  /\ UNCHANGED <<write_port_list, wp, closing, fault, OfOthers>>

(* The port leaves the list and keeps its pointer to the group; a second   *)
(* removal returns ERR_BAD_HANDLE without releasing the thread lock.       *)
port_group_remove(r) ==
  /\ Admin
  /\ pg.magic = "G" /\ rp[r].magic = "R" /\ rp[r].gport
  /\ IF r \in Range(pg.rp_list)
     THEN pg' = [pg EXCEPT !.rp_list = Unlinked(@, r)] /\ UNCHANGED fault
     ELSE fault' = "thread lock kept" /\ UNCHANGED pg
  /\ misuse' = misuse \cup {"stale"}
  /\ UNCHANGED <<write_port_list, wp, rp, waitq, reader, closing, OfOthers>>

(* port_write goes through the read ports of w.  Those at these places of  *)
(* the list have room.                                                     *)
Takers(w, count) ==
  {i \in DOMAIN wp[w].readers : Len(rp[wp[w].readers[i]].buf) + count <= BufSize}

(* ... and, up to the i-th, are in a group.  Each of these wakes a thread  *)
(* of the group, as long as there is one.                                  *)
Grouped(w, count, i) == {j \in Takers(w, count) : j <= i /\ rp[wp[w].readers[j]].gport}

WakesGroup(w, count, i) ==
  /\ rp[wp[w].readers[i]].gport
  /\ Cardinality(Grouped(w, count, i)) <= Len(waitq[Group])

(* How many threads each queue loses. *)
WokenBy(w, count) ==
  [q \in Queues |->
     IF q = Group THEN AtMost(Cardinality(Grouped(w, count, Len(wp[w].readers))), Group)
     ELSE IF \E i \in Takers(w, count) : wp[w].readers[i] = q /\ ~WakesGroup(w, count, i)
     THEN AtMost(1, q) ELSE 0]

port_write(w, count) ==
  LET packets == [k \in 1 .. count |-> written[w] + k]
      takers == {wp[w].readers[i] : i \in Takers(w, count)}
      refuses == IF wp[w].buf # NULL THEN Len(wp[w].buf) + count > BufSize
                                     ELSE takers # Range(wp[w].readers)
  IN  /\ Running
      /\ wp[w].magic = "W"
      /\ written[w] + count <= MaxPackets
      /\ written' = [written EXCEPT ![w] = @ + count]
      /\ refused' = [refused EXCEPT ![w] = IF refuses THEN @ \cup Range(packets) ELSE @]
      /\ IF wp[w].buf # NULL
         THEN /\ wp' = IF refuses THEN wp ELSE [wp EXCEPT ![w].buf = @ \o packets]
              /\ UNCHANGED <<rp, waitq, reader, fault, misuse>>
         ELSE /\ rp' = [r \in RPorts |->
                         IF r \in takers THEN [rp[r] EXCEPT !.buf = @ \o packets] ELSE rp[r]]
              /\ WakeFirst(WokenBy(w, count), "NO_ERROR")
              /\ fault' = IF pg.magic # "G" /\ \E r \in takers : rp[r].gport
                          THEN "freed group" ELSE fault
              /\ misuse' = misuse \cup (IF count > 1 THEN {"unwoken"} ELSE {})
              /\ UNCHANGED wp
      /\ UNCHANGED <<write_port_list, pg, closing, seen>>

(* The read ports that reading q looks at, in order. *)
Sources(q) == IF q = Group THEN pg.rp_list ELSE <<q>>

Closed(q) == IF q = Group THEN pg.magic = "gone" ELSE rp[q].magic = "gone"

Ready(q) == {i \in DOMAIN Sources(q) : rp[Sources(q)[i]].buf # <<>>}

(* One pass of port_read by t: the first port with a packet gives it, ...  *)
TakePacket(t, q) ==
  /\ Ready(q) # {}
  /\ LET r == Sources(q)[CHOOSE i \in Ready(q) : \A j \in Ready(q) : i <= j]
     IN  /\ rp' = [rp EXCEPT ![r].buf = Tail(@)]
         /\ seen' = [seen EXCEPT ![r] = Head(rp[r].buf)]
  /\ reader' = [reader EXCEPT ![t].at = NULL]
  /\ UNCHANGED <<waitq, fault>>

(* ... or the thread joins the queue of the port or group it was given; a  *)
(* port whose buffer port_close has taken away is a null pointer.          *)
Block(t, q) ==
  /\ Ready(q) = {}
  /\ reader' = [reader EXCEPT ![t] = [at |-> q, blocked |-> TRUE, ret |-> "NO_ERROR"]]
  /\ waitq' = [waitq EXCEPT ![q] = Append(@, t)]
  /\ UNCHANGED <<rp, seen, fault>>

Pass(t, q) ==
  IF q # Group /\ rp[q].buf = NULL
  THEN fault' = "null buffer" /\ UNCHANGED <<rp, waitq, reader, seen>>
  ELSE TakePacket(t, q) \/ Block(t, q)

(* port_read of a read port or of the group, waiting for ever or until     *)
(* read_timeout.  With timeout 0 a call that finds nothing returns         *)
(* ERR_TIMED_OUT and changes nothing.                                      *)
port_read(t, q) ==
  /\ Running
  /\ reader[t].at = NULL
  /\ IF q = Group THEN pg.magic = "G" ELSE rp[q].magic = "R"
  /\ Pass(t, q)
  /\ misuse' = misuse \cup (IF q = closing THEN {"stale"} ELSE {})
                      \cup (IF q \in RPorts /\ q # closing /\ rp[q].gport THEN {"unwoken"} ELSE {})
  /\ UNCHANGED <<write_port_list, wp, pg, closing, written, refused>>

(* Back from wait_queue_block: an error ends the call, otherwise another   *)
(* pass, on memory that may be gone.                                       *)
port_read_returns(t) ==
  LET q == reader[t].at
  IN  /\ Running
      /\ q # NULL
      /\ ~reader[t].blocked
      /\ \/ /\ reader[t].ret # "NO_ERROR"
            /\ reader' = [reader EXCEPT ![t].at = NULL]
            /\ UNCHANGED <<rp, waitq, seen, fault>>
         \/ /\ reader[t].ret = "NO_ERROR"
            /\ Closed(q)
            /\ fault' = "freed port"
            /\ UNCHANGED <<rp, waitq, reader, seen>>
         \/ /\ reader[t].ret = "NO_ERROR"
            /\ ~Closed(q)
            /\ Pass(t, q)
      /\ UNCHANGED <<write_port_list, wp, pg, closing, written, refused, misuse>>

read_timeout(t) ==
  /\ Running
  /\ reader[t].blocked
  /\ waitq' = [waitq EXCEPT ![reader[t].at] = Unlinked(@, t)]
  /\ reader' = [reader EXCEPT ![t].blocked = FALSE, ![t].ret = "ERR_TIMED_OUT"]
  /\ UNCHANGED <<write_port_list, wp, rp, pg, closing, fault, OfOthers, misuse>>

(* port_close of a write port: it can still be opened and read. *)
close_write(w) ==
  /\ Admin
  /\ wp[w].magic = "W"
  /\ wp' = [wp EXCEPT ![w].magic = "X"]
  /\ UNCHANGED <<write_port_list, rp, pg, waitq, reader, closing, fault, OfOthers, misuse>>

(* A port is closed under a reader that was woken and has not run. *)
InUse(q) ==
  IF \E t \in Using(q) : ~reader[t].blocked /\ reader[t].ret = "NO_ERROR" THEN {"stale"} ELSE {}

(* Mutant: the write port gets an empty buffer back from its last reader. *)
close_read_EmptiesBuffer(r) ==
  LET w == rp[r].wport
      others == Unlinked(wp[w].readers, r)
  IN  /\ IF w = NULL
         THEN UNCHANGED <<wp, rp, seen>>
         ELSE /\ wp' = [wp EXCEPT ![w].readers = others,
                                  ![w].buf = IF others = <<>> THEN <<>> ELSE NULL]
              /\ rp' = [rp EXCEPT ![r].buf = NULL]
              /\ seen' = IF others = <<>> THEN [seen EXCEPT ![w] = seen[r]] ELSE seen

(* A read port leaves the list of its write port; the last one gives its   *)
(* buffer back.                                                            *)
close_read(r) ==
  LET w == rp[r].wport
      others == Unlinked(wp[w].readers, r)
  IN  /\ IF w = NULL
         THEN UNCHANGED <<wp, rp, seen>>
         ELSE /\ wp' = [wp EXCEPT ![w].readers = others,
                                  ![w].buf = IF others = <<>> THEN rp[r].buf ELSE NULL]
              /\ rp' = IF others = <<>> THEN [rp EXCEPT ![r].buf = NULL] ELSE rp
              /\ seen' = IF others = <<>> THEN [seen EXCEPT ![w] = seen[r]] ELSE seen

(* port_close of a read port, up to where wait_queue_destroy reschedules.  *)
(* A port that was removed from its group is taken out of the list again,  *)
(* through null pointers.                                                  *)
port_close(r) ==
  /\ Admin
  /\ rp[r].magic = "R"
  /\ close_read(r)
  /\ IF rp[r].gport /\ r \notin Range(pg.rp_list)
     THEN fault' = "list node" /\ UNCHANGED pg
     ELSE /\ pg' = [pg EXCEPT !.rp_list = Unlinked(@, r)]
          /\ UNCHANGED fault
  /\ wake_all({r}, "ERR_OBJECT_DESTROYED")
  /\ closing' = r
  /\ misuse' = misuse \cup InUse(r)
  /\ UNCHANGED <<write_port_list, written, refused>>

(* port_close of the group. *)
close_group ==
  /\ Admin
  /\ pg.magic = "G"
  /\ wake_all({Group}, "ERR_OBJECT_DESTROYED")
  /\ closing' = Group
  /\ misuse' = misuse \cup InUse(Group)
  /\ UNCHANGED <<write_port_list, wp, rp, pg, fault, OfOthers>>

(* Mutant: the members keep their pointer to the group. *)
port_close_ends_KeepsLinks ==
  /\ Running
  /\ closing # NULL
  /\ closing' = NULL
  /\ IF closing = Group
     THEN pg' = [magic |-> "gone", rp_list |-> <<>>] /\ UNCHANGED rp
     ELSE rp' = [rp EXCEPT ![closing].magic = "gone"] /\ UNCHANGED pg
  /\ seen' = [p \in DOMAIN seen |-> IF p = closing THEN 0 ELSE seen[p]]
  /\ misuse' = misuse \cup InUse(closing)
  /\ UNCHANGED <<write_port_list, wp, waitq, reader, fault, written, refused>>

(* The rest of port_close, when the closing thread runs again: the members *)
(* of a group forget it, and the memory is freed.                          *)
port_close_ends ==
  /\ Running
  /\ closing # NULL
  /\ closing' = NULL
  /\ IF closing = Group
     THEN /\ rp' = [r \in RPorts |-> [rp[r] EXCEPT !.gport = @ /\ r \notin Range(pg.rp_list)]]
          /\ pg' = [magic |-> "gone", rp_list |-> <<>>]
     ELSE /\ rp' = [rp EXCEPT ![closing] = [magic |-> "gone", buf |-> NULL, wport |-> NULL,
                                            gport |-> FALSE]]
          /\ UNCHANGED pg
  /\ seen' = [p \in DOMAIN seen |-> IF p = closing THEN 0 ELSE seen[p]]
  /\ misuse' = misuse \cup InUse(closing)
  /\ UNCHANGED <<write_port_list, wp, waitq, reader, fault, written, refused>>

(* port_destroy of a closed write port: its readers, and the readers of    *)
(* the groups they are in, get ERR_CANCELLED.                              *)
port_destroy(w) ==
  LET readers == Range(wp[w].readers)
      groups == IF \E r \in readers : rp[r].gport THEN {Group} ELSE {}
  IN  /\ Admin
      /\ wp[w].magic = "X"
      /\ write_port_list' = Unlinked(write_port_list, w)
      /\ wake_all(readers \cup groups, "ERR_CANCELLED")
      /\ rp' = [r \in RPorts |-> IF r \in readers THEN [rp[r] EXCEPT !.wport = NULL] ELSE rp[r]]
      /\ fault' = IF pg.magic # "G" /\ groups # {} THEN "freed group" ELSE fault
      /\ wp' = [wp EXCEPT ![w] = [magic |-> "gone", name |-> NULL, unicast |-> FALSE,
                                  buf |-> NULL, readers |-> <<>>]]
      /\ written' = [written EXCEPT ![w] = 0]
      /\ refused' = [refused EXCEPT ![w] = {}]
      /\ seen' = [seen EXCEPT ![w] = 0]
      /\ UNCHANGED <<pg, closing, misuse>>

(* Lists of distinct read ports, of at most two. *)
PortLists == {<<>>} \cup {<<r>> : r \in RPorts} \cup
             ({<<r, q>> : r \in RPorts, q \in RPorts} \ {<<r, r>> : r \in RPorts})

PortNext ==
  \/ \E w \in WPorts :
       \/ \E name \in Names, unicast \in BOOLEAN : port_create(w, name, unicast)
       \/ port_create_inserts(w)
       \/ \E count \in Counts : port_write(w, count)
       \/ close_write(w)
       \/ port_destroy(w)
  \/ \E r \in RPorts :
       \/ \E name \in Names : Open(r, name)
       \/ port_group_add(r)
       \/ port_group_remove(r)
       \/ port_close(r)
  \/ \E s \in PortLists : port_group(s)
  \/ close_group
  \/ port_close_ends
  \/ \E t \in Readers :
       \/ \E q \in RPorts \cup {Group} : port_read(t, q)
       \/ port_read_returns(t)
       \/ read_timeout(t)

PortSpec == PortInit /\ [][PortNext]_portvars
-----------------------------------------------------------------------------
Increasing(s) == \A i, j \in DOMAIN s : i < j => s[i] < s[j]

(* b holds, in order, every packet of w after the n-th that was accepted. *)
HoldsAllAfter(b, w, n) ==
  /\ Increasing(b)
  /\ \A p \in Range(b) : p > n
  /\ \A p \in n + 1 .. written[w] : p \in Range(b) \cup refused[w]

(* No packet is lost, repeated or overtaken without the writer being told: *)
(* what was written without an error and not yet read is in the buffer of  *)
(* the reader, or in the write port's while it has none, also after the    *)
(* buffer went to a reader and back.                                       *)
NoSilentLoss ==
  /\ \A r \in RPorts :
       rp[r].magic = "R" /\ rp[r].wport # NULL /\ closing # r =>
         HoldsAllAfter(rp[r].buf, rp[r].wport, seen[r])
  /\ \A w \in WPorts :
       wp[w].magic \in {"W", "X"} /\ wp[w].buf # NULL => HoldsAllAfter(wp[w].buf, w, seen[w])

(* A write port that is in the list has its buffer exactly while nobody    *)
(* reads it, a unicast one has at most one reader, and unless two creators *)
(* of one name overtook each other no name is there twice.                 *)
PortsOwnBuffers ==
  /\ \A i \in DOMAIN write_port_list :
       LET p == wp[write_port_list[i]]
       IN  /\ p.buf = NULL <=> p.readers # <<>>
           /\ p.unicast => Len(p.readers) <= 1
  /\ "same name" \in misuse \/ \A name \in Names : Cardinality(Named(name)) <= 1

Packets(q) == UNION {{<<r, p>> : p \in Range(rp[r].buf)} : r \in Range(Sources(q))}

(* No reader sleeps beside a packet: while threads wait on a port or on    *)
(* the group, every packet there has a woken thread coming for it.  Not so *)
(* after one wake-up for several packets, after reading a port both        *)
(* directly and through the group, or after port_group_remove.             *)
NoReaderAsleep ==
  misuse \cap {"unwoken", "stale"} = {} /\ Running =>
    \A q \in (RPorts \cup {Group}) \ {closing} :
      waitq[q] # <<>> =>
        Cardinality(Packets(q)) <=
          Cardinality({t \in Using(q) : ~reader[t].blocked /\ reader[t].ret = "NO_ERROR"})

(* Nothing is touched after it was freed and no lock is kept, as long as   *)
(* no port is removed from the group and no port is closed under a reader  *)
(* that was woken and has not run, or entered while it closes.             *)
NoFault == "stale" \notin misuse => fault = "none"

(* Ports, buffers and names belong together as port_open, port_close and   *)
(* port_destroy mean them to, and none is used after it was freed.         *)
PortInv == PortsOwnBuffers /\ NoFault
=============================================================================
