-------------------------------- MODULE Cbuf --------------------------------
(***************************************************************************)
(* lib/cbuf/cbuf.c: a circular buffer with one slot always free, filled by *)
(* an interrupt handler or a thread and emptied by threads that wait on    *)
(* its event.  The event is waited for outside the buffer's lock; what is  *)
(* done under the lock is one step.                                        *)
(***************************************************************************)
EXTENDS Event

CONSTANTS
  CbufSize,       (* valpow2(len_pow2), the length of the buffer           *)
  MaxBytes,       (* bound: bytes accepted over the buffer's life          *)
  ReadSizes       (* the buflen arguments of the readers                   *)

ASSUME CbufAssumption ==
  /\ CbufSize \in Nat /\ CbufSize >= 2
  /\ MaxBytes \in Nat
  /\ ReadSizes \subseteq Nat \ {0}

VARIABLES
  cb_head, cb_tail,  (* cbuf->head, cbuf->tail                            *)
  cb_buf,            (* cbuf->buf; the n-th byte accepted is the number n *)
  cb_pc,             (* reader: "out", "wait" before or inside event_wait, *)
                     (* "take" between event_wait and the lock            *)
  cb_len,            (* reader: buflen of its current or last call        *)
  accepted,          (* history: bytes accepted by the writers            *)
  got                (* history: the bytes delivered, in order            *)

cbvars == <<cb_head, cb_tail, cb_buf, cb_pc, cb_len, accepted, got>>

CbufInit ==
  /\ cb_head = 0
  /\ cb_tail = 0
  /\ cb_buf = [i \in 0 .. CbufSize - 1 |-> 0]
  /\ cb_pc = [t \in Threads |-> "out"]
  /\ cb_len = [t \in Threads |-> 1]
  /\ accepted = 0
  /\ got = <<>>

Minimum(a, b) == IF a < b THEN a ELSE b

INC_POINTER(ptr, inc) == (ptr + inc) % CbufSize

cbuf_space_used(head) == (head - cb_tail) % CbufSize

cbuf_space_avail(head) == CbufSize - cbuf_space_used(head) - 1

cbuf_initialize ==
  /\ event_init(FALSE, FALSE)
  /\ UNCHANGED cbvars

(* Mutant: a run that starts behind the tail always goes to the end of the *)
(* buffer, also when the tail is at 0.                                     *)
write_len_NoSpecialCase(head, left) ==
  IF head >= cb_tail
  THEN Minimum(CbufSize - head, left)
  ELSE Minimum(cb_tail - head - 1, left)

(* How much one pass of cbuf_write's loop copies to head. *)
write_len(head, left) ==
  CASE head >= cb_tail /\ cb_tail = 0 -> Minimum(CbufSize - head - 1, left)
    [] head >= cb_tail /\ cb_tail # 0 -> Minimum(CbufSize - head, left)
    [] head < cb_tail                 -> Minimum(cb_tail - head - 1, left)

(* One pass of the loop over w = [head, buf, pos], to write len bytes.     *)
WritePass(w, len) ==
  LET n == write_len(w.head, len - w.pos)
  IN  IF w.pos < len /\ cbuf_space_avail(w.head) > 0
      THEN [head |-> INC_POINTER(w.head, n),
            buf  |-> [i \in DOMAIN w.buf |->
                        IF i \in w.head .. w.head + n - 1
                        THEN accepted + w.pos + (i - w.head) + 1 ELSE w.buf[i]],
            pos  |-> w.pos + n]
      ELSE w

(* The whole loop: a second pass after the wrap, and then nothing is left  *)
(* to write or no room.                                                    *)
WriteLoop(len) ==
  WritePass(WritePass([head |-> cb_head, buf |-> cb_buf, pos |-> 0], len), len)

(* cbuf_write, by a thread or an interrupt handler. *)
cbuf_write(len) ==
  LET w == WriteLoop(len)
  IN  /\ ev_life = "live"
      /\ len < CbufSize
      /\ accepted + w.pos <= MaxBytes
      /\ cb_head' = w.head
      /\ cb_buf' = w.buf
      /\ accepted' = accepted + w.pos
      /\ IF w.head # cb_tail
         THEN event_signal /\ UNCHANGED signals
         ELSE UNCHANGED <<wqvars, eventvars>>
      /\ UNCHANGED <<cb_tail, cb_pc, cb_len, got>>

cbuf_write_char ==
  /\ ev_life = "live"
  /\ accepted < MaxBytes
  /\ cbuf_space_avail(cb_head) > 0
  /\ cb_buf' = [cb_buf EXCEPT ![cb_head] = accepted + 1]
  /\ cb_head' = INC_POINTER(cb_head, 1)
  /\ accepted' = accepted + 1
  /\ IF cb_head' # cb_tail
     THEN event_signal /\ UNCHANGED signals
     ELSE UNCHANGED <<wqvars, eventvars>>
  /\ UNCHANGED <<cb_tail, cb_pc, cb_len, got>>

(* One pass of cbuf_read's loop over r = [tail, pos, out], for len bytes.  *)
ReadPass(r, len) ==
  LET n == IF cb_head > r.tail
           THEN Minimum(cb_head - r.tail, len - r.pos)
           ELSE Minimum(CbufSize - r.tail, len - r.pos)
  IN  IF r.pos < len /\ r.tail # cb_head
      THEN [tail |-> INC_POINTER(r.tail, n),
            pos  |-> r.pos + n,
            out  |-> r.out \o [i \in 1 .. n |-> cb_buf[r.tail + i - 1]]]
      ELSE r

ReadLoop(len) == ReadPass(ReadPass([tail |-> cb_tail, pos |-> 0, out |-> <<>>], len), len)

(* The critical section of cbuf_read and, with len = 1, of cbuf_read_char, *)
(* when there is something to read.                                        *)
TakeBytes(len) ==
  LET r == ReadLoop(len)
  IN  /\ cb_tail # cb_head
      /\ cb_tail' = r.tail
      /\ got' = got \o r.out
      /\ IF r.tail = cb_head THEN event_unsignal ELSE UNCHANGED <<wqvars, eventvars>>

(* cbuf_read without block; finding nothing it returns 0. *)
cbuf_read_nonblock(t, len) ==
  /\ ev_life = "live"
  /\ cb_pc[t] = "out"
  /\ TakeBytes(len)
  /\ UNCHANGED <<cb_head, cb_buf, cb_pc, cb_len, accepted>>

(* cbuf_read with block: the event is waited for first ... *)
cbuf_read(t, len) ==
  /\ ev_life = "live"
  /\ cb_pc[t] = "out"
  /\ cb_pc' = [cb_pc EXCEPT ![t] = "wait"]
  /\ cb_len' = [cb_len EXCEPT ![t] = len]
  /\ UNCHANGED <<wqvars, eventvars, cb_head, cb_tail, cb_buf, accepted, got>>

cbuf_read_waits(t) ==
  /\ cb_pc[t] = "wait"
  /\ event_wait_timeout(t, INFINITE)
  /\ cb_pc' = [cb_pc EXCEPT ![t] = IF signaled THEN "take" ELSE "wait"]
  /\ UNCHANGED <<cb_head, cb_tail, cb_buf, cb_len, accepted, got>>

cbuf_read_woken(t) ==
  /\ cb_pc[t] = "wait"
  /\ event_wait_returns(t)
  /\ cb_pc' = [cb_pc EXCEPT ![t] = "take"]
  /\ UNCHANGED <<cb_head, cb_tail, cb_buf, cb_len, accepted, got>>

(* ... and then the lock is taken.  Another reader may have been faster:   *)
(* goto retry.                                                             *)
cbuf_read_takes(t) ==
  /\ cb_pc[t] = "take"
  /\ \/ /\ TakeBytes(cb_len[t])
        /\ cb_pc' = [cb_pc EXCEPT ![t] = "out"]
     \/ /\ cb_tail = cb_head
        /\ cb_pc' = [cb_pc EXCEPT ![t] = "wait"]
        /\ UNCHANGED <<wqvars, eventvars, cb_tail, got>>
  /\ UNCHANGED <<cb_head, cb_buf, cb_len, accepted>>

CbufNext ==
  \/ cbuf_initialize
  \/ \E len \in 1 .. CbufSize - 1 : cbuf_write(len)
  \/ cbuf_write_char
  \/ \E t \in Threads :
       \/ \E len \in ReadSizes : cbuf_read(t, len) \/ cbuf_read_nonblock(t, len)
       \/ cbuf_read_waits(t)
       \/ cbuf_read_woken(t)
       \/ cbuf_read_takes(t)

CbufSpec ==
  /\ WaitQueueInit /\ EventInit /\ CbufInit
  /\ [][CbufNext]_<<wqvars, eventvars, cbvars>>
-----------------------------------------------------------------------------
(* Types of the buffer. *)
CbufTypeOK ==
  /\ cb_head \in 0 .. CbufSize - 1
  /\ cb_tail \in 0 .. CbufSize - 1
  /\ cb_buf \in [0 .. CbufSize - 1 -> 0 .. MaxBytes]
  /\ cb_pc \in [Threads -> {"out", "wait", "take"}]
  /\ cb_len \in [Threads -> Nat]
  /\ accepted \in 0 .. MaxBytes
  /\ got \in Seq(1 .. MaxBytes)

(* What cbuf_write accepts is what the readers get: every byte once, in    *)
(* order, across the end of the buffer and however the readers race; the   *)
(* bytes not yet delivered are the used part of the buffer.                *)
CbufFifo ==
  /\ Len(got) + cbuf_space_used(cb_head) = accepted
  /\ \A i \in DOMAIN got : got[i] = i
  /\ \A k \in 0 .. cbuf_space_used(cb_head) - 1 :
       cb_buf[INC_POINTER(cb_tail, k)] = Len(got) + k + 1

(* The event says whether there is something to read, although it is       *)
(* waited for outside the lock; so no reader is left asleep beside bytes.  *)
SignaledMeansData ==
  accepted > 0 => /\ signaled <=> cb_head # cb_tail
                  /\ Waiting # {} => cb_head = cb_tail

(* Bytes and event agree: every byte is delivered once, and no reader is   *)
(* left asleep beside one (cbuf_write against cbuf_read).                  *)
CbufInv == CbufTypeOK /\ CbufFifo /\ SignaledMeansData
=============================================================================
