-------------------------------- MODULE I2cp --------------------------------
(***************************************************************************)
(* The I2C peripheral driver of the g chip (chip/g/i2cp.c) serving a TPM   *)
(* host.  The controller writes a message (a register address, then data  *)
(* for a write) into the write register file; the write-complete interrupt *)
(* unpacks the new bytes, one 32-bit word at a time, and hands them to the *)
(* TPM layer's callback, which for a one-byte message posts the register   *)
(* contents into the read register file for the controller's next read.   *)
(* A deferred poller counts the polls that see SDA low between two write   *)
(* completions and restarts the driver at three, to unwedge a controller   *)
(* that stopped clocking while the peripheral held SDA low.               *)
(*                                                                         *)
(* Both register files are functions from byte offsets to bytes; a word    *)
(* is the four bytes at 4a .. 4a+3, so a read-modify-write of a word is    *)
(* modelled by the bytes it keeps and the bytes it replaces.              *)
(***************************************************************************)
EXTENDS Naturals, Sequences

CONSTANTS
    REGISTER_FILE_SIZE,   \* bytes in each register file (64 in the code)
    DataBytes,            \* byte values the controller and the TPM send
    MaxMsg,               \* longest message the controller writes
    RespLens,             \* response lengths the TPM layer posts
    MaxTrans,             \* controller transactions in a behaviour
    MaxStuck,             \* transactions the controller abandons mid-byte
    CountBits             \* width of i2cp_read_recovery_count (16 in the code)

ASSUME REGISTER_FILE_SIZE \in {4, 8, 16, 32, 64}
ASSUME MaxMsg < REGISTER_FILE_SIZE /\ RespLens \subseteq 1 .. REGISTER_FILE_SIZE - 1

READ_STATUS_CHECK_THRESHOLD == 3

\* (x) & REGISTER_FILE_MASK on a pointer; a power of two, so x % size
Mask(x) == x % REGISTER_FILE_SIZE
Words == REGISTER_FILE_SIZE \div 4
Offsets == 0 .. REGISTER_FILE_SIZE - 1
AllOnes == 255
Byte == DataBytes \cup {0, AllOnes}
Msgs == UNION {[1 .. n -> DataBytes] : n \in 1 .. MaxMsg}
Resps == UNION {[1 .. n -> DataBytes] : n \in RespLens}

Word(f, a) == [k \in 0 .. 3 |-> f[4 * a + k]]
SetWord(f, a, w) == [i \in Offsets |-> IF i \div 4 = a THEN w[i % 4] ELSE f[i]]

VARIABLES
    wfile, write_ptr, last_write_pointer,   \* controller-write file, WRITE_PTR
    rfile, read_ptr, last_read_pointer,     \* controller-read file, READ_PTR
    pending,                  \* INT_STATE.INTR_WRITE_COMPLETE
    i2cp_sda_low_count, i2cp_read_recovery_count,
    pollPc, pollCount,        \* poll_read_state between its load and store
    sdaHeld,                  \* the peripheral holds SDA low, nobody clocks
    ctl,                      \* the controller (TPM host)
    trans, stuckN,            \* transactions started, abandoned
    ack,                      \* the TPM layer's ready signal to the host
    wrote, sentMsg, gotMsg,   \* bytes written since the last handler call
    posted                    \* bytes posted and not yet clocked out

vars == <<wfile, write_ptr, last_write_pointer, rfile, read_ptr,
          last_read_pointer, pending, i2cp_sda_low_count,
          i2cp_read_recovery_count, pollPc, pollCount, sdaHeld, ctl, trans,
          stuckN, ack, wrote, sentMsg, gotMsg, posted>>

----------------------------------------------------------------------------
(* Write side: _i2cp_write_complete_int                                   *)

\* word_in_value before the loop: fetched only if the pointer is unaligned
UnpackStart_noFetch(f, lwp) == [k \in 0 .. 3 |-> 0]
UnpackStart(f, lwp) ==
    IF lwp % 4 # 0 THEN Word(f, lwp \div 4) ELSE [k \in 0 .. 3 |-> 0]

\* the copy loop: a new word at each aligned pointer, one byte per pass
RECURSIVE UnpackLoop(_, _, _, _, _)
UnpackLoop(f, lwp, wiv, n, acc) ==
    IF n = 0 THEN [lwp |-> lwp, bytes |-> acc]
    ELSE LET w == IF lwp % 4 = 0 THEN Word(f, lwp \div 4) ELSE wiv
         IN  UnpackLoop(f, Mask(lwp + 1), w, n - 1, Append(acc, w[lwp % 4]))

----------------------------------------------------------------------------
(* Read side: the calls the TPM layer makes to post a response            *)

i2cp_post_read_data(f, lrp, b) ==
    [f |-> [f EXCEPT ![lrp] = b], lrp |-> Mask(lrp + 1)]

RECURSIVE PostBytes(_, _, _)
PostBytes(f, lrp, buf) ==
    IF buf = <<>> THEN [f |-> f, lrp |-> lrp]
    ELSE LET r == i2cp_post_read_data(f, lrp, Head(buf))
         IN  PostBytes(r.f, r.lrp, Tail(buf))

\* the register the first byte goes to: last_read_pointer >> 2
FirstWord_masked(lrp) == lrp % Words
FirstWord(lrp) == lrp \div 4

RECURSIVE FillWords(_, _, _)
FillWords(f, a, buf) ==
    IF buf = <<>> THEN [f |-> f, a |-> a]
    ELSE FillWords(SetWord(f, a, [k \in 0 .. 3 |-> buf[k + 1]]),
                   (a + 1) % Words, SubSeq(buf, 5, Len(buf)))

i2cp_post_read_fill_fifo(f, lrp, buf) ==
    LET start == lrp % 4
        rem   == (4 - start) % 4
        head  == IF rem # 0 /\ buf # <<>>
                 THEN IF Len(buf) < rem THEN Len(buf) ELSE rem ELSE 0
        a0    == FirstWord(lrp)
        \* bytes below start_offset kept, the remainder bytes or'ed in
        f1    == IF head = 0 THEN f
                 ELSE SetWord(f, a0, [k \in 0 .. 3 |->
                          IF k < start THEN Word(f, a0)[k]
                          ELSE IF k < start + head THEN buf[k - start + 1]
                          ELSE 0])
        a1    == IF head = 0 THEN a0 ELSE (a0 + 1) % Words
        rest  == SubSeq(buf, head + 1, Len(buf))
        nw    == Len(rest) \div 4
        mid   == FillWords(f1, a1, SubSeq(rest, 1, 4 * nw))
        tail  == SubSeq(rest, 4 * nw + 1, Len(rest))
        \* the last word keeps its bytes from remainder_bytes upwards
        f3    == IF tail = <<>> THEN mid.f
                 ELSE SetWord(mid.f, mid.a, [k \in 0 .. 3 |->
                          IF k < Len(tail) THEN tail[k + 1]
                          ELSE Word(mid.f, mid.a)[k]])
    IN  [f |-> f3, lrp |-> Mask(lrp + Len(buf))]

\* last_read_pointer after i2cp_zero_read_fifo_buffer_depth
i2cp_zero_read_fifo_buffer_depth(lrp, hw) ==
    IF Mask(lrp - hw) # 0 THEN hw ELSE lrp

----------------------------------------------------------------------------
(* The driver                                                             *)

\* board_unwedge_i2cp generates a stop sequence when the SDA monitor is low
check_i2cp_state_noUnwedge == sdaHeld' = sdaHeld
check_i2cp_state == sdaHeld' = FALSE

\* i2cp_register_write_complete_handler(write_complete_handler_): the IRQ is
\* off while i2cp_init resets both files' pointers, and on again after
i2cp_init ==
    /\ check_i2cp_state
    /\ last_write_pointer' = 0 /\ last_read_pointer' = 0
    /\ i2cp_sda_low_count' = 0
    /\ read_ptr' = 0 /\ write_ptr' = 0
    /\ rfile' = SetWord(rfile, 0, [k \in 0 .. 3 |-> AllOnes])
    /\ wrote' = <<>> /\ posted' = <<>>

Init ==
    /\ wfile = [i \in Offsets |-> 0]
    /\ rfile = SetWord([i \in Offsets |-> 0], 0, [k \in 0 .. 3 |-> AllOnes])
    /\ write_ptr = 0 /\ last_write_pointer = 0
    /\ read_ptr = 0 /\ last_read_pointer = 0
    /\ pending = FALSE
    /\ i2cp_sda_low_count = 0 /\ i2cp_read_recovery_count = 0
    /\ pollPc = "idle" /\ pollCount = 0
    /\ sdaHeld = FALSE
    /\ ctl = [pc |-> "idle", msg |-> <<>>, left |-> 0, wantRead |-> FALSE,
              sampled |-> FALSE]
    /\ trans = 0 /\ stuckN = 0 /\ ack = FALSE
    /\ wrote = <<>> /\ sentMsg = <<>> /\ gotMsg = <<>> /\ posted = <<>>

\* The TPM layer's callback (not in this repository): a one-byte message is
\* a read request; it drops unread bytes and posts the register's contents
\* with either posting call.  Every call ends with the ready signal.
write_complete_handler(msg) ==
    /\ ack' = TRUE
    /\ IF Len(msg) = 1
       THEN \E resp \in Resps, bytewise \in BOOLEAN :
              LET l0 == i2cp_zero_read_fifo_buffer_depth(last_read_pointer,
                                                         read_ptr)
                  r  == IF bytewise THEN PostBytes(rfile, l0, resp)
                        ELSE i2cp_post_read_fill_fifo(rfile, l0, resp)
              IN  /\ rfile' = r.f /\ last_read_pointer' = r.lrp
                  /\ posted' = resp
       ELSE UNCHANGED <<rfile, last_read_pointer, posted>>

i2cp_write_complete_int ==
    /\ pending
    /\ LET bytes_written == Mask(write_ptr - last_write_pointer)
           r == UnpackLoop(wfile, last_write_pointer,
                           UnpackStart(wfile, last_write_pointer),
                           bytes_written, <<>>)
       IN  /\ last_write_pointer' = r.lwp
           /\ gotMsg' = r.bytes
           /\ write_complete_handler(r.bytes)
    /\ pending' = FALSE
    /\ i2cp_sda_low_count' = 0
    /\ sentMsg' = wrote /\ wrote' = <<>>
    /\ UNCHANGED <<wfile, write_ptr, read_ptr, i2cp_read_recovery_count,
                   pollPc, pollCount, sdaHeld, ctl, trans, stuckN>>

\* SDA as a poll sees it: low while held; during a transaction either level,
\* at most one poll per transaction (700 ms apart, transactions < 1 ms)
SdaLow ==
    IF sdaHeld THEN {TRUE}
    ELSE IF ctl.pc \in {"write", "read"} /\ ~ctl.sampled THEN BOOLEAN
    ELSE {FALSE}

\* poll_read_state up to the load of i2cp_sda_low_count++
PollSample ==
    /\ pollPc = "idle"
    /\ \E low \in SdaLow :
         /\ ctl' = IF ctl.pc \in {"write", "read"}
                   THEN [ctl EXCEPT !.sampled = TRUE] ELSE ctl
         /\ IF low
            THEN /\ pollPc' = "inc" /\ pollCount' = i2cp_sda_low_count
                 /\ UNCHANGED i2cp_sda_low_count
            ELSE /\ i2cp_sda_low_count' = 0
                 /\ UNCHANGED <<pollPc, pollCount>>
    /\ UNCHANGED <<wfile, write_ptr, last_write_pointer, rfile, read_ptr,
                   last_read_pointer, pending, i2cp_read_recovery_count,
                   sdaHeld, trans, stuckN, ack, wrote, sentMsg, gotMsg, posted>>

Hosed_pastThreshold(n) == n > READ_STATUS_CHECK_THRESHOLD
Hosed(n) == n = READ_STATUS_CHECK_THRESHOLD

\* the store of the increment, the threshold test, and the restart or the
\* re-arm: the next poll comes 700 ms later, after any current transaction
PollInc ==
    /\ pollPc = "inc"
    /\ pollPc' = "idle" /\ pollCount' = 0
    /\ ctl' = IF ctl.pc \in {"write", "read"}
              THEN [ctl EXCEPT !.sampled = TRUE] ELSE ctl
    /\ IF Hosed(pollCount + 1)
       THEN /\ i2cp_read_recovery_count' =
                   (i2cp_read_recovery_count + 1) % (2 ^ CountBits)
            /\ i2cp_init
       ELSE /\ i2cp_sda_low_count' = pollCount + 1
            /\ UNCHANGED <<i2cp_read_recovery_count, sdaHeld,
                           last_write_pointer, last_read_pointer, read_ptr,
                           write_ptr, rfile, wrote, posted>>
    /\ UNCHANGED <<wfile, pending, trans, stuckN, ack, sentMsg, gotMsg>>

----------------------------------------------------------------------------
(* The controller: a TPM host that writes a register address (and data),  *)
(* waits for the ready signal, and reads after a one-byte write.  It may   *)
(* stop clocking while the peripheral drives SDA low.                     *)

CtlVars == <<ctl, trans, stuckN>>
DriverVars == <<wfile, write_ptr, last_write_pointer, rfile, read_ptr,
                last_read_pointer, pending, i2cp_sda_low_count,
                i2cp_read_recovery_count, pollPc, pollCount>>

CtlWriteStart(m) ==
    /\ ctl.pc = "idle" /\ ~ctl.wantRead /\ ~sdaHeld /\ trans < MaxTrans
    /\ ctl' = [pc |-> "write", msg |-> m, left |-> 0,
               wantRead |-> Len(m) = 1, sampled |-> FALSE]
    /\ trans' = trans + 1
    /\ UNCHANGED <<DriverVars, sdaHeld, stuckN, ack, wrote, sentMsg, gotMsg,
                   posted>>

\* one byte lands in the write file at WRITE_PTR
CtlWriteByte ==
    /\ ctl.pc = "write" /\ ctl.msg # <<>>
    /\ wfile' = [wfile EXCEPT ![write_ptr] = Head(ctl.msg)]
    /\ write_ptr' = Mask(write_ptr + 1)
    /\ wrote' = Append(wrote, Head(ctl.msg))
    /\ ctl' = [ctl EXCEPT !.msg = Tail(ctl.msg)]
    /\ UNCHANGED <<last_write_pointer, rfile, read_ptr, last_read_pointer,
                   pending, i2cp_sda_low_count, i2cp_read_recovery_count,
                   pollPc, pollCount, sdaHeld, trans, stuckN, ack, sentMsg,
                   gotMsg, posted>>

\* the stop condition raises the write-complete interrupt
CtlWriteStop ==
    /\ ctl.pc = "write" /\ ctl.msg = <<>>
    /\ pending' = TRUE
    /\ ctl' = [ctl EXCEPT !.pc = "wait"]
    /\ UNCHANGED <<wfile, write_ptr, last_write_pointer, rfile, read_ptr,
                   last_read_pointer, i2cp_sda_low_count,
                   i2cp_read_recovery_count, pollPc, pollCount, sdaHeld,
                   trans, stuckN, ack, wrote, sentMsg, gotMsg, posted>>

CtlReady ==
    /\ ctl.pc = "wait" /\ ack
    /\ ack' = FALSE
    /\ ctl' = [ctl EXCEPT !.pc = "idle"]
    /\ UNCHANGED <<DriverVars, sdaHeld, trans, stuckN, wrote, sentMsg, gotMsg,
                   posted>>

CtlReadStart(n) ==
    /\ ctl.pc = "idle" /\ ctl.wantRead /\ ~sdaHeld /\ trans < MaxTrans
    /\ ctl' = [ctl EXCEPT !.pc = "read", !.left = n, !.sampled = FALSE]
    /\ trans' = trans + 1
    /\ UNCHANGED <<DriverVars, sdaHeld, stuckN, ack, wrote, sentMsg, gotMsg,
                   posted>>

\* one byte clocked out of the read file at READ_PTR
CtlReadByte ==
    /\ ctl.pc = "read" /\ ctl.left > 0
    /\ read_ptr' = Mask(read_ptr + 1)
    /\ posted' = IF posted # <<>> THEN Tail(posted) ELSE posted
    /\ ctl' = [ctl EXCEPT !.left = @ - 1]
    /\ UNCHANGED <<wfile, write_ptr, last_write_pointer, rfile,
                   last_read_pointer, pending, i2cp_sda_low_count,
                   i2cp_read_recovery_count, pollPc, pollCount, sdaHeld,
                   trans, stuckN, ack, wrote, sentMsg, gotMsg>>

CtlReadStop ==
    /\ ctl.pc = "read" /\ ctl.left = 0
    /\ ctl' = [ctl EXCEPT !.pc = "idle", !.wantRead = FALSE]
    /\ UNCHANGED <<DriverVars, sdaHeld, trans, stuckN, ack, wrote, sentMsg,
                   gotMsg, posted>>

\* the controller stops clocking while the peripheral drives SDA low
CtlHang ==
    /\ ctl.pc \in {"write", "read"} /\ stuckN < MaxStuck
    /\ sdaHeld' = TRUE
    /\ ctl' = [ctl EXCEPT !.pc = "stuck"]
    /\ stuckN' = stuckN + 1
    /\ UNCHANGED <<DriverVars, trans, ack, wrote, sentMsg, gotMsg, posted>>

\* once the bus is free again the host abandons the transaction
CtlRetry ==
    /\ ctl.pc = "stuck" /\ ~sdaHeld
    /\ ctl' = [ctl EXCEPT !.pc = "idle", !.wantRead = FALSE, !.msg = <<>>]
    /\ UNCHANGED <<DriverVars, sdaHeld, trans, stuckN, ack, wrote, sentMsg,
                   gotMsg, posted>>

Next ==
    \/ \E m \in Msgs : CtlWriteStart(m)
    \/ CtlWriteByte \/ CtlWriteStop \/ CtlReady
    \/ \E n \in RespLens : CtlReadStart(n)
    \/ CtlReadByte \/ CtlReadStop \/ CtlHang \/ CtlRetry
    \/ i2cp_write_complete_int
    \/ PollSample \/ PollInc

\* The interrupt is taken once pending and the deferred poller keeps firing;
\* nothing is assumed of the host.
Spec == Init /\ [][Next]_vars
             /\ WF_vars(i2cp_write_complete_int)
             /\ WF_vars(PollSample) /\ WF_vars(PollInc)

----------------------------------------------------------------------------
(* Properties                                                             *)

TypeOK ==
    /\ wfile \in [Offsets -> Byte] /\ rfile \in [Offsets -> Byte]
    /\ {write_ptr, last_write_pointer, read_ptr, last_read_pointer} \subseteq Offsets
    /\ pending \in BOOLEAN /\ sdaHeld \in BOOLEAN /\ ack \in BOOLEAN
    /\ i2cp_sda_low_count \in 0 .. READ_STATUS_CHECK_THRESHOLD - 1
    /\ i2cp_read_recovery_count \in 0 .. 2 ^ CountBits - 1
    /\ pollPc \in {"idle", "inc"}
    /\ pollCount \in 0 .. READ_STATUS_CHECK_THRESHOLD - 1
    /\ ctl.pc \in {"idle", "write", "wait", "read", "stuck"}

\* Each call of the write-complete handler receives exactly the bytes the
\* controller put into the write register file since the previous call (or
\* since i2cp_init reset the pointers), in order: the pointer arithmetic of
\* _i2cp_write_complete_int and its word-at-a-time copy loop, resumed at an
\* unaligned last_write_pointer, lose, repeat or reorder none of them.
HandlerGetsWrittenBytes == gotMsg = sentMsg

\* The bytes the TPM layer posted with i2cp_post_read_fill_fifo or
\* i2cp_post_read_data and the controller has not clocked out yet sit just
\* below last_read_pointer in the read register file: the read-modify-write
\* of the first and last words and the whole-word loop neither misplace nor
\* clobber a posted byte, across the wrap of the file.
PostedBytesInFile ==
    \A k \in 1 .. Len(posted) :
        rfile[Mask(last_read_pointer - Len(posted) + k - 1)] = posted[k]

\* A controller that stops clocking while the peripheral holds SDA low is
\* eventually unwedged: poll_read_state reaches the threshold and
\* i2cp_init's check_i2cp_state releases the bus.
StuckBusRecovers == sdaHeld ~> ~sdaHeld

\* The driver restarts itself only while the bus is really stuck.  The
\* comment before READ_STATUS_CHECK_THRESHOLD argues that a controller that
\* writes and reads in turn lets at most two polls see SDA low between two
\* write-complete interrupts, so three mean a wedged bus.
NoSpuriousRecovery ==
    [][i2cp_read_recovery_count' # i2cp_read_recovery_count => sdaHeld]_vars

====
