------------------------------- MODULE SppTpm -------------------------------
(***************************************************************************)
(* The TPM SPI hardware protocol on the Cr50 SPI peripheral:              *)
(* chip/g/spp.c (FIFOs, interrupt handlers, interface (re)configuration)  *)
(* and chip/g/spp_tpm.c (the receive state machine).                      *)
(*                                                                         *)
(* Actors: the AP's SPI controller, which clocks one byte each way per    *)
(* step and polls bit 0 of MISO to see a stall released; the RX-level and *)
(* CS-deassert interrupt handlers, which have the same priority and never *)
(* preempt each other; and the TPM task, which stops and restarts the     *)
(* interface on a TPM reset.  tpm_register_get is the environment: it     *)
(* returns any bytes.  tpm_register_put is recorded in puts.              *)
(***************************************************************************)
EXTENDS Naturals, Sequences, FiniteSetsExt

CONSTANTS
    FifoSize,     \* SPP_FIFO_SIZE: bytes in each of the RX and TX FIFOs
    RxBufMax,     \* RXBUF_MAX
    RxThreshold,  \* RX FIFO level interrupt threshold (3 in spp_if_start)
    Addrs,        \* register addresses the AP accesses
    Values,       \* register data bytes
    MaxCount,     \* largest transfer size a header announces (64)
    MaxStall,     \* stall bytes the AP clocks before it gives up
    ApGivesUp,    \* whether the AP deasserts CS once MaxStall is spent
    MaxTx,        \* transactions the AP starts in one behaviour
    DeassertFirst \* a pending CS_DEASSERT is taken before a pending RX level

\* bytes on MISO: the status byte values written by spp_tx_status, and the
\* dummy word spp_configure loads ("xfer 0xff when tx fifo is empty")
STALL_ASSERT == "00"
STALL_DEASSERT == "01"
DUMMY_WORD_DEFAULT == "ff"
\* the byte the AP puts on MOSI while it polls a stall or reads
Junk == "xx"

\* the AP's transactions: a header (R/W, size, address) and write data
Reads == [rw : {"R"}, addr : Addrs, count : 1..MaxCount, data : {<<>>}]
Writes == UNION {[rw : {"W"}, addr : Addrs, count : {n},
                  data : [1..n -> Values]] : n \in 1..MaxCount}
Ops == Reads \cup Writes

\* header byte k of op on MOSI
Hdr(op, k) == [op |-> op, k |-> k]

HandlerStates ==
    {"RECEIVING_HEADER", "RECEIVING_WRITE_DATA", "PONDERING", "RX_BAD"}

VARIABLES
    cs,             \* the CS line is asserted
    rxfifo,         \* bytes in the RX FIFO between read and write pointers
    tx,             \* bytes in the TX FIFO between read and write pointers
    txEn,           \* FIFO_CTRL.TXFIFO_EN
    dummy,          \* SPS DUMMY_WORD: MISO while the TX FIFO is off or empty
    irqOn,          \* the RXFIFO_LVL and CS_DEASSERT interrupts are enabled
    csDeassert,     \* ISTATE.CS_DEASSERT is pending
    isrPc,          \* spp_cs_deassert_interrupt between its steps
    seen_data,      \* spp.c seen_data
    spp_tpm_state,  \* spp_tpm.c state machine
    rxbuf,          \* rxbuf[0 .. rxbuf_count - 1]
    bytecount,
    regaddr,
    puts,           \* the tpm_register_put calls made, in order
    served,         \* what tpm_register_get gave the last read header
    intAp,          \* an INT_AP_L pulse the AP has not yet consumed
    ap,             \* the AP controller
    sent            \* the transactions the AP completed, with read results

vars == <<cs, rxfifo, tx, txEn, dummy, irqOn, csDeassert, isrPc, seen_data,
          spp_tpm_state, rxbuf, bytecount, regaddr, puts, served, intAp,
          ap, sent>>

ApPcs == {"idle", "hdr", "stall", "data", "wait"}

(***************************************************************************)
(* The receive path.  The handler's effects are threaded through a record *)
(* h with the fields of the state it touches.                             *)
(***************************************************************************)
H == [st |-> spp_tpm_state, rxbuf |-> rxbuf, bytecount |-> bytecount,
      regaddr |-> regaddr, dummy |-> dummy, tx |-> tx, txEn |-> txEn,
      puts |-> puts, served |-> served]

SetH(h) ==
    /\ spp_tpm_state' = h.st /\ rxbuf' = h.rxbuf /\ bytecount' = h.bytecount
    /\ regaddr' = h.regaddr /\ dummy' = h.dummy /\ tx' = h.tx
    /\ txEn' = h.txEn /\ puts' = h.puts /\ served' = h.served

\* init_new_cycle
init_new_cycle(h) ==
    [h EXCEPT !.rxbuf = <<>>, !.st = "RECEIVING_HEADER", !.dummy = STALL_ASSERT]

\* header_says_to_read: R/W bit and size from byte 0, address from 1..3
header_says_to_read(b) ==
    [read |-> b[1].op.rw = "R", reg |-> b[2].op.addr, count |-> b[1].op.count]

\* spp_transmit: as much of data as the TX FIFO has room for, then TX on
spp_transmit(h, data) ==
    LET room == FifoSize - 1 - Len(h.tx)
    IN  [h EXCEPT !.tx = @ \o SubSeq(data, 1, Min({room, Len(data)})),
                  !.txEn = TRUE]

\* tpm_register_put(regaddr, rxbuf + rxbuf_count - bytecount, bytecount):
\* from is that offset; bytes before rxbuf are "oob"
tpm_register_put_afterHeader(h) ==
    [addr |-> h.regaddr, from |-> 4, data |-> SubSeq(h.rxbuf, 5, 4 + h.bytecount)]

tpm_register_put(h) ==
    LET b == h.rxbuf
        from == Len(b) - h.bytecount
    IN  [addr |-> h.regaddr, from |-> from,
         data |-> [i \in 1..h.bytecount |->
                     IF from + i >= 1 THEN b[from + i] ELSE "oob"]]

(* process_rx_data; reg is what tpm_register_get returns if the header is *)
(* a read.                                                                 *)
process_rx_data(h, data, cs_deasserted, reg) ==
    IF Len(h.rxbuf) + Len(data) > RxBufMax
    THEN [h EXCEPT !.dummy = STALL_DEASSERT, !.st = "RX_BAD"]
    ELSE LET g == [h EXCEPT !.rxbuf = @ \o data]
             hd == header_says_to_read(g.rxbuf)
             r == [g EXCEPT !.regaddr = hd.reg, !.bytecount = hd.count]
         IN  CASE g.st = "RECEIVING_HEADER" /\ Len(g.rxbuf) < 4 -> g
               [] g.st = "RECEIVING_HEADER" /\ hd.read ->
                    LET got == SubSeq(reg, 1, hd.count)
                    IN  [spp_transmit([r EXCEPT !.served = got],
                                      <<STALL_DEASSERT>> \o got)
                           EXCEPT !.st = "PONDERING"]
               [] g.st = "RECEIVING_HEADER" ->
                    [r EXCEPT !.dummy = STALL_DEASSERT,
                              !.st = "RECEIVING_WRITE_DATA"]
               [] cs_deasserted /\ g.st = "RECEIVING_WRITE_DATA" ->
                    [g EXCEPT !.puts = Append(@, tpm_register_put(g))]
               [] OTHER -> g

\* tpm_rx_handler
tpm_rx_handler(h, data, cs_deasserted, reg) ==
    LET p == IF h.st \in {"RECEIVING_HEADER", "RECEIVING_WRITE_DATA"}
             THEN process_rx_data(h, data, cs_deasserted, reg)
             ELSE h
    IN  IF cs_deasserted THEN init_new_cycle(p) ELSE p

\* tpm_register_get's output for any header: MaxCount bytes, cut to size
RegContents == [1..MaxCount -> Values]

\* the MISO byte of the next clock, and the TX FIFO after it
Miso == IF txEn /\ tx # <<>> THEN Head(tx) ELSE dummy
TxAfterClock == IF txEn /\ tx # <<>> THEN Tail(tx) ELSE tx

\* bit 0 of a MISO byte, which the AP reads as "go on": a register byte's
\* bit 0 is either
GoOn(b) == IF b \in Values THEN BOOLEAN
           ELSE {b \in {STALL_DEASSERT, DUMMY_WORD_DEFAULT}}

(***************************************************************************)
(* spp_configure, as spp_register_rx_handler runs it: FIFOs reset, TX     *)
(* off, the dummy word back to its default, seen_data and a pending       *)
(* CS_DEASSERT cleared.                                                    *)
(***************************************************************************)
spp_configure(h) ==
    [h EXCEPT !.tx = <<>>, !.txEn = FALSE, !.dummy = DUMMY_WORD_DEFAULT]

\* spp_advance_rx: the RX FIFO read pointer moved past n bytes
spp_advance_rx_noop(f, n) == f
spp_advance_rx(f, n) == SubSeq(f, n + 1, Len(f))

(***************************************************************************)
(* spp_rx_interrupt(port, cs_deasserted) as one step: the FIFO is handed   *)
(* to the handler and drained (spp_check_rx, spp_advance_rx); on a CS      *)
(* deassertion after data the handler is called once more with no data.   *)
(* The result also says whether a pulse to the AP is needed.              *)
(***************************************************************************)
spp_rx_interrupt_noSeen(h, cs_deasserted, reg) ==
    LET d == IF rxfifo # <<>> THEN tpm_rx_handler(h, rxfifo, FALSE, reg) ELSE h
        pulse == cs_deasserted /\ rxfifo # <<>>
    IN  [h |-> IF pulse THEN tpm_rx_handler(d, <<>>, TRUE, reg) ELSE d,
         seen |-> FALSE, pulse |-> pulse]

spp_rx_interrupt(h, cs_deasserted, reg) ==
    LET seen == seen_data \/ rxfifo # <<>>
        d == IF rxfifo # <<>> THEN tpm_rx_handler(h, rxfifo, FALSE, reg) ELSE h
        pulse == cs_deasserted /\ seen
    IN  [h |-> IF pulse THEN tpm_rx_handler(d, <<>>, TRUE, reg) ELSE d,
         seen |-> seen /\ ~pulse, pulse |-> pulse]

(***************************************************************************)
(* The AP controller.                                                      *)
(***************************************************************************)
Init ==
    \* spp_init, then spp_if_start: init_new_cycle, spp_register_rx_handler
    /\ cs = FALSE /\ rxfifo = <<>> /\ csDeassert = FALSE /\ isrPc = "none"
    /\ irqOn = TRUE /\ seen_data = FALSE
    /\ spp_tpm_state = "RECEIVING_HEADER" /\ rxbuf = <<>>
    /\ bytecount = 0 /\ regaddr \in Addrs
    /\ tx = <<>> /\ txEn = FALSE /\ dummy = DUMMY_WORD_DEFAULT
    /\ puts = <<>> /\ served = <<>> /\ intAp = FALSE
    /\ ap = [pc |-> "idle", op |-> CHOOSE o \in Reads : TRUE, n |-> 0,
              stalls |-> 0, got |-> <<>>]
    /\ sent = <<>>

\* the AP asserts CS to start op; it waits for INT_AP_L between transactions
ApStart(op) ==
    /\ ap.pc = "idle" /\ irqOn /\ Len(sent) < MaxTx
    /\ cs' = TRUE
    /\ ap' = [pc |-> "hdr", op |-> op, n |-> 0, stalls |-> 0, got |-> <<>>]
    /\ UNCHANGED <<rxfifo, tx, txEn, dummy, irqOn, csDeassert, isrPc,
                   seen_data, spp_tpm_state, rxbuf, bytecount, regaddr, puts,
                   served, intAp, sent>>

\* a wake pulse: CS asserted and released with no clocks
ApWake ==
    /\ ap.pc = "idle" /\ irqOn /\ ~csDeassert
    /\ csDeassert' = TRUE
    /\ UNCHANGED <<cs, rxfifo, tx, txEn, dummy, irqOn, isrPc, seen_data,
                   spp_tpm_state, rxbuf, bytecount, regaddr, puts, served,
                   intAp, ap, sent>>

(* One byte each way.  The AP reads bit 0 of the fourth header byte and of *)
(* every stall byte; once it is 1 it sends or reads count data bytes.     *)
ApClock ==
    /\ ap.pc \in {"hdr", "stall", "data"}
    /\ ~(ap.pc = "data" /\ ap.n = ap.op.count)
    /\ LET op == ap.op
           mosi == CASE ap.pc = "hdr" -> Hdr(op, ap.n)
                     [] ap.pc = "data" /\ op.rw = "W" -> op.data[ap.n + 1]
                     [] OTHER -> Junk
           polls == ap.pc = "stall" \/ (ap.pc = "hdr" /\ ap.n = 3)
       IN  /\ rxfifo' = Append(rxfifo, mosi)
           /\ tx' = TxAfterClock
           /\ \E go \in GoOn(Miso) :
                /\ ap.pc = "stall" /\ ~go => ap.stalls < MaxStall
                /\ ap' = CASE polls /\ go -> [ap EXCEPT !.pc = "data", !.n = 0]
                          [] polls -> [ap EXCEPT !.pc = "stall", !.n = 0,
                                         !.stalls = @ + (IF ap.pc = "stall"
                                                          THEN 1 ELSE 0)]
                          [] ap.pc = "data" /\ op.rw = "R" ->
                               [ap EXCEPT !.n = @ + 1, !.got = Append(@, Miso)]
                          [] OTHER -> [ap EXCEPT !.n = @ + 1]
    /\ UNCHANGED <<cs, txEn, dummy, irqOn, csDeassert, isrPc, seen_data,
                   spp_tpm_state, rxbuf, bytecount, regaddr, puts, served,
                   intAp, sent>>

\* the AP releases CS after the data, or after MaxStall stall bytes
ApEnd ==
    /\ \/ ap.pc = "data" /\ ap.n = ap.op.count
       \/ ApGivesUp /\ ap.pc = "stall" /\ ap.stalls = MaxStall
    /\ cs' = FALSE /\ csDeassert' = TRUE
    /\ ap' = [ap EXCEPT !.pc = "wait"]
    /\ sent' = IF ap.pc = "data"
               THEN Append(sent, [op |-> ap.op, got |-> ap.got, served |-> served])
               ELSE sent
    /\ UNCHANGED <<rxfifo, tx, txEn, dummy, irqOn, isrPc, seen_data,
                   spp_tpm_state, rxbuf, bytecount, regaddr, puts, served, intAp>>

\* INT_AP_L pulsed: the AP may start its next transaction
ApAck ==
    /\ ap.pc = "wait" /\ intAp
    /\ intAp' = FALSE /\ ap' = [ap EXCEPT !.pc = "idle"]
    /\ UNCHANGED <<cs, rxfifo, tx, txEn, dummy, irqOn, csDeassert, isrPc,
                   seen_data, spp_tpm_state, rxbuf, bytecount, regaddr, puts,
                   served, sent>>

(***************************************************************************)
(* Interrupt handlers.  Both have priority 1: one runs at a time, and     *)
(* which of two pending ones runs first depends on IRQ numbers this code  *)
(* does not fix: either may, unless DeassertFirst.                        *)
(***************************************************************************)
HandlerVars == <<spp_tpm_state, rxbuf, bytecount, regaddr, dummy, tx, txEn,
                 puts, served>>

\* _sps0_interrupt: the RX FIFO level passed the threshold
RxIsr ==
    /\ irqOn /\ isrPc = "none" /\ Len(rxfifo) > RxThreshold
    /\ ~(DeassertFirst /\ csDeassert)
    /\ \E reg \in RegContents :
         LET r == spp_rx_interrupt(H, FALSE, reg)
         IN  SetH(r.h) /\ seen_data' = r.seen
    /\ rxfifo' = spp_advance_rx(rxfifo, Len(rxfifo))
    /\ UNCHANGED <<cs, irqOn, csDeassert, isrPc, intAp, ap, sent>>

(* spp_cs_deassert_interrupt from the drain on: the FIFO handed over, the *)
(* deassertion cleared, TX off and emptied, and INT_AP_L pulsed if data   *)
(* was seen.                                                               *)
DeassertDrain ==
    /\ \E reg \in RegContents :
         LET r == spp_rx_interrupt(H, TRUE, reg)
         IN  /\ SetH([r.h EXCEPT !.txEn = FALSE, !.tx = <<>>])
             /\ seen_data' = r.seen
             /\ intAp' = (intAp \/ r.pulse)
    /\ rxfifo' = spp_advance_rx(rxfifo, Len(rxfifo))
    /\ csDeassert' = FALSE /\ isrPc' = "none"
    /\ UNCHANGED <<cs, irqOn, ap, sent>>

\* spp_cs_deassert_interrupt: entry, CS read
DeassertIsr ==
    /\ irqOn /\ isrPc = "none" /\ csDeassert
    /\ IF cs
       THEN /\ isrPc' = "slow"
            /\ UNCHANGED <<cs, rxfifo, HandlerVars, irqOn, csDeassert,
                           seen_data, intAp, ap, sent>>
       ELSE DeassertDrain

\* CS was still asserted: clear the deassertion and turn TX off
DeassertSlowClear ==
    /\ isrPc = "slow"
    /\ csDeassert' = FALSE /\ txEn' = FALSE /\ isrPc' = "recheck"
    /\ UNCHANGED <<cs, rxfifo, tx, dummy, irqOn, seen_data, spp_tpm_state,
                   rxbuf, bytecount, regaddr, puts, served, intAp, ap, sent>>

\* CS read again: still asserted, return; released meanwhile, drain
DeassertRecheck ==
    /\ isrPc = "recheck"
    /\ IF cs
       THEN /\ isrPc' = "none"
            /\ UNCHANGED <<cs, rxfifo, HandlerVars, irqOn, csDeassert,
                           seen_data, intAp, ap, sent>>
       ELSE DeassertDrain

(***************************************************************************)
(* The TPM task resets the interface while the AP is held in reset.       *)
(***************************************************************************)
\* spp_if_stop: spp_register_rx_handler(0, NULL, 0) masks both interrupts
spp_if_stop ==
    /\ irqOn /\ isrPc = "none" /\ ap.pc = "idle"
    /\ irqOn' = FALSE
    /\ UNCHANGED <<cs, rxfifo, HandlerVars, csDeassert, isrPc, seen_data,
                   intAp, ap, sent>>

\* spp_if_start: init_new_cycle, then spp_register_rx_handler(.., 3)
spp_if_start ==
    /\ ~irqOn
    /\ SetH(spp_configure(init_new_cycle(H)))
    /\ rxfifo' = <<>> /\ seen_data' = FALSE /\ csDeassert' = FALSE
    /\ irqOn' = TRUE
    /\ UNCHANGED <<cs, isrPc, intAp, ap, sent>>

Next ==
    \/ \E op \in Ops : ApStart(op)
    \/ ApWake \/ ApClock \/ ApEnd \/ ApAck
    \/ RxIsr \/ DeassertIsr \/ DeassertSlowClear \/ DeassertRecheck
    \/ spp_if_stop \/ spp_if_start

(* Pending interrupts are taken, the AP's controller finishes a           *)
(* transaction it started, and the TPM task finishes a reset it began.    *)
Fairness ==
    /\ WF_vars(RxIsr) /\ WF_vars(DeassertIsr)
    /\ WF_vars(DeassertSlowClear) /\ WF_vars(DeassertRecheck)
    /\ WF_vars(ApClock) /\ WF_vars(ApEnd) /\ WF_vars(ApAck)
    /\ WF_vars(spp_if_start)

Spec == Init /\ [][Next]_vars /\ Fairness

(***************************************************************************)
(* Properties.                                                             *)
(***************************************************************************)
TypeOK ==
    /\ cs \in BOOLEAN /\ txEn \in BOOLEAN /\ irqOn \in BOOLEAN
    /\ csDeassert \in BOOLEAN /\ seen_data \in BOOLEAN /\ intAp \in BOOLEAN
    /\ isrPc \in {"none", "slow", "recheck"}
    /\ spp_tpm_state \in HandlerStates
    /\ Len(rxbuf) <= RxBufMax /\ Len(tx) < FifoSize /\ Len(rxfifo) < FifoSize
    /\ bytecount \in 0..MaxCount /\ regaddr \in Addrs
    /\ ap.pc \in ApPcs /\ ap.op \in Ops /\ Len(sent) <= MaxTx

\* the register writes, as the AP sent them and as the TPM received them
WritesOf(s) ==
    LET w == SelectSeq(s, LAMBDA t : t.op.rw = "W")
    IN  [i \in 1..Len(w) |-> [addr |-> w[i].op.addr, data |-> w[i].op.data]]
PutsSeen == [i \in 1..Len(puts) |-> [addr |-> puts[i].addr, data |-> puts[i].data]]

(* Once the AP has been told a transaction is done, every write it has    *)
(* completed reached tpm_register_put exactly once, in order, with its   *)
(* address and data: the stall bytes, header bytes and the read traffic   *)
(* in rxbuf are never delivered as data, whatever the interrupt order.    *)
WritesDelivered == ap.pc = "idle" => PutsSeen = WritesOf(sent)

(* Every read the AP completes returns the bytes tpm_register_get gave    *)
(* the handler for that header, so a stall is held until they are in the  *)
(* TX FIFO.                                                               *)
ReadsReturnRegister ==
    \A i \in 1..Len(sent) :
        sent[i].op.rw = "R" => sent[i].got = sent[i].served

(* tpm_register_put is never handed bytes from before rxbuf: its source   *)
(* rxbuf + rxbuf_count - bytecount lies inside the buffer.                *)
NoPutOutsideRxbuf == \A i \in 1..Len(puts) : puts[i].from >= 0

(* Every transaction the AP starts ends with the INT_AP_L pulse it waits  *)
(* for, so the AP never waits for ever.                                   *)
TransactionsAcknowledged == ap.pc # "idle" ~> ap.pc = "idle"
=============================================================================
