------------------------------- MODULE UsbEp0 -------------------------------
(***************************************************************************)
(* The EP0 control-transfer state machine of the g-chip USB device driver  *)
(* (src/chip/g/usb.c) against a USB host and the DWC OTG core in           *)
(* descriptor-DMA mode.                                                    *)
(*                                                                         *)
(* The driver state (what_am_i_doing, the two OUT descriptors with their   *)
(* cur/next indices, the IN descriptor chain, DAINTMSK, DEVADDR) and the   *)
(* endpoint registers the core shares with it are one record, dev, so that *)
(* each C function is an operator from dev to dev and usb_interrupt is     *)
(* their composition, in the code's order.  usb_interrupt reads GINTSTS on *)
(* entry and DAINT/DOEPINT/DIEPINT afterwards: IsrEnter and IsrBody are    *)
(* two steps, and the core may act between them.                           *)
(*                                                                         *)
(* Packet contents are abstracted: a SETUP buffer holds the sequence       *)
(* number of the host SETUP written into it, the IN chain holds packet     *)
(* sizes and the request whose data was loaded (inTag).                    *)
(***************************************************************************)
EXTENDS Integers, Sequences

CONSTANTS
    USB_MAX_PACKET_SIZE,     \* EP0 max packet (scaled down from 64)
    NUM_IN_PACKETS_AT_ONCE,  \* IN descriptors, 4 in the code
    USB_IFACE_COUNT,
    DescLen,       \* descriptor name -> length: dev_desc, USB_DESC_SIZE, strings
    Requests,      \* the SETUP packets the host may send
    MaxSetups,     \* bound on SETUPs sent by the host
    MaxResets,     \* bound on bus resets
    OtherSources   \* whether interrupts other than EP0's may enter the ISR

NUM_OUT_BUFFERS == 2
IN_BUF_SIZE == NUM_IN_PACKETS_AT_ONCE * USB_MAX_PACKET_SIZE
MIN(a, b) == IF a < b THEN a ELSE b

\* A request is [kind, dirIn, bRequest, desc, wValue, wIndex, wLength].
ASSUME /\ \A r \in Requests : r.kind \in {"std", "iface", "vendor"}
       /\ \A r \in Requests : r.dirIn => r.wLength > 0
       \* interface handlers live in other modules: only unknown indices
       /\ \A r \in Requests : r.kind = "iface" => r.wIndex >= USB_IFACE_COUNT

NoReq == [kind |-> "none"]

\* what_am_i_doing
WAITING_FOR_SETUP_PACKET == "WAITING_FOR_SETUP_PACKET"
DATA_STAGE_IN == "DATA_STAGE_IN"
NO_DATA_STAGE == "NO_DATA_STAGE"

\* enum table_case; STSPHSERCVD is not in DOEPMSK and the core model never
\* raises it, so cases D and E do not arise.
BAD_0 == 0
TABLE_CASE_A == 1
TABLE_CASE_B == 2
TABLE_CASE_C == 3

decode_table_10_7(doepint) ==
    (IF "XFERCOMPL" \in doepint THEN 1 ELSE 0)
    + (IF "SETUP" \in doepint THEN 2 ELSE 0)

VARIABLES
    dev,           \* driver state and the EP0 registers
    isr,           \* usb_interrupt: idle, or entered with its GINTSTS snapshot
    usbrst,        \* GINTSTS.USBRST latched by the core
    setupPending,  \* seq of a SETUP held in the RX FIFO, 0 if none
    tokSeen,       \* the host sent an IN/OUT token after its last SETUP
    host,          \* the host's current control transfer
    sent,          \* every SETUP the host sent, in order
    nResets

vars == <<dev, isr, usbrst, setupPending, tokSeen, host, sent, nResets>>

OutDesc == [bs : {"BSY", "RDY", "DONE"}, sr : BOOLEAN, seq : 0..MaxSetups]

DevType == [what : {WAITING_FOR_SETUP_PACKET, DATA_STAGE_IN, NO_DATA_STAGE},
            outDesc : [0..NUM_OUT_BUFFERS-1 -> OutDesc],
            cur : -1..NUM_OUT_BUFFERS-1, next : 0..NUM_OUT_BUFFERS-1,
            inChain : UNION {[1..n -> 0..USB_MAX_PACKET_SIZE] :
                                n \in 0..NUM_IN_PACKETS_AT_ONCE},
            inTag : Requests \cup {NoReq},
            inPos : 1..NUM_IN_PACKETS_AT_ONCE+1,
            oEna : BOOLEAN, oStall : BOOLEAN, iEna : BOOLEAN, iStall : BOOLEAN,
            doepint : SUBSET {"XFERCOMPL", "SETUP"},
            diepint : SUBSET {"XFERCOMPL"},
            daintmsk : SUBSET {"OUT", "IN"},
            devaddr : {0} \cup {r.wValue : r \in Requests},
            handled : 0..MaxSetups]

-----------------------------------------------------------------------------
(* Driver helpers, one per C function. *)

\* got_RX_packet: advance cur/next and point DOEPDMA at the new next.
got_RX_packet(S) ==
    [S EXCEPT !.cur = S.next, !.next = (S.next + 1) % NUM_OUT_BUFFERS]

\* next_out_desc->flags = RXBYTES(MAX) | IOC | LAST: ready, SR cleared.
ArmNextOut(S) ==
    [S EXCEPT !.outDesc[S.next] = [@ EXCEPT !.bs = "RDY", !.sr = FALSE]]

initialize_dma_buffers(S) ==
    [S EXCEPT !.outDesc = [i \in 0..NUM_OUT_BUFFERS-1 |->
                              [S.outDesc[i] EXCEPT !.bs = "BSY", !.sr = FALSE]],
              !.next = 0, !.inChain = <<>>, !.inPos = 1]

\* The IN packets load_in_fifo chains for len bytes: full packets, then a
\* short one if bytes remain or the transfer is empty.
InPackets(len) ==
    [i \in 1..(len \div USB_MAX_PACKET_SIZE) |-> USB_MAX_PACKET_SIZE]
    \o (IF len % USB_MAX_PACKET_SIZE # 0 \/ len = 0
          THEN <<len % USB_MAX_PACKET_SIZE>> ELSE <<>>)

\* Mutant: the IN_BUF_SIZE check dropped.
load_in_fifo_noLimit(S, len, tag) ==
    [ret |-> len % USB_MAX_PACKET_SIZE,
     s |-> [S EXCEPT !.inChain = InPackets(len), !.inTag = tag, !.inPos = 1]]

\* load_in_fifo returns what is left of len after the full packets.
load_in_fifo(S, len, tag) ==
    IF len >= IN_BUF_SIZE
    THEN [ret |-> -1, s |-> S]
    ELSE [ret |-> len % USB_MAX_PACKET_SIZE,
          s |-> [S EXCEPT !.inChain = InPackets(len), !.inTag = tag,
                          !.inPos = 1]]

\* Mutant: next_out_desc not re-armed for the SETUP that ends the stall.
stall_both_fifos_noArm(S) ==
    [S EXCEPT !.what = WAITING_FOR_SETUP_PACKET,
              !.daintmsk = (@ \cup {"OUT"}) \ {"IN"},
              !.oEna = TRUE, !.oStall = TRUE, !.iEna = TRUE, !.iStall = TRUE]

stall_both_fifos(S) ==
    [ArmNextOut(S) EXCEPT !.what = WAITING_FOR_SETUP_PACKET,
                          !.daintmsk = (@ \cup {"OUT"}) \ {"IN"},
                          !.oEna = TRUE, !.oStall = TRUE,
                          !.iEna = TRUE, !.iStall = TRUE]

expect_setup_packet(S) ==
    [ArmNextOut(S) EXCEPT !.what = WAITING_FOR_SETUP_PACKET,
                          !.daintmsk = (@ \cup {"OUT"}) \ {"IN"},
                          !.oEna = TRUE]

\* The common tail of expect_data_phase_in and expect_status_phase_in:
\* DIEPDMA = cur_in_desc, EPENA on IN, arm next_out_desc, EPENA on OUT,
\* unmask both directions.  CNAK (case C) is not modelled.
StartInStage(S, what) ==
    [ArmNextOut(S) EXCEPT !.what = what, !.inPos = 1, !.iEna = TRUE,
                          !.oEna = TRUE, !.daintmsk = @ \cup {"OUT", "IN"}]

expect_data_phase_in(S, tc) == StartInStage(S, DATA_STAGE_IN)

expect_data_phase_out(S, tc) == expect_setup_packet(S)

\* Mutant: the zero-length status packet not loaded.
expect_status_phase_in_noZlp(S, tc) == StartInStage(S, NO_DATA_STAGE)

expect_status_phase_in(S, tc) ==
    StartInStage(load_in_fifo(S, 0, NoReq).s, NO_DATA_STAGE)

\* The reply length of a standard IN request, -1 to stall.
InStageLen(req) ==
    CASE req.bRequest = "GET_DESCRIPTOR" /\ req.desc \in DOMAIN DescLen
            -> DescLen[req.desc]
      [] req.bRequest = "GET_STATUS" -> 2          \* sizeof(zero)
      [] OTHER -> -1

handle_setup_with_in_stage(S, tc, req) ==
    LET len == MIN(req.wLength, InStageLen(req))
        ld == load_in_fifo(S, len, req)
    IN  IF InStageLen(req) < 0 \/ ld.ret < 0
        THEN [ret |-> -1, s |-> S]
        ELSE [ret |-> len, s |-> ld.s]

handle_setup_with_out_stage(S, tc, req) == [ret |-> -1, s |-> S]

handle_setup_with_no_data_stage(S, tc, req) ==
    CASE req.bRequest = "SET_ADDRESS"
            -> [ret |-> 0, s |-> [S EXCEPT !.devaddr = req.wValue]]
      [] req.bRequest \in {"SET_CONFIGURATION", "CLEAR_FEATURE", "SET_FEATURE"}
            -> [ret |-> 0, s |-> S]
      [] OTHER -> [ret |-> -1, s |-> S]

\* handle_setup for the request req, the SETUP numbered seq.
handle_setup(S, tc, req, seq) ==
    LET dpi == req.dirIn
        dpo == ~dpi /\ req.wLength > 0
        R == IF req.kind = "std"
             THEN IF dpi THEN handle_setup_with_in_stage(S, tc, req)
                  ELSE IF dpo THEN handle_setup_with_out_stage(S, tc, req)
                  ELSE handle_setup_with_no_data_stage(S, tc, req)
             ELSE [ret |-> -1, s |-> S]
        S1 == [R.s EXCEPT !.handled = seq]
    IN  IF R.ret < 0 THEN stall_both_fifos(S1)
        ELSE IF dpi THEN expect_data_phase_in(S1, tc)
        ELSE IF dpo THEN expect_data_phase_out(S1, tc)
        ELSE expect_status_phase_in(S1, tc)

(* ep0_interrupt.  ubSr/ubReq are what cur_out_desc->flags and ->addr read *)
(* while cur_out_desc is still NULL (no packet received since boot).       *)
ep0_interrupt(S, ion, iin, ubSr, ubReq) ==
    LET d == S.doepint
        di == S.diepint
        S1 == [S EXCEPT !.doepint = IF ion THEN {} ELSE @,
                        !.diepint = IF iin THEN {} ELSE @]
        S2 == IF ion /\ "XFERCOMPL" \in d THEN got_RX_packet(S1) ELSE S1
        tc == decode_table_10_7(d)
        sr == IF S2.cur = -1 THEN ubSr ELSE S2.outDesc[S2.cur].sr
        Setup(T) == IF S2.cur = -1 THEN handle_setup(T, tc, ubReq, 0)
                    ELSE LET n == S2.outDesc[S2.cur].seq
                         IN  handle_setup(T, tc, sent[n], n)
        inDone == iin /\ "XFERCOMPL" \in di
    IN CASE S.what = WAITING_FOR_SETUP_PACKET ->
              IF tc \in {TABLE_CASE_A, TABLE_CASE_C}
              THEN IF sr THEN Setup(S2) ELSE expect_setup_packet(S2)
              ELSE IF tc = TABLE_CASE_B THEN stall_both_fifos(S2)
              ELSE S2
         [] S.what = DATA_STAGE_IN ->
              LET S3 == IF inDone THEN [S2 EXCEPT !.iEna = TRUE] ELSE S2
              IN  IF ~ion THEN S3
                  ELSE IF tc = TABLE_CASE_B
                       THEN [S3 EXCEPT !.iEna = TRUE, !.oEna = TRUE]
                  ELSE IF tc \in {TABLE_CASE_A, TABLE_CASE_C}
                       THEN IF sr THEN Setup(S3) ELSE expect_setup_packet(S3)
                  ELSE S3
         [] S.what = NO_DATA_STAGE ->
              LET S3 == IF inDone
                        THEN [S2 EXCEPT !.iEna = TRUE,
                                        !.what = WAITING_FOR_SETUP_PACKET]
                        ELSE S2
              IN  IF ~ion THEN S3
                  ELSE IF tc = TABLE_CASE_B THEN [S3 EXCEPT !.oEna = TRUE]
                  ELSE IF tc \in {TABLE_CASE_A, TABLE_CASE_C} /\ sr
                       THEN Setup(S3)
                  ELSE expect_setup_packet(S3)

ep0_reset(S) ==
    expect_setup_packet(initialize_dma_buffers([S EXCEPT !.devaddr = 0]))

\* usb_interrupt after its GINTSTS read: usb_reset, then, if GINTSTS showed
\* endpoint activity, the EP0 handler with the directions GINTSTS and DAINT
\* agree on.
usb_interrupt(S, I, ubSr, ubReq) ==
    LET S1 == IF I.usbrst THEN ep0_reset(S) ELSE S
        outEp0 == S1.doepint # {}
        inEp0 == S1.diepint # {}
    IN  IF (I.oepint \/ I.iepint) /\ (outEp0 \/ inEp0)
        THEN ep0_interrupt(S1, I.oepint /\ outEp0, I.iepint /\ inEp0,
                           ubSr, ubReq)
        ELSE S1
-----------------------------------------------------------------------------
(* Init: usb_init has run (interrupts masked per endpoint, DAINTMSK = 0,   *)
(* the device connected) and the host's first bus reset is latched.        *)
(* cur_out_desc is NULL until the first packet.                            *)
Init ==
    /\ dev = [what |-> WAITING_FOR_SETUP_PACKET,
              outDesc |-> [i \in 0..NUM_OUT_BUFFERS-1 |->
                              [bs |-> "BSY", sr |-> FALSE, seq |-> 0]],
              cur |-> -1, next |-> 0,
              inChain |-> <<>>, inTag |-> NoReq, inPos |-> 1,
              oEna |-> FALSE, oStall |-> FALSE, iEna |-> FALSE, iStall |-> FALSE,
              doepint |-> {}, diepint |-> {}, daintmsk |-> {},
              devaddr |-> 0, handled |-> 0]
    /\ isr = [pc |-> "idle", oepint |-> FALSE, iepint |-> FALSE, usbrst |-> FALSE]
    /\ usbrst = TRUE
    /\ setupPending = 0
    /\ tokSeen = FALSE
    /\ host = [st |-> "idle", seq |-> 0, rst |-> 0, got |-> 0, ok |-> TRUE]
    /\ sent = <<>>
    /\ nResets = 0

-----------------------------------------------------------------------------
(* The interrupt handler.                                                  *)

OutPending == dev.doepint # {} /\ "OUT" \in dev.daintmsk
InPending == dev.diepint # {} /\ "IN" \in dev.daintmsk

\* usb_interrupt is entered and reads GINTSTS.  With OtherSources another
\* endpoint or a global event may enter it and set OEPINT/IEPINT.
IsrEnter ==
    /\ isr.pc = "idle"
    /\ OutPending \/ InPending \/ usbrst \/ OtherSources
    /\ \E o, i \in IF OtherSources THEN BOOLEAN ELSE {FALSE} :
          isr' = [pc |-> "body", oepint |-> OutPending \/ o,
                  iepint |-> InPending \/ i, usbrst |-> usbrst]
    /\ UNCHANGED <<dev, usbrst, setupPending, tokSeen, host, sent, nResets>>

\* The rest of usb_interrupt, ending with GINTSTS = status.
IsrBody ==
    /\ isr.pc = "body"
    /\ \E ubSr \in BOOLEAN, ubReq \in Requests :
          dev' = usb_interrupt(dev, isr, ubSr, ubReq)
    /\ usbrst' = (usbrst /\ ~isr.usbrst)
    /\ isr' = [isr EXCEPT !.pc = "idle"]
    /\ UNCHANGED <<setupPending, tokSeen, host, sent, nResets>>

-----------------------------------------------------------------------------
(* The core and the host.  The core DMAs a packet into the descriptor      *)
(* DOEPDMA names (next_out_desc) only when it is ready and OUT is enabled; *)
(* LAST disables the endpoint.  It sets DOEPINT.SETUP (case B) once a      *)
(* token follows a SETUP.  A SETUP clears STALL and ends whatever IN       *)
(* transfer EP0 had enabled: IN is NAKed until the driver sets EPENA.      *)

TokenBit == IF ~tokSeen /\ setupPending = 0 THEN {"SETUP"} ELSE {}

OutReady == dev.oEna /\ dev.outDesc[dev.next].bs = "RDY"

\* The device has nothing left to do until the host acts.
Quiescent ==
    /\ isr.pc = "idle" /\ setupPending = 0
    /\ ~(OutPending \/ InPending \/ usbrst)

\* The host sends a SETUP to start a transfer, or to abandon one after its
\* timeout.  Host software schedules a new control transfer, or gives up
\* one, over a time (a frame at least, milliseconds for a timeout) that
\* every interrupt and DMA the device has pending outlasts; after a bus
\* reset it waits its reset recovery time, in which usb_reset runs.
HostSetup(r) ==
    /\ Len(sent) < MaxSetups
    /\ Quiescent
    /\ sent' = Append(sent, r)
    /\ setupPending' = Len(sent) + 1
    /\ tokSeen' = FALSE
    /\ dev' = [dev EXCEPT !.oStall = FALSE, !.iStall = FALSE, !.iEna = FALSE]
    /\ host' = [st |-> IF r.dirIn THEN "in" ELSE "status_in",
                seq |-> Len(sent) + 1, rst |-> nResets, got |-> 0, ok |-> TRUE]
    /\ UNCHANGED <<isr, usbrst, nResets>>

\* The core writes the held SETUP into next_out_desc.
HwSetup ==
    /\ setupPending > 0
    /\ OutReady
    /\ dev' = [dev EXCEPT
                 !.outDesc[dev.next] = [bs |-> "DONE", sr |-> TRUE,
                                        seq |-> setupPending],
                 !.oEna = FALSE,
                 !.doepint = @ \cup {"XFERCOMPL"}
                               \cup (IF tokSeen THEN {"SETUP"} ELSE {})]
    /\ setupPending' = 0
    /\ UNCHANGED <<isr, usbrst, tokSeen, host, sent, nResets>>

\* An IN token of the data stage (host.st = "in") or of the status stage of
\* a no-data request ("status_in").  The data stage ends on a short packet
\* or when wLength bytes have arrived.
HostIn ==
    /\ host.st \in {"in", "status_in"}
    /\ tokSeen' = TRUE
    /\ UNCHANGED <<isr, usbrst, setupPending, sent, nResets>>
    /\ \/ /\ dev.iStall
          /\ dev' = [dev EXCEPT !.doepint = @ \cup TokenBit]
          /\ host' = [host EXCEPT !.st = "idle"]
       \/ /\ ~dev.iStall /\ dev.iEna /\ dev.inPos <= Len(dev.inChain)
          /\ LET sz == dev.inChain[dev.inPos]
                 last == dev.inPos = Len(dev.inChain)
                 req == sent[host.seq]
             IN  /\ dev' = [dev EXCEPT !.inPos = @ + 1, !.iEna = ~last,
                             !.diepint = @ \cup (IF last THEN {"XFERCOMPL"}
                                                         ELSE {}),
                             !.doepint = @ \cup TokenBit]
                 /\ host' =
                      IF host.st = "in"
                      THEN [host EXCEPT
                              !.got = @ + sz,
                              !.ok = @ /\ dev.inTag = req,
                              !.st = IF sz < USB_MAX_PACKET_SIZE
                                        \/ host.got + sz >= req.wLength
                                     THEN "status_out" ELSE "in"]
                      ELSE [host EXCEPT !.st = "idle", !.ok = @ /\ sz = 0]
       \/ /\ ~tokSeen
          /\ ~dev.iStall /\ ~(dev.iEna /\ dev.inPos <= Len(dev.inChain))
          /\ dev' = [dev EXCEPT !.doepint = @ \cup TokenBit]
          /\ UNCHANGED host

\* The zero-length OUT of a control read's status stage.
HostStatusOut ==
    /\ host.st = "status_out"
    /\ \/ /\ dev.oStall
          /\ UNCHANGED dev
       \/ /\ ~dev.oStall /\ OutReady
          /\ dev' = [dev EXCEPT
                       !.outDesc[dev.next] = [bs |-> "DONE", sr |-> FALSE,
                                              seq |-> 0],
                       !.oEna = FALSE,
                       !.doepint = @ \cup {"XFERCOMPL"}]
    /\ host' = [host EXCEPT !.st = "idle"]
    /\ UNCHANGED <<isr, usbrst, setupPending, tokSeen, sent, nResets>>

\* The host resets the bus: the core disables EP0 and latches USBRST.
HostBusReset ==
    /\ nResets < MaxResets
    /\ nResets' = nResets + 1
    /\ usbrst' = TRUE
    /\ setupPending' = 0
    /\ dev' = [dev EXCEPT !.oEna = FALSE, !.iEna = FALSE,
                          !.oStall = FALSE, !.iStall = FALSE]
    /\ host' = [host EXCEPT !.st = "idle"]
    /\ UNCHANGED <<isr, tokSeen, sent>>

Next ==
    \/ IsrEnter
    \/ IsrBody
    \/ HwSetup
    \/ \E r \in Requests : HostSetup(r)
    \/ HostIn
    \/ HostStatusOut
    \/ HostBusReset

\* The NVIC runs a pending ISR to completion and the core's DMA proceeds;
\* the host is under no obligation to continue a transfer.
Fairness ==
    /\ WF_vars(IsrEnter /\ (OutPending \/ InPending \/ usbrst))
    /\ WF_vars(IsrBody)
    /\ WF_vars(HwSetup)

Spec == Init /\ [][Next]_vars /\ Fairness

-----------------------------------------------------------------------------
(* Properties *)

TypeOK ==
    /\ dev \in DevType
    /\ isr \in [pc : {"idle", "body"}, oepint : BOOLEAN, iepint : BOOLEAN,
                usbrst : BOOLEAN]
    /\ usbrst \in BOOLEAN
    /\ setupPending \in 0..MaxSetups
    /\ tokSeen \in BOOLEAN
    /\ host \in [st : {"idle", "in", "status_out", "status_in"},
                 seq : 0..MaxSetups, rst : 0..MaxResets, got : 0..IN_BUF_SIZE,
                 ok : BOOLEAN]
    /\ sent \in Seq(Requests) /\ Len(sent) <= MaxSetups
    /\ nResets \in 0..MaxResets

\* The bytes the host reads in a control read's data stage are the reply
\* handle_setup_with_in_stage prepared for that very SETUP (load_in_fifo's
\* chain for MIN(wLength, len)), and the status IN of a no-data request is
\* the zero-length packet of expect_status_phase_in.
HostGetsItsData ==
    /\ host.ok
    /\ host.st = "status_out" =>
          host.got = MIN(sent[host.seq].wLength, InStageLen(sent[host.seq]))

\* Every SETUP the host sends is eventually passed to handle_setup by
\* ep0_interrupt, unless the host sends another or resets the bus first.
SetupHandled ==
    \A n \in 1..MaxSetups, k \in 0..MaxResets :
        (host.seq = n /\ host.rst = k /\ nResets = k)
            ~> (dev.handled = n \/ Len(sent) # n \/ nResets # k)
====
