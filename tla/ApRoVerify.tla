----------------------------- MODULE ApRoVerify -----------------------------
(***************************************************************************)
(* AP RO verification of common/ap_ro_integrity_check.c.                   *)
(*                                                                         *)
(* One TPM-task run of do_ap_ro_check is one atomic step (the TPM task     *)
(* runs it to completion).  Everything it does to persistent state - the   *)
(* H1 flash page holding the V1 record or the V2 (GVD) cache descriptor,   *)
(* the INFO word that makes checks mandatory - and to volatile state -     *)
(* apro_result, the self re-arming keep_ec_in_reset deferred call, the EC  *)
(* reset line, shared memory - is part of that step, including a power     *)
(* loss that cuts it short.  The AP flash is an environment variable       *)
(* holding one of a set of images.  Data is abstracted: a digest is the    *)
(* content value it names, a GVD header is a record of the fields the      *)
(* checks compare, a broken signature chain is the first check it fails.   *)
(***************************************************************************)
EXTENDS Naturals, FiniteSets

CONSTANTS
    Contents,       \* contents of the AP RO ranges a digest can name
    NSlots,         \* 4K-aligned FMAP candidate offsets, scanned 1..NSlots
    Locs,           \* AP flash offsets a RO_GSCVD area can point at
    BoardId,        \* this chip's Board ID type once programmed
    BidBlank,       \* the Board ID type read while Board ID is erased
    Images,         \* AP flash images the environment can program
    Signed,         \* GVD headers that carry a genuine vendor signature
    HeapCap,        \* shared memory, in units of one keyblock allocation
    Blocked,        \* ap_ro_board_id_blocked() for this board
    DevBuild,       \* CR50_DEV build
    XferModes,      \* AP SPI transport per run: "ok" or "dead"
    FlashFaults,    \* H1 flash fault choices for one run (at most one fault)
    SeedOutcomes,   \* outcome of the flash writes of the seed command
    NoFmap,         \* model value: no FMAP signature at an offset
    NoArea,         \* model value: an FMAP without a RO_GSCVD area
    NoGvd           \* model value: no GVD at a location

Slots == 1..NSlots

\* LOWEST_ACCEPTABLE_GVD_ROLLBACK
LOWEST_ACCEPTABLE_GVD_ROLLBACK == 1

(* The first check of check_gscvd a GVD fails, "none" for a valid chain.  *)
Flaws == {"none", "header", "ranges", "kbMagic", "kbHuge", "kbTiny",
          "kbFits", "rootKey", "rootAlg", "kbData", "kbSig", "dataKeyAlg",
          "gvdSig"}

NoFault == [op |-> "none", res |-> "ok"]

Header == [fmap : Slots, bid : {BoardId}, rollback : Nat, expect : Contents]
Gvd == [hdr : Header, flaw : Flaws]
Image == [content : Contents,
          fmap    : [Slots -> {NoFmap, NoArea} \cup Locs],
          gvd     : [Locs -> Gvd \cup {NoGvd}]]

(* The H1 flash page (struct ap_ro_check).  "erased" is all ones           *)
(* (num_ranges == 0xffff), "garbage" a page whose checksum no longer       *)
(* matches after a failed or interrupted erase or write.                   *)
Erased == [kind |-> "erased"]
Garbage == [kind |-> "garbage"]
V1Rec(d) == [kind |-> "v1", digest |-> d]
V2Rec(s, l, h) == [kind |-> "v2", fmap |-> s, loc |-> l, hdr |-> h]
Records == {Erased, Garbage} \cup [kind : {"v1"}, digest : Contents]
           \cup [kind : {"v2"}, fmap : Slots, loc : Locs, hdr : Header]

ASSUME /\ Images \subseteq Image
       /\ Signed \subseteq Header
       /\ BidBlank # BoardId
       (* nobody forges a signature: a GVD whose chain verifies is signed *)
       /\ \A img \in Images, l \in Locs :
             img.gvd[l] # NoGvd /\ img.gvd[l].flaw = "none"
                => img.gvd[l].hdr \in Signed

VARIABLES
    rec,          \* H1 flash page p_chk
    required,     \* INFO_APRV_DATA word is zero: check_is_required()
    bid,          \* Board ID type read by read_board_id()
    apro_result,  \* static apro_result
    hold,         \* keep_ec_in_reset deferred call armed
    ecRst,        \* EC reset line asserted
    leaked,       \* shared memory units never released
    req,          \* an AP RO validate request waits for the TPM task
    hookPc,       \* ap_ro_device_reset on the hook task
    image,        \* AP flash contents
    seeded,       \* history: digests ever written by the seed command
    checked,      \* history: AP RO content the last completed run examined
    memFault      \* history: memory safety violations a run committed

vars == <<rec, required, bid, apro_result, hold, ecRst, leaked, req, hookPc,
          image, seeded, checked, memFault>>

TypeOK ==
    /\ rec \in Records
    /\ required \in BOOLEAN
    /\ bid \in {BidBlank, BoardId}
    /\ apro_result \in {"NOT_RUN", "PASS", "FAIL", "UNSUPPORTED_TRIGGERED"}
    /\ hold \in BOOLEAN /\ ecRst \in BOOLEAN
    /\ leaked \in 0..HeapCap
    /\ req \in BOOLEAN
    /\ hookPc \in {"idle", "clear"}
    /\ image \in Images
    /\ seeded \subseteq Contents
    /\ checked \in Contents
    /\ memFault \subseteq {"heap_overflow", "oob_read"}

(***************************************************************************)
(* One run of do_ap_ro_check threads an accumulator through the checks:   *)
(* rv, the persistent page and INFO word as the run leaves them, the      *)
(* leaked units, the flash fault not yet spent, whether power was lost,   *)
(* the memory faults committed and the transport mode of the run.         *)
(***************************************************************************)
Fail(a) == [a EXCEPT !.rv = "FAILED"]
Leak(a) == [a EXCEPT !.leaked = @ + 1]

Fits_unchecked(a, n) == TRUE

\* shared_mem_acquire succeeds while n more units fit beside the leaked ones
Fits(a, n) == a.leaked + n <= HeapCap

\* outcome of the H1 flash operation op, and the fault left for later ones
Outcome(a, op) == IF a.ff.op = op THEN a.ff.res ELSE "ok"
Spend(a, op) == IF a.ff.op = op THEN NoFault ELSE a.ff

\* validate_ranges_sha: hash the ranges through the SPI hash shortcut
validate_ranges_sha(a, expect) ==
    IF a.xfer = "ok" /\ image.content = expect THEN "SUCCEEDED" ELSE "FAILED"

\* read_gscvd_header: magic, size, fmap_location and Board ID binder
read_gscvd_header(a, g, fmapOffset) ==
    /\ a.xfer = "ok"
    /\ g # NoGvd
    /\ g.flaw # "header"
    /\ g.hdr.fmap = fmapOffset
    /\ g.hdr.bid = bid

\* require_future_checks: clear the INFO word
require_future_checks(a) ==
    LET o == Outcome(a, "info")
        b == [a EXCEPT !.ff = Spend(a, "info")]
    IN  CASE o = "ok"   -> [b EXCEPT !.required = TRUE, !.rv = "SUCCEEDED"]
          [] o = "fail" -> Fail(b)
          [] o = "torn" -> [b EXCEPT !.torn = TRUE]

save_gvd_hash_noFloor(a, s, l, h) ==
    LET needErase == a.rec.kind # "erased"
        e  == IF needErase THEN Outcome(a, "erase") ELSE "ok"
        b  == [a EXCEPT !.ff = IF needErase THEN Spend(a, "erase") ELSE @,
                        !.rec = IF e = "ok" THEN Erased ELSE Garbage]
        w  == Outcome(b, "write")
        c  == [b EXCEPT !.ff = Spend(b, "write")]
    IN  IF e = "torn" THEN [b EXCEPT !.torn = TRUE]
        ELSE CASE w = "ok"   -> [c EXCEPT !.rec = IF e = "ok"
                                                  THEN V2Rec(s, l, h)
                                                  ELSE Garbage,
                                          !.rv = "SUCCEEDED"]
               [] w = "fail" -> Fail([c EXCEPT !.rec = Garbage])
               [] w = "torn" -> [c EXCEPT !.rec = Garbage, !.torn = TRUE]

(* save_gvd_hash: floor on the rollback counter, erase the page unless it  *)
(* is blank (the erase result is ignored), write the descriptor.           *)
save_gvd_hash(a, s, l, h) ==
    LET needErase == a.rec.kind # "erased"
        e  == IF needErase THEN Outcome(a, "erase") ELSE "ok"
        b  == [a EXCEPT !.ff = IF needErase THEN Spend(a, "erase") ELSE @,
                        !.rec = IF e = "ok" THEN Erased ELSE Garbage]
        w  == Outcome(b, "write")
        c  == [b EXCEPT !.ff = Spend(b, "write")]
    IN  IF h.rollback < LOWEST_ACCEPTABLE_GVD_ROLLBACK THEN Fail(a)
        ELSE IF e = "torn" THEN [b EXCEPT !.torn = TRUE]
        ELSE CASE w = "ok"   -> [c EXCEPT !.rec = IF e = "ok"
                                                  THEN V2Rec(s, l, h)
                                                  ELSE Garbage,
                                          !.rv = "SUCCEEDED"]
               [] w = "fail" -> Fail([c EXCEPT !.rec = Garbage])
               [] w = "torn" -> [c EXCEPT !.rec = Garbage, !.torn = TRUE]

\* the tail of check_gscvd once validate_ranges_sha has succeeded
check_gscvd_commit(a, s, l, h) ==
    LET r == IF a.required THEN [a EXCEPT !.rv = "SUCCEEDED"]
             ELSE require_future_checks(a)
    IN  IF r.torn \/ r.rv = "FAILED" THEN r ELSE save_gvd_hash(r, s, l, h)

(* The callees of check_gscvd.  Each takes the run's accumulator, does    *)
(* nothing once an earlier step has failed (the code's early return or    *)
(* goto exit), and otherwise fails at the flaw the GVD carries.  One heap *)
(* unit stands for one shared_mem_acquire.                                 *)
Failed(a) == a.rv = "FAILED"

\* read_ranges: range_count within the array, the ranges readable
read_ranges(a, g) ==
    IF Failed(a) \/ g.flaw # "ranges" THEN a ELSE Fail(a)

(* read_keyblock: magic; acquire keyblock_size; copy the header into it   *)
(* (past the buffer when keyblock_size < sizeof(kb)); read the rest;       *)
(* versions and element_fits.  check_gscvd returns at once on a failure,   *)
(* so a keyblock acquired here is never released.                         *)
read_keyblock(a, g) ==
    CASE Failed(a)                          -> a
      [] g.flaw = "kbMagic"                 -> Fail(a)
      [] g.flaw = "kbHuge" \/ ~Fits(a, 1)   -> Fail(a)
      [] g.flaw = "kbTiny"                  ->
           Leak(Fail([a EXCEPT !.mem = @ \cup {"heap_overflow"}]))
      [] g.flaw = "kbFits"                  -> Leak(Fail(a))
      [] OTHER                              -> a

(* read_rootk: acquire the root key beside the held keyblock, read it,    *)
(* compare its hash; *prootk is set only on success, so a key read on a   *)
(* failed compare is leaked.                                               *)
read_rootk(a, g) ==
    CASE Failed(a)             -> a
      [] ~Fits(a, 2)           -> Fail(a)
      [] g.flaw = "rootKey"    -> Leak(Fail(a))
      [] OTHER                 -> a

\* unpack_pubk of the root key: algorithm, key size, array size
unpack_pubk(a, g) ==
    IF Failed(a) \/ g.flaw # "rootAlg" THEN a ELSE Fail(a)

(* verify_keyblock: hashes keyblock_signature.data_size bytes from the    *)
(* keyblock start, a size nothing compares with keyblock_size.            *)
verify_keyblock(a, g) ==
    CASE Failed(a)             -> a
      [] g.flaw = "kbSig"      -> Fail(a)
      [] g.flaw = "kbData"     -> Fail([a EXCEPT !.mem = @ \cup {"oob_read"}])
      [] OTHER                 -> a

(* verify_gvd_signature, after check_gscvd released the root key: unpack  *)
(* the data key, acquire the signature body, read it, verify.  A failure  *)
(* returns from check_gscvd without the exit path: the keyblock leaks.    *)
verify_gvd_signature(a, g) ==
    IF Failed(a) THEN a
    ELSE IF g.flaw \in {"dataKeyAlg", "gvdSig"} \/ ~Fits(a, 2)
         THEN Leak(Fail(a))
    ELSE a

(* check_gscvd(fmap_offset, gscvd_offset): the header, then the chain     *)
(* from the ranges to the GVD signature, then the content hash and the    *)
(* commit.                                                                 *)
check_gscvd(a, s, l) ==
    LET g == image.gvd[l]
        v == verify_gvd_signature(verify_keyblock(unpack_pubk(read_rootk(
               read_keyblock(read_ranges([a EXCEPT !.rv = "NOT_FOUND"], g), g),
               g), g), g), g)
    IN  IF ~read_gscvd_header(a, g, s) THEN [a EXCEPT !.rv = "NOT_FOUND"]
        ELSE IF Failed(v) THEN v
        ELSE IF validate_ranges_sha(v, g.hdr.expect) = "FAILED" THEN Fail(v)
        ELSE check_gscvd_commit(v, s, l, g.hdr)

(* validate_and_cache_ap_ro_v2_from_flash: walk the FMAP candidates in    *)
(* order, stop at the first RO_GSCVD that verifies or at a lost power.    *)
RECURSIVE ScanFrom(_, _)
ScanFrom(a, i) ==
    IF i > NSlots THEN [a EXCEPT !.rv = IF a.found THEN "FAILED"
                                                   ELSE "NOT_FOUND"]
    ELSE IF a.xfer # "ok" THEN Fail(a)
    ELSE IF image.fmap[i] \notin Locs THEN ScanFrom(a, i + 1)
    ELSE LET c == check_gscvd([a EXCEPT !.found = TRUE], i, image.fmap[i])
         IN  IF c.rv = "SUCCEEDED" \/ c.torn THEN c ELSE ScanFrom(c, i + 1)

validate_and_cache_ap_ro_v2_from_flash(a) ==
    ScanFrom([a EXCEPT !.found = FALSE], 1)

validate_cached_ap_ro_v2_noDigest(a, d) ==
    LET g == image.gvd[d.loc] IN
    IF ~read_gscvd_header(a, g, d.fmap) \/ g.flaw = "ranges" THEN "NOT_FOUND"
    ELSE validate_ranges_sha(a, g.hdr.expect)

(* validate_cached_ap_ro_v2: re-read the GVD at the cached offsets and    *)
(* compare its header digest with the cached one.                         *)
validate_cached_ap_ro_v2(a, d) ==
    LET g == image.gvd[d.loc] IN
    IF ~read_gscvd_header(a, g, d.fmap) \/ g.flaw = "ranges" THEN "NOT_FOUND"
    ELSE IF g.hdr # d.hdr THEN "FAILED"
    ELSE validate_ranges_sha(a, g.hdr.expect)

(* ap_ro_check_unsupported; find_v2_entry and verify_ap_ro_check_space    *)
(* accept exactly the intact V2 and V1 pages.                             *)
ap_ro_check_unsupported(r) ==
    CASE Blocked              -> "BOARD_ID_BLOCKED"
      [] r.kind = "erased"    -> "NOT_PROGRAMMED"
      [] r.kind = "garbage"   -> "FLASH_READ_FAILED"
      [] OTHER                -> "OK"

(* vc_get_ap_ro_status *)
vc_get_ap_ro_status ==
    IF apro_result # "UNSUPPORTED_TRIGGERED"
       /\ ap_ro_check_unsupported(rec) # "OK"
    THEN "UNSUPPORTED_NOT_TRIGGERED" ELSE apro_result

(***************************************************************************)
(* Actions.                                                                *)
(***************************************************************************)
Init ==
    /\ rec = Erased
    /\ required = FALSE
    /\ bid = BidBlank
    /\ apro_result = "NOT_RUN"
    /\ hold = FALSE /\ ecRst = FALSE
    /\ leaked = 0
    /\ req = FALSE
    /\ hookPc = "idle"
    /\ image \in Images
    /\ seeded = {}
    /\ checked = image.content
    /\ memFault = {}

(* ap_ro_check_callback (vendor command, allowed from the alternate       *)
(* interface or with the CCD capability) and validate_ap_ro (internal     *)
(* extension call) hand a request to the TPM task.                        *)
ap_ro_check_callback ==
    /\ ~req
    /\ req' = TRUE
    /\ UNCHANGED <<rec, required, bid, apro_result, hold, ecRst, leaked,
                   hookPc, image, seeded, checked, memFault>>

(* The volatile state after an H1 reboot: apro_result is NOT_RUN, no      *)
(* deferred call is armed, shared memory is fresh, the EC runs.           *)
Rebooted ==
    /\ apro_result' = "NOT_RUN"
    /\ hold' = FALSE /\ ecRst' = FALSE
    /\ leaked' = 0 /\ req' = FALSE /\ hookPc' = "idle"

(* The verdict of do_ap_ro_check from the combined result rv and          *)
(* check_is_required(), read after the run.                                *)
Verdict(rv, isRequired) ==
    CASE rv = "SUCCEEDED"                -> "PASS"
      [] rv = "FAILED" \/ isRequired     -> "FAIL"
      [] OTHER                           -> "UNSUPPORTED_TRIGGERED"

(* do_ap_ro_check on the TPM task, with transport mode x and flash fault   *)
(* ff.  V1 first, then the cached V2 descriptor, then the full V2 scan;    *)
(* the verdict latches FAIL and starts keep_ec_in_reset, or passes and     *)
(* releases the EC reset override.                                         *)
do_ap_ro_check(x, ff) ==
    LET support == ap_ro_check_unsupported(rec)
        a0  == [rv |-> "NOT_FOUND", found |-> FALSE, leaked |-> leaked,
                rec |-> rec, required |-> required, ff |-> ff,
                torn |-> FALSE, mem |-> memFault, xfer |-> x]
        rv1 == IF support = "OK" /\ rec.kind = "v1"
               THEN validate_ranges_sha(a0, rec.digest) ELSE "NOT_FOUND"
        \* rv2 is read uninitialised when there is no descriptor; the
        \* "|| !descriptor" makes the scan run whatever it holds
        rv2 == IF rec.kind = "v2" THEN validate_cached_ap_ro_v2(a0, rec)
               ELSE "NOT_FOUND"
        v2  == IF rv1 = "SUCCEEDED" THEN a0
               ELSE IF rv2 = "SUCCEEDED" THEN [a0 EXCEPT !.rv = "SUCCEEDED"]
               ELSE validate_and_cache_ap_ro_v2_from_flash(a0)
        rv  == IF rv1 # "SUCCEEDED" /\ v2.rv # "NOT_FOUND" THEN v2.rv
               ELSE rv1
    IN
    /\ req
    /\ IF support \in {"BOARD_ID_BLOCKED", "FLASH_READ_FAILED"}
       THEN /\ apro_result' = "UNSUPPORTED_TRIGGERED"
            /\ req' = FALSE
            /\ checked' = image.content
            /\ UNCHANGED <<rec, required, hold, ecRst, leaked, hookPc,
                           memFault>>
       ELSE /\ rec' = v2.rec
            /\ required' = v2.required
            /\ memFault' = v2.mem
            /\ IF v2.torn
               THEN Rebooted /\ UNCHANGED checked
               ELSE /\ req' = FALSE
                    /\ leaked' = v2.leaked
                    /\ checked' = image.content
                    /\ UNCHANGED hookPc
                    /\ apro_result' = Verdict(rv, v2.required)
                    /\ CASE apro_result' = "PASS" ->
                              \* release_ec_reset_override
                              hold' = FALSE /\ ecRst' = FALSE
                         [] apro_result' = "FAIL" ->
                              \* keep_ec_in_reset
                              hold' = TRUE /\ ecRst' = TRUE
                         [] OTHER -> UNCHANGED <<hold, ecRst>>
    /\ UNCHANGED <<bid, image, seeded>>

ApRoCheck == \E x \in XferModes, ff \in FlashFaults : do_ap_ro_check(x, ff)

(* keep_ec_in_reset fires from the deferred-call queue: assert EC reset    *)
(* and re-arm itself 100 ms later.                                         *)
keep_ec_in_reset_notRearmed ==
    /\ hold
    /\ ecRst' = TRUE
    /\ hold' = FALSE
    /\ UNCHANGED <<rec, required, bid, apro_result, leaked, req, hookPc,
                   image, seeded, checked, memFault>>

keep_ec_in_reset ==
    /\ hold
    /\ ecRst' = TRUE
    /\ hold' = TRUE
    /\ UNCHANGED <<rec, required, bid, apro_result, leaked, req, hookPc,
                   image, seeded, checked, memFault>>

\* something outside this file deasserts EC reset
EcRstDeasserted ==
    /\ ecRst
    /\ ecRst' = FALSE
    /\ UNCHANGED <<rec, required, bid, apro_result, hold, leaked, req,
                   hookPc, image, seeded, checked, memFault>>

(* ap_ro_device_reset on an AP reset, on the hook task: the test of        *)
(* apro_result and ec_rst_override(), then the store, which the TPM task   *)
(* (higher priority) can preempt.                                          *)
ap_ro_device_reset ==
    /\ hookPc = "idle"
    /\ apro_result # "NOT_RUN"
    /\ apro_result # "FAIL"          \* ec_rst_override()
    /\ hookPc' = "clear"
    /\ UNCHANGED <<rec, required, bid, apro_result, hold, ecRst, leaked, req,
                   image, seeded, checked, memFault>>

ap_ro_device_reset_clear ==
    /\ hookPc = "clear"
    /\ apro_result' = "NOT_RUN"
    /\ hookPc' = "idle"
    /\ UNCHANGED <<rec, required, bid, hold, ecRst, leaked, req, image,
                   seeded, checked, memFault>>

(* ap_ro_erase_hash: open the RO window, erase the page, close it.         *)
ap_ro_erase_hash(o) == IF o = "ok" THEN Erased ELSE Garbage

(* vc_seed_ap_ro_check: refused once the Board ID type is programmed      *)
(* (except in CR50_DEV builds); an empty payload erases the page; a       *)
(* well-formed payload is written, header then payload, only to an        *)
(* erased page.  Malformed payloads change nothing.                       *)
vc_seed_ap_ro_check ==
    /\ bid = BidBlank \/ DevBuild
    /\ \E o \in SeedOutcomes :
         /\ \/ /\ rec' = ap_ro_erase_hash(o)
               /\ UNCHANGED seeded
            \/ /\ rec = Erased
               /\ \E d \in Contents :
                    /\ rec' = IF o = "ok" THEN V1Rec(d) ELSE Garbage
                    /\ seeded' = IF o = "ok" THEN seeded \cup {d} ELSE seeded
         /\ IF o = "torn" THEN Rebooted
            ELSE UNCHANGED <<apro_result, hold, ecRst, leaked, req, hookPc>>
    /\ UNCHANGED <<required, bid, image, checked, memFault>>

(* ap_ro_info "erase" (CR50_DEV only), the erase result ignored.           *)
ap_ro_info_erase ==
    /\ DevBuild
    /\ \E o \in SeedOutcomes \ {"torn"} : rec' = ap_ro_erase_hash(o)
    /\ UNCHANGED <<required, bid, apro_result, hold, ecRst, leaked, req,
                   hookPc, image, seeded, checked, memFault>>

\* Board ID is programmed at finalisation (board_id.c, outside this file)
ProgramBoardId ==
    /\ bid = BidBlank
    /\ bid' = BoardId
    /\ UNCHANGED <<rec, required, apro_result, hold, ecRst, leaked, req,
                   hookPc, image, seeded, checked, memFault>>

\* the AP flash is reprogrammed (flashrom over CCD, servo, an attacker)
ReflashAp ==
    /\ \E img \in Images \ {image} : image' = img
    /\ UNCHANGED <<rec, required, bid, apro_result, hold, ecRst, leaked, req,
                   hookPc, seeded, checked, memFault>>

\* the H1 reboots (power cycle, battery cutoff): volatile state is lost
H1Reboot ==
    /\ Rebooted
    /\ UNCHANGED <<rec, required, bid, image, seeded, checked, memFault>>

Next ==
    \/ ap_ro_check_callback
    \/ ApRoCheck
    \/ keep_ec_in_reset
    \/ EcRstDeasserted
    \/ ap_ro_device_reset
    \/ ap_ro_device_reset_clear
    \/ vc_seed_ap_ro_check
    \/ ap_ro_info_erase
    \/ ProgramBoardId
    \/ ReflashAp
    \/ H1Reboot

(* The TPM task serves a pending request, the hook task finishes           *)
(* ap_ro_device_reset, and the timer fires an armed deferred call.         *)
Fairness ==
    /\ WF_vars(ApRoCheck)
    /\ WF_vars(ap_ro_device_reset_clear)
    /\ WF_vars(keep_ec_in_reset)

Spec == Init /\ [][Next]_vars /\ Fairness

\* the same behaviours under the timer's fairness alone
HoldSpec == Init /\ [][Next]_vars /\ WF_vars(keep_ec_in_reset)

(***************************************************************************)
(* Properties.                                                             *)
(***************************************************************************)

\* content a verified chain vouches for: seeded by the factory command, or
\* named by a vendor-signed GVD for this board at or above the floor
Authorised(c) ==
    \/ c \in seeded
    \/ \E h \in Signed : /\ h.expect = c
                         /\ h.bid = BoardId
                         /\ h.rollback >= LOWEST_ACCEPTABLE_GVD_ROLLBACK

(* A PASS verdict (which releases the EC) was reached only on AP RO       *)
(* content the factory seeded or a vendor-signed GVD for this board       *)
(* names: neither the V1 path, the cached V2 fast path nor the full scan  *)
(* of do_ap_ro_check accepts content nobody vouched for.                  *)
PassMeansAuthorised == apro_result = "PASS" => Authorised(checked)

(* The V2 descriptor save_gvd_hash leaves in the H1 page always names a   *)
(* vendor-signed GVD header for this board at or above the rollback       *)
(* floor: the cache that lets validate_cached_ap_ro_v2 skip the signature *)
(* chain is never poisoned.                                                *)
CacheHoldsOnlyVerified ==
    rec.kind = "v2" =>
        /\ rec.hdr \in Signed
        /\ rec.hdr.bid = BoardId
        /\ rec.hdr.rollback >= LOWEST_ACCEPTABLE_GVD_ROLLBACK

(* Once require_future_checks has cleared the INFO word, do_ap_ro_check   *)
(* never ends "unsupported" (which lets the AP boot unverified) unless    *)
(* the board is blocked by Board ID.                                      *)
RequiredMeansEnforced ==
    apro_result = "UNSUPPORTED_TRIGGERED" => ~required \/ Blocked

(* While the verdict is FAIL, keep_ec_in_reset puts the EC back in reset  *)
(* whenever something else has released it.                              *)
FailKeepsEcInReset ==
    (apro_result = "FAIL" /\ ~ecRst) ~> (ecRst \/ apro_result # "FAIL")

(* The keep_ec_in_reset hold runs only under a FAIL verdict, which        *)
(* ec_rst_override() and the status command report.                       *)
ResetHoldMeansFail == hold => apro_result = "FAIL"

\* the AP flash holds a complete valid chain for this board
Authentic(img) ==
    /\ bid = BoardId
    /\ \E s \in Slots :
         /\ img.fmap[s] \in Locs
         /\ LET g == img.gvd[img.fmap[s]] IN
              /\ g # NoGvd /\ g.flaw = "none"
              /\ g.hdr.fmap = s /\ g.hdr.bid = BoardId
              /\ g.hdr.rollback >= LOWEST_ACCEPTABLE_GVD_ROLLBACK
              /\ img.content = g.hdr.expect

(* A run of do_ap_ro_check over an AP flash holding a valid chain never   *)
(* latches FAIL while checks are not yet mandatory: the spec makes        *)
(* transport errors fatal only when checks are required and storage       *)
(* errors never fatal.                                                    *)
AuthenticImageNotFailed ==
    [][req /\ ~req' /\ ~required /\ Authentic(image)
         => apro_result' # "FAIL"]_vars

(* The rollback counter of the cached descriptor never goes down: the     *)
(* comment on gsc_verification_data.rollback_counter says blobs with a    *)
(* lower value than the cached one are not accepted.                      *)
RollbackNeverDecreases ==
    [][rec.kind = "v2" /\ rec'.kind = "v2"
         => rec'.hdr.rollback >= rec.hdr.rollback]_rec

(* read_keyblock never writes past the keyblock allocation.               *)
NoHeapOverflow == "heap_overflow" \notin memFault

(* No read of the keyblock leaves its declared size (spec: rejected       *)
(* before any signature math runs).                                       *)
NoOutOfBoundsRead == "oob_read" \notin memFault
=============================================================================
