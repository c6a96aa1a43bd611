------------------------------- MODULE System -------------------------------
(***************************************************************************)
(* common/system.c: jumps between the RO and RW images, the jump data and  *)
(* jump tags that cross a jump at the end of RAM, the reset flags, the     *)
(* system lock and the reboot commands.                                    *)
(*                                                                         *)
(* RAM is kept where the jump data lives.  A position is a byte distance   *)
(* below the end of RAM: jdata of the running image is at JD, and an       *)
(* object at address A occupies the distances END - A down to              *)
(* END - A - len + 1.  A jump tag header written at distance b is a record *)
(* of mem; its data follows it in RAM, at b - 4 downwards, and is a token  *)
(* naming the system_add_jump_tag call that wrote it.                      *)
(***************************************************************************)
EXTENDS Integers, SequencesExt

CONSTANTS
    Tags,          \* tag IDs passed to system_add_jump_tag
    TagSizes,      \* data sizes passed to system_add_jump_tag
    Causes,        \* reset-flag sets the chip reports after a real reset
    OldVersions,   \* jump data versions of an older image that may jump here
    MaxBoots,      \* bound on chip resets and jumps in a behaviour
    MaxAdds,       \* bound on system_add_jump_tag calls per image
    FLASH_BITS,    \* width of flash offsets (uint32_t, scaled down)
    FLASH_SIZE,    \* bytes of flash, below 2^FLASH_BITS as on the chips
    RO_OFF, RO_SIZE, RW_OFF, RW_SIZE, RW_SIG_SIZE,
    ProtectStates  \* flash_get_protect() values the chip may report

ASSUME \A c \in Causes : c # {}
ASSUME OldVersions \subseteq {1, 2}
ASSUME FLASH_SIZE < 2^FLASH_BITS
ASSUME ProtectStates \subseteq SUBSET {"GPIO_ASSERTED", "RO_NOW"}

JUMP_DATA_VERSION == 3
JD == 24                  \* sizeof(struct jump_data), version 3
JUMP_DATA_SIZE_V2 == 16
JdSize(v) == IF v = 1 THEN 12 ELSE IF v = 2 THEN JUMP_DATA_SIZE_V2 ELSE JD
HDR == 4                  \* sizeof(struct jump_tag)
ROUNDUP4(x) == ((x + 3) \div 4) * 4

Images == {"RO", "RW"}
\* EC_REBOOT_* commands.  An unknown command and EC_REBOOT_CANCEL both
\* leave handle_pending_reboot without a change.
Cmds == {"CANCEL", "JUMP_RO", "JUMP_RW", "COLD", "DISABLE_JUMP"}
Flags == UNION Causes \cup {"soft", "hard", "sysjump"}
\* system_get_jump_tag's NULL, and a read of RAM no tag header was written
\* to, as values of its [size, data] result.
None == [size |-> -1, data |-> 0]
Junk == [size |-> -2, data |-> 0]

VARIABLES
    image,      \* system_get_image_copy() of the running image
    st,         \* the running image's statics
    jd,         \* *jdata, the jump data of the running image's layout
    mem,        \* jump tag headers in RAM below jdata
    pc,         \* "run", or "sysjump" inside jump_to_image's hooks
    target,     \* the image jump_to_image is about to enter
    protect,    \* flash_get_protect(): the write-protect flags
    rwVecOk,    \* the RW image's reset vector lies inside the RW image
    \* history for the properties
    cause,      \* the flags the chip reported at the last real reset
    viaJump,    \* the running image was entered by a jump
    adds,       \* the latest successful add of each tag in this sysjump
    expect,     \* what the running image must find: the adds of the jump
    nBoots, nAdds

vars == <<image, st, jd, mem, pc, target, protect, rwVecOk, cause, viaJump,
          adds, expect, nBoots, nAdds>>

NoTags == [t \in Tags |-> None]

\* The statics of an image as its startup code leaves them, reset_flags
\* already set by the chip's pre-init.
Statics(flags) ==
    [reset_flags |-> flags, jumped_to_image |-> FALSE, disable_jump |-> FALSE,
     force_locked |-> FALSE, reboot_at_shutdown |-> "CANCEL"]

ZeroJd == [magic |-> FALSE, version |-> 0, reset_flags |-> {},
           jump_tag_total |-> 0, struct_size |-> 0]

(***************************************************************************)
(* Jump tags                                                               *)
(***************************************************************************)

\* Tags sit below jdata: the lowest used address is jdata - jump_tag_total.
system_usable_ram_end(jds, total) == jds + total

\* Writing len bytes at distances hi down to lo destroys every header they
\* overlap.
Clobber(m, hi, lo) == {h \in m : h.b < lo \/ h.b - (HDR - 1) > hi}

\* The store of system_add_jump_tag for an image whose jdata is jds bytes:
\* the total grows first, and the tag goes at the new usable_ram_end.
PutTag(m, total, jds, tag, size, data) ==
    LET tot == total + ROUNDUP4(size) + HDR
        b == system_usable_ram_end(jds, tot)
    IN  [total |-> tot,
         mem |-> Clobber(m, b, b - HDR - ROUNDUP4(size) + 1)
                   \cup {[b |-> b, tag |-> tag, size |-> size, data |-> data]}]

\* system_get_jump_tag: walk the tags from usable_ram_end upwards.  A
\* position without a header reads whatever RAM holds there (Junk).
RECURSIVE TagWalk(_, _, _, _)
TagWalk(tag, used, j, m) ==
    IF used >= j.jump_tag_total THEN None
    ELSE LET at == {h \in m : h.b = system_usable_ram_end(JD, j.jump_tag_total) - used}
         IN  IF at = {} THEN Junk
             ELSE LET h == CHOOSE x \in at : TRUE
                  IN  IF h.tag = tag THEN [size |-> h.size, data |-> h.data]
                      ELSE TagWalk(tag, used + HDR + ROUNDUP4(h.size), j, m)

system_get_jump_tag(tag) == TagWalk(tag, 0, jd, mem)

(***************************************************************************)
(* system_common_pre_init, given the flags the chip set and the RAM the    *)
(* previous image left.  Returns the new statics, jump data and tags.      *)
(***************************************************************************)
\* Mutants: the reset_flags == 0 test dropped; the memmove dropped.
JumpDataValid_anyFlags(flags, j) == j.magic /\ j.version >= 1
MoveTags_none(j, m) == m

\* The jump data is that of a jump: magic and version match, and the chip
\* reported no reset.
JumpDataValid(flags, j) == j.magic /\ j.version >= 1 /\ flags = {}

\* Shift the tags by the change in struct size: memmove(d, d + delta,
\* jump_tag_total) with d = system_usable_ram_end().
MoveTags(j, m) ==
    LET delta == CASE j.version = 1 -> 0
                   [] j.version = 2 -> JD - JUMP_DATA_SIZE_V2
                   [] OTHER -> JD - j.struct_size
        total == j.jump_tag_total
        InSrc(b) == b > JD - delta /\ b <= JD + total - delta
        InDst(b) == b > JD /\ b <= JD + total
    IN  IF delta # 0 /\ total # 0
        THEN {[h EXCEPT !.b = h.b + delta] : h \in {h \in m : InSrc(h.b)}}
               \cup {h \in m : ~InSrc(h.b) /\ ~InDst(h.b)}
        ELSE m

system_common_pre_init(flags, j, m) ==
    IF JumpDataValid(flags, j)
    THEN [st |-> [Statics(j.reset_flags \cup {"sysjump"})
                    EXCEPT !.jumped_to_image = TRUE],
          mem |-> MoveTags(j, m),
          jd |-> [j EXCEPT !.jump_tag_total = IF j.version < 2 THEN 0 ELSE @,
                           !.struct_size = JD,
                           !.magic = FALSE]]
    ELSE [st |-> Statics(flags), mem |-> m, jd |-> ZeroJd]

(***************************************************************************)
(* Locking and the jump itself                                             *)
(***************************************************************************)
system_is_locked ==
    st.force_locked \/ {"GPIO_ASSERTED", "RO_NOW"} \subseteq protect

\* The reset vector read from the image lies inside it.  RO is the image
\* the chip boots, so its vector is sound.
VectorInImage(copy) == copy = "RO" \/ rwVecOk

\* The image boots: the chip's pre-init, then system_common_pre_init.
Boot(img, flags, j, m) ==
    LET r == system_common_pre_init(flags, j, m)
    IN  /\ image' = img
        /\ st' = r.st /\ jd' = r.jd /\ mem' = r.mem
        /\ pc' = "run"
        /\ nAdds' = 0

\* jump_to_image up to hook_notify(HOOK_SYSJUMP): the jump data is filled in
\* and the hooks may now add tags.
jump_to_image(copy) ==
    /\ nBoots < MaxBoots
    /\ nBoots' = nBoots + 1
    /\ jd' = [magic |-> TRUE, version |-> JUMP_DATA_VERSION,
              reset_flags |-> st.reset_flags, jump_tag_total |-> 0,
              struct_size |-> JD]
    /\ pc' = "sysjump" /\ target' = copy
    /\ adds' = NoTags /\ nAdds' = 0
    /\ UNCHANGED <<image, st, mem, protect, rwVecOk, cause, viaJump, expect>>

\* The rest of jump_to_image: interrupts off, and the reset vector of the
\* target runs.  A jump is no chip reset, so the chip reports no flags.
JumpDone ==
    /\ pc = "sysjump"
    /\ Boot(target, {}, jd, mem)
    /\ viaJump' = TRUE /\ expect' = adds
    /\ UNCHANGED <<target, protect, rwVecOk, cause, adds, nBoots>>

\* A real reset (watchdog, reset pin, power loss, system_reset) at any point,
\* a sysjump's hooks included.  RAM survives unless power was lost.
ChipReset(flags) ==
    /\ nBoots < MaxBoots
    /\ nBoots' = nBoots + 1
    /\ \/ Boot("RO", flags, jd, mem)
       \/ \E mg \in BOOLEAN, v \in {0, JUMP_DATA_VERSION} :
            Boot("RO", flags, [ZeroJd EXCEPT !.magic = mg, !.version = v], {})
    /\ cause' = flags /\ viaJump' = FALSE /\ expect' = NoTags
    /\ UNCHANGED <<target, protect, rwVecOk, adds>>

Stay == UNCHANGED vars
SetStatic(s) ==
    /\ st' = s
    /\ UNCHANGED <<image, jd, mem, pc, target, protect, rwVecOk, cause,
                   viaJump, adds, expect, nBoots, nAdds>>

system_run_image_copy(copy) ==
    IF \/ image = copy
       \/ system_is_locked /\ (image # "RO" \/ copy # "RW" \/ st.disable_jump)
       \/ ~VectorInImage(copy)
    THEN Stay
    ELSE jump_to_image(copy)

\* The MPU set-up that follows is register programming and left out.
system_disable_jump == SetStatic([st EXCEPT !.disable_jump = TRUE])

handle_pending_reboot(cmd) ==
    CASE cmd = "JUMP_RO" -> system_run_image_copy("RO")
      [] cmd = "JUMP_RW" -> system_run_image_copy("RW")
      [] cmd = "COLD" -> ChipReset({"hard"})
      [] cmd = "DISABLE_JUMP" -> system_disable_jump
      [] OTHER -> Stay

(***************************************************************************)
(* Actions                                                                 *)
(***************************************************************************)
Init ==
    /\ protect \in ProtectStates
    /\ rwVecOk \in BOOLEAN
    /\ pc = "run" /\ target = "RO" /\ adds = NoTags
    /\ nBoots = 0 /\ nAdds = 0
    /\ \E c \in Causes :
         \* power-on: RAM holds junk
         \/ /\ \E mg \in BOOLEAN, v \in {0, JUMP_DATA_VERSION} :
                 LET r == system_common_pre_init(c,
                            [ZeroJd EXCEPT !.magic = mg, !.version = v], {})
                 IN  st = r.st /\ jd = r.jd /\ mem = r.mem
            /\ image = "RO" /\ cause = c /\ viaJump = FALSE
            /\ expect = NoTags
         \* an older RO image, whose jump data has version v, jumped to
         \* this RW after adding the tags ts (none in version 1)
         \/ \E v \in OldVersions, n \in 0..MaxAdds :
              \E ts \in [1..n -> Tags \X TagSizes] :
                /\ v = 1 => n = 0
                /\ \A i \in 1..n : ts[i][2] <= 255
                /\ LET put == FoldLeft(
                                LAMBDA acc, i :
                                  PutTag(acc.mem, acc.total, JdSize(v),
                                         ts[i][1], ts[i][2], i),
                                [mem |-> {}, total |-> 0],
                                [i \in 1..n |-> i])
                       \* version 1 has no jump_tag_total: RAM holds junk there
                       j0 == [magic |-> TRUE, version |-> v, reset_flags |-> c,
                              jump_tag_total |-> IF v = 1 THEN 8 ELSE put.total,
                              struct_size |-> 0]
                       r == system_common_pre_init({}, j0, put.mem)
                   IN  /\ st = r.st /\ jd = r.jd /\ mem = r.mem
                       /\ expect = [t \in Tags |->
                            LET k == {i \in 1..n : ts[i][1] = t}
                            IN  IF k = {} THEN None
                                ELSE [size |-> ts[Max(k)][2],
                                      data |-> Max(k)]]
                /\ image = "RW" /\ cause = c /\ viaJump = TRUE

\* Mutants: the size limit dropped; the sysjump test dropped.
AddAllowed_noLimit(size) == jd.magic
AddAllowed_anyTime(size) == size <= 255

\* Only allowed during a sysjump (the magic is set), and the size must fit
\* data_size.
AddAllowed(size) == jd.magic /\ size <= 255

\* system_add_jump_tag, from a HOOK_SYSJUMP hook or from any other caller.
\* A refused call (no sysjump in progress, or size > 255) changes nothing.
system_add_jump_tag(tag, size) ==
    IF AddAllowed(size)
    THEN LET data == nAdds + 1
             put == PutTag(mem, jd.jump_tag_total, JD, tag, size, data)
         IN  /\ nAdds < MaxAdds
             /\ nAdds' = nAdds + 1
             /\ jd' = [jd EXCEPT !.jump_tag_total = put.total]
             /\ mem' = put.mem
             /\ adds' = [adds EXCEPT ![tag] = [size |-> size, data |-> data]]
             /\ UNCHANGED <<image, st, pc, target, protect, rwVecOk, cause,
                            viaJump, expect, nBoots>>
    ELSE Stay

SysjumpArgs == {"RO", "RW", "disable", "addr"}

\* The sysjump console command.  An arbitrary address may be either
\* image's entry point.
command_sysjump(arg) ==
    CASE arg = "RO" -> system_run_image_copy("RO")
      [] arg = "RW" -> system_run_image_copy("RW")
      [] arg = "disable" -> system_disable_jump
      [] OTHER -> IF system_is_locked THEN Stay
                  ELSE \E copy \in Images : jump_to_image(copy)

\* The reboot console command: cancel a pending reboot, or system_reset.
command_reboot(arg) ==
    CASE arg = "cancel" -> SetStatic([st EXCEPT !.reboot_at_shutdown = "CANCEL"])
      [] arg = "hard" -> ChipReset({"hard"})
      [] OTHER -> ChipReset({"soft"})

command_system_lock == SetStatic([st EXCEPT !.force_locked = TRUE])

host_command_reboot(cmd, onShutdown) ==
    IF cmd = "CANCEL"
    THEN SetStatic([st EXCEPT !.reboot_at_shutdown = "CANCEL"])
    ELSE IF onShutdown
         THEN SetStatic([st EXCEPT !.reboot_at_shutdown = cmd])
         ELSE handle_pending_reboot(cmd)

\* HOOK_CHIPSET_SHUTDOWN
system_common_shutdown == handle_pending_reboot(st.reboot_at_shutdown)

Next ==
    \/ \E c \in Causes : ChipReset(c)
    \/ JumpDone
    \/ \E t \in Tags, s \in TagSizes : system_add_jump_tag(t, s)
    \/ pc = "run" /\ \E a \in SysjumpArgs : command_sysjump(a)
    \/ pc = "run" /\ \E a \in {"cancel", "soft", "hard"} : command_reboot(a)
    \/ pc = "run" /\ command_system_lock
    \/ pc = "run" /\ \E c \in Cmds, s \in BOOLEAN : host_command_reboot(c, s)
    \/ pc = "run" /\ system_common_shutdown

Spec == Init /\ [][Next]_vars

(***************************************************************************)
(* system_unsafe_to_overwrite, with uint32_t arithmetic scaled to          *)
(* FLASH_BITS bits, and the reference it must agree with.                  *)
(***************************************************************************)
FlashSpan == 2^FLASH_BITS
U32(x) == x % FlashSpan

\* The region the running image must not overwrite: RO, or RW less its
\* signature (CONFIG_RWSIG).
Protected(img) ==
    IF img = "RO" THEN [off |-> RO_OFF, size |-> RO_SIZE]
    ELSE [off |-> RW_OFF, size |-> RW_SIZE - RW_SIG_SIZE]

\* Mutant: a write that starts below the region is not checked.
system_unsafe_to_overwrite_startOnly(img, offset, size) ==
    LET r == Protected(img)
    IN  offset >= r.off /\ offset < U32(r.off + r.size)

system_unsafe_to_overwrite(img, offset, size) ==
    LET r == Protected(img)
    IN  \/ offset >= r.off /\ offset < U32(r.off + r.size)
        \/ r.off >= offset /\ r.off < U32(offset + size)

\* Reference: the bytes offset .. offset + size - 1 include a protected byte.
WriteHitsImage(img, offset, size) ==
    LET r == Protected(img)
    IN  \E x \in offset..(offset + size - 1) : x >= r.off /\ x < r.off + r.size

-----------------------------------------------------------------------------
TypeOK ==
    /\ image \in Images /\ pc \in {"run", "sysjump"} /\ target \in Images
    /\ st \in [reset_flags : SUBSET Flags, jumped_to_image : BOOLEAN,
               disable_jump : BOOLEAN, force_locked : BOOLEAN,
               reboot_at_shutdown : Cmds]
    /\ jd \in [magic : BOOLEAN, version : 0..JUMP_DATA_VERSION,
               reset_flags : SUBSET Flags, jump_tag_total : Nat,
               struct_size : {0, JD}]
    /\ \A h \in mem : h.b > JD /\ h.tag \in Tags /\ h.size \in 0..255
    /\ cause \in Causes \cup {{"soft"}, {"hard"}}
    /\ nBoots \in 0..MaxBoots /\ nAdds \in 0..MaxAdds

\* Every tag the HOOK_SYSJUMP hooks of the previous image added (the latest
\* add of each ID) is found by system_get_jump_tag in the image the jump
\* entered, with its size and data, across jump data versions; after a real
\* reset, even one in the middle of a sysjump, no tag is found.  This is
\* the contract of system_add_jump_tag/system_get_jump_tag through
\* jump_to_image and system_common_pre_init.
TagsRestored ==
    pc = "run" => \A t \in Tags : system_get_jump_tag(t) = expect[t]

\* The image knows how it was entered: jumped_to_image is set exactly after
\* a jump, and reset_flags hold the flags of the last real reset, plus
\* "sysjump" after any jump since (jump_to_image saves them,
\* system_common_pre_init restores them).
BootRecordTrue ==
    pc = "run" =>
        /\ st.jumped_to_image = viaJump
        /\ st.reset_flags = cause \cup (IF viaJump THEN {"sysjump"} ELSE {})

\* system_add_jump_tag succeeds only inside a sysjump: outside one the
\* jump tag area is never extended.
AddsOnlyDuringSysjump ==
    [][jd'.jump_tag_total > jd.jump_tag_total =>
          pc = "sysjump" /\ pc' = "sysjump"]_vars

\* system_unsafe_to_overwrite reports every write inside the flash that
\* touches the running image's protected region, so the flash commands
\* never let the running image be overwritten.
UnsafeCoversWrites ==
    \A offset \in 0..(FLASH_SIZE - 1) :
        \A size \in 0..(FLASH_SIZE - offset) :
            WriteHitsImage(image, offset, size) =>
                system_unsafe_to_overwrite(image, offset, size)

=============================================================================
