--------------------------------- MODULE U2F ---------------------------------
(***************************************************************************)
(* board/cr50/u2f.c: the U2F secrets kept in NVMEM (the G2F salt as an     *)
(* nvmem variable, the KEK seed and key-handle salt as hidden TPM objects) *)
(* and their copy in RAM that get_state loads once per boot, the KEK seed  *)
(* regeneration on TPM clear, and the power-button presence check.         *)
(*                                                                         *)
(* A secret is a number: 0 for "not present", the LegacySalt of a device   *)
(* that used U2F before the KEK seed existed, or the n-th value drawn from *)
(* DCRYPTO_ladder_random in this behaviour.  Time is get_time(), counted   *)
(* in steps from boot.                                                     *)
(***************************************************************************)
EXTENDS Naturals

CONSTANTS
    FailOps,           \* NVMEM and TRNG operations that may fail
    MaxRand,           \* bound on DCRYPTO_ladder_random draws
    MaxBoots,          \* bound on reboots
    MaxTime            \* bound on get_time()

ASSUME FailOps \subseteq {"setvar", "random", "write"}

LegacySalt == MaxRand + 1
Secrets == 0 .. LegacySalt

\* The NVMEM contents a device can boot with: never used U2F; used it
\* with the firmware that kept only the U2F salt (deprecated now); used it
\* before the KEK seed and key-handle salt existed; or fully set up.
InitNvs ==
    { [salt |-> 0, dep |-> FALSE, kek |-> 0, kh |-> 0],
      [salt |-> 0, dep |-> TRUE, kek |-> 0, kh |-> 0],
      [salt |-> LegacySalt, dep |-> FALSE, kek |-> 0, kh |-> 0],
      [salt |-> LegacySalt, dep |-> FALSE, kek |-> LegacySalt,
       kh |-> LegacySalt] }

VARIABLES
    nv,          \* committed NVMEM: salt, deprecated salt, KEK, KH salt
    pendKek,     \* a KEK seed written without commit, 0 if none
    loaded,      \* get_state's state_loaded
    ram,         \* get_state's static struct u2f_state
    nRand,       \* DCRYPTO_ladder_random draws so far
    lastPress,   \* last_press.val
    now,         \* get_time().val
    nBoots,
    \* history for the properties
    initNv,      \* the NVMEM the device first booted with
    regen        \* a KEK seed regeneration has been requested

vars == <<nv, pendKek, loaded, ram, nRand, lastPress, now, nBoots,
          initNv, regen>>

\* The outcomes an operation of kind op can have.
Outcome(op) == IF op \in FailOps THEN BOOLEAN ELSE {TRUE}

\* read_tpm_nvmem_hidden reads the NVMEM cache, which holds an uncommitted
\* write.
HiddenKek == IF pendKek # 0 THEN pendKek ELSE nv.kek

Init ==
    /\ nv \in InitNvs
    /\ initNv = nv
    /\ pendKek = 0
    /\ loaded = FALSE
    /\ ram = [salt |-> 0, kek |-> 0, kh |-> 0]
    /\ nRand = 0
    /\ lastPress = 0
    /\ now = 1
    /\ nBoots = 0
    /\ regen = FALSE

(***************************************************************************)
(* load_state, with the outcome of each of its NVMEM and TRNG calls given  *)
(* by o.  It yields [ok, ram, nv, pend, nRand]: the writes done before an  *)
(* early return stay in NVMEM.  No write is pending while the state is     *)
(* not loaded, so its commits flush nothing else.                          *)
(***************************************************************************)
\* Mutant: a failed setvar of the new salt is not noticed.
LoadSalt_ignoreSetvar(o, s) ==
    IF nv.salt # 0 THEN [s EXCEPT !.ram.salt = nv.salt]
    ELSE IF ~o.setdep THEN [s EXCEPT !.ok = FALSE]
    ELSE IF ~o.rs \/ s.nRand = MaxRand
         THEN [s EXCEPT !.ok = FALSE, !.nv.dep = FALSE]
    ELSE LET v == s.nRand + 1
         IN  [s EXCEPT !.nv.dep = FALSE, !.nRand = v, !.ram.salt = v,
                       !.nv.salt = IF o.setsalt THEN v ELSE 0]

LoadSalt(o, s) ==
    IF nv.salt # 0 THEN [s EXCEPT !.ram.salt = nv.salt]
    ELSE IF ~o.setdep THEN [s EXCEPT !.ok = FALSE]
    ELSE IF ~o.rs \/ s.nRand = MaxRand
         THEN [s EXCEPT !.ok = FALSE, !.nv.dep = FALSE]
    ELSE LET v == s.nRand + 1
         IN  IF ~o.setsalt
             THEN [s EXCEPT !.ok = FALSE, !.nv.dep = FALSE, !.nRand = v,
                            !.ram.salt = v]
             ELSE [s EXCEPT !.nv.dep = FALSE, !.nv.salt = v, !.nRand = v,
                            !.ram.salt = v]

\* Mutant: the KEK seed is always drawn anew, as for a device that never
\* used U2F.
HadSalt_never == FALSE

\* t_salt: the G2F salt was in NVMEM when load_state began.
HadSalt == nv.salt # 0

LoadKek(o, s) ==
    IF ~s.ok THEN s
    ELSE IF HiddenKek # 0 THEN [s EXCEPT !.ram.kek = HiddenKek]
    ELSE LET fresh == ~HadSalt
             v == IF fresh THEN s.nRand + 1 ELSE s.ram.salt
         IN  IF fresh /\ (~o.rk \/ s.nRand = MaxRand) THEN [s EXCEPT !.ok = FALSE]
             ELSE IF ~o.wk
             THEN [s EXCEPT !.ok = FALSE, !.ram.kek = v,
                            !.nRand = IF fresh THEN v ELSE s.nRand]
             ELSE [s EXCEPT !.nv.kek = v, !.ram.kek = v,
                            !.nRand = IF fresh THEN v ELSE s.nRand]

LoadKh(o, s) ==
    IF ~s.ok THEN s
    ELSE IF nv.kh # 0 THEN [s EXCEPT !.ram.kh = nv.kh]
    ELSE IF ~o.rh \/ s.nRand = MaxRand THEN [s EXCEPT !.ok = FALSE]
    ELSE LET v == s.nRand + 1
         IN  IF ~o.wh THEN [s EXCEPT !.ok = FALSE, !.nRand = v, !.ram.kh = v]
             ELSE [s EXCEPT !.nv.kh = v, !.nRand = v,
                            !.ram.kh = v]

LoadOutcomes ==
    [setdep : Outcome("setvar"), rs : Outcome("random"),
     setsalt : Outcome("setvar"), rk : Outcome("random"),
     wk : Outcome("write"), rh : Outcome("random"), wh : Outcome("write")]

load_state(o) ==
    LoadKh(o, LoadKek(o, LoadSalt(o, [ok |-> TRUE, ram |-> ram, nv |-> nv,
                                      pend |-> pendKek, nRand |-> nRand])))

\* get_state: load once per boot; the callers return EC_ERROR_UNKNOWN when
\* it fails.
get_state(o) ==
    IF loaded THEN [ok |-> TRUE, ram |-> ram, nv |-> nv, pend |-> pendKek,
                    nRand |-> nRand]
    ELSE load_state(o)

ApplyState(s) ==
    /\ loaded' = s.ok
    /\ ram' = s.ram
    /\ nv' = s.nv
    /\ pendKek' = s.pend
    /\ nRand' = s.nRand

(***************************************************************************)
(* The operations.                                                         *)
(***************************************************************************)

\* u2f_origin_user_keypair, u2f_gen_kek and g2f_individual_keypair: each
\* derives keys from the state get_state returns and changes nothing else.
UseKeys(o) ==
    /\ ApplyState(get_state(o))
    /\ UNCHANGED <<lastPress, now, nBoots, initNv, regen>>

\* u2f_gen_kek_seed(commit), called when the TPM is cleared.  The new seed
\* is drawn into the RAM state before it is written.
u2f_gen_kek_seed(o, commit, okRand, okWrite) ==
    LET s == get_state(o)
        v == s.nRand + 1
    IN  /\ regen' = TRUE
        /\ IF ~s.ok \/ ~okRand \/ s.nRand = MaxRand THEN ApplyState(s)
           ELSE /\ loaded' = TRUE
                /\ ram' = [s.ram EXCEPT !.kek = v]
                /\ nRand' = v
                /\ IF ~okWrite THEN nv' = s.nv /\ pendKek' = s.pend
                   ELSE IF commit THEN nv' = [s.nv EXCEPT !.kek = v]
                                       /\ pendKek' = 0
                   ELSE nv' = s.nv /\ pendKek' = v
        /\ UNCHANGED <<lastPress, now, nBoots, initNv>>

\* The TPM clear that asked for an uncommitted seed commits NVMEM.
NvCommit ==
    /\ pendKek # 0
    /\ nv' = [nv EXCEPT !.kek = pendKek]
    /\ pendKek' = 0
    /\ UNCHANGED <<loaded, ram, nRand, lastPress, now, nBoots, initNv, regen>>

\* power_button_record: a press counts only while the AP is on.
power_button_record(apOn, pressed) ==
    /\ IF apOn /\ pressed
       THEN lastPress' = now
       ELSE UNCHANGED lastPress
    /\ UNCHANGED <<nv, pendKek, loaded, ram, nRand, now, nBoots, initNv,
                   regen>>

\* pop_check_presence(consume): its result (a press within PRESENCE_TIMEOUT)
\* changes no state; a consuming check forgets the press.
pop_check_presence(consume) ==
    /\ lastPress' = IF consume THEN 0 ELSE lastPress
    /\ UNCHANGED <<nv, pendKek, loaded, ram, nRand, now, nBoots, initNv,
                   regen>>

TimePasses ==
    /\ now < MaxTime
    /\ now' = now + 1
    /\ UNCHANGED <<nv, pendKek, loaded, ram, nRand, lastPress, nBoots,
                   initNv, regen>>

\* A reset or power loss: RAM and the uncommitted NVMEM cache are lost.
Reboot ==
    /\ nBoots < MaxBoots
    /\ nBoots' = nBoots + 1
    /\ pendKek' = 0
    /\ loaded' = FALSE
    /\ ram' = [salt |-> 0, kek |-> 0, kh |-> 0]
    /\ lastPress' = 0
    /\ now' = 1
    /\ UNCHANGED <<nv, nRand, initNv, regen>>

Next ==
    \/ \E o \in LoadOutcomes : UseKeys(o)
    \/ \E o \in LoadOutcomes, c \in BOOLEAN, r \in Outcome("random"),
          w \in Outcome("write") : u2f_gen_kek_seed(o, c, r, w)
    \/ NvCommit
    \/ \E a, p \in BOOLEAN : power_button_record(a, p)
    \/ \E c \in BOOLEAN : pop_check_presence(c)
    \/ TimePasses
    \/ Reboot

Spec == Init /\ [][Next]_vars

(***************************************************************************)
(* Properties.                                                             *)
(***************************************************************************)

\* Once get_state reports the state loaded, the salt and key-handle salt the
\* key derivations use are the ones in NVMEM, whichever of load_state's
\* calls failed, and however many boots, in earlier attempts: otherwise
\* key handles made now stop working after the next reboot.
LoadedStateMatchesNv ==
    loaded => ram.salt = nv.salt /\ ram.kh = nv.kh /\ nv.salt # 0

\* A device that used U2F before the KEK seed existed keeps its existing
\* registrations: until a TPM clear regenerates it, the KEK seed load_state
\* creates is the old salt (the "one-off" in load_state's comment), across
\* failed attempts and reboots.
LegacyRegistrationsKept ==
    (initNv.salt = LegacySalt /\ ~regen) =>
        /\ HiddenKek \in {0, LegacySalt}
        /\ loaded => ram.kek = LegacySalt

\* Not checked by a run (see README.md): the KEK seed in RAM is the one
\* NVMEM holds or will hold once committed, so key handles wrapped now still
\* open after a reboot.  u2f_gen_kek_seed breaks it when its write fails.
KekMatchesNv == loaded => ram.kek = HiddenKek

\* Not checked by a run: a device that never used U2F gets a KEK seed drawn
\* from the TRNG ("generate new seed"), not its salt.  A first load_state
\* that fails after creating the salt breaks it.
FreshKekNotSalt ==
    (initNv.salt = 0 /\ ~regen) => (HiddenKek = 0 \/ HiddenKek # nv.salt)
==============================================================================
