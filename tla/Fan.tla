--------------------------------- MODULE Fan ---------------------------------
(***************************************************************************)
(* zephyr/shim/src/fan.c: the fan channels' status, the PWM each drives,   *)
(* the SLEEP_MASK_FAN bit, the public fan_* calls and the HOOK_TICK        *)
(* handler with its closed-loop RPM control.                               *)
(*                                                                         *)
(* Each call and each tick is one step: they run on the hook task and the  *)
(* host command or console task, in any order.  The tachometer reading of *)
(* a channel at a tick is any of TachReadings.  The PWM pulse width is     *)
(* abstracted to the duty percentage (0 when the channel is disabled).     *)
(***************************************************************************)
EXTENDS Integers, SequencesExt

CONSTANTS
    FAN_CH_COUNT,
    UseRpmMode,     \* per channel: FAN_USE_RPM_MODE in its flags
    RPM_MIN, RPM_MAX,
    TachReadings,   \* values fan_rpm() may return
    RpmTargets,     \* rpm arguments of fan_set_rpm_target
    Duties          \* percent arguments of fan_set_duty

Chs == 0 .. FAN_CH_COUNT - 1
ASSUME UseRpmMode \in [Chs -> BOOLEAN]

RPM_DEVIATION == 7
RPM_MARGIN(rpm) == (rpm * RPM_DEVIATION) \div 100
AbsVal(x) == IF x < 0 THEN -x ELSE x
FanStatus == {"STOPPED", "CHANGING", "LOCKED", "FRUSTRATED"}

VARIABLES
    fs,      \* fan_status[]
    pwm,     \* the duty each channel's PWM output drives
    noSleep  \* SLEEP_MASK_FAN is set: the fan code forbids deep sleep

vars == <<fs, pwm, noSleep>>

\* The channel statics are zero, then fan_channel_setup sets the flags,
\* duty mode and STOPPED.
Init ==
    /\ fs = [ch \in Chs |-> [mode |-> "DUTY", rpm_actual |-> 0, rpm_pre |-> 0,
                             rpm_target |-> 0, rpmFlag |-> UseRpmMode[ch],
                             auto_status |-> "STOPPED", pwm_percent |-> 0,
                             pwm_enabled |-> FALSE]]
    /\ pwm = [ch \in Chs |-> 0]
    /\ noSleep = FALSE

(***************************************************************************)
(* The C functions, as operators on the state g = [fs, pwm, noSleep].      *)
(***************************************************************************)
fan_pwm_update(g, ch) ==
    [g EXCEPT !.pwm[ch] = IF g.fs[ch].pwm_enabled THEN g.fs[ch].pwm_percent
                          ELSE 0]

fan_all_disabled(f) == \A c \in Chs : f[c].auto_status = "STOPPED"

SetDuty(g, ch, percent) ==
    LET f == IF percent = 0
             THEN [g.fs EXCEPT ![ch].auto_status = "STOPPED"] ELSE g.fs
        ns == IF percent = 0 THEN g.noSleep /\ ~fan_all_disabled(f) ELSE TRUE
    IN  fan_pwm_update([g EXCEPT !.fs = [f EXCEPT ![ch].pwm_percent = percent],
                                 !.noSleep = ns], ch)

SetEnabled(g, ch, enabled) ==
    fan_pwm_update(
        [g EXCEPT !.fs[ch].auto_status = IF enabled THEN @ ELSE "STOPPED",
                  !.fs[ch].pwm_enabled = enabled], ch)

DutyStep(diff) ==
    CASE AbsVal(diff) >= 2000 -> 20
      [] AbsVal(diff) >= 1000 -> 10
      [] AbsVal(diff) >= 500  -> 5
      [] AbsVal(diff) >= 250  -> 3
      [] OTHER                -> 1

fan_adjust_duty(g, ch, diff, duty) ==
    SetDuty(g, ch, IF diff > 0 THEN IF duty + DutyStep(diff) < 100
                                    THEN duty + DutyStep(diff) ELSE 100
                   ELSE IF duty - DutyStep(diff) > 1
                        THEN duty - DutyStep(diff) ELSE 1)

\* fan_smart_control, with the tick's store of its result.
SmartControl(g, ch) ==
    LET s == g.fs[ch]
        a == s.rpm_actual
        t == s.rpm_target
        diff == t - a
        duty == s.pwm_percent
        g1 == [g EXCEPT !.fs[ch].rpm_pre = a]
        Set(h, st) == [h EXCEPT !.fs[ch].auto_status = st]
    IN  IF AbsVal(a - s.rpm_pre) > RPM_MARGIN(a) THEN Set(g1, "CHANGING")
        ELSE IF duty = 0 /\ t = 0 THEN Set(g1, "STOPPED")
        ELSE IF diff > RPM_MARGIN(t)
             THEN IF duty = 100 THEN Set(g1, "FRUSTRATED")
                  ELSE Set(fan_adjust_duty(g1, ch, diff, duty), "CHANGING")
        ELSE IF diff < -RPM_MARGIN(t)
             THEN IF duty = 1 /\ t # 0 THEN Set(g1, "FRUSTRATED")
                  ELSE Set(fan_adjust_duty(g1, ch, diff, duty), "CHANGING")
        ELSE Set(g1, "LOCKED")

fan_tick_func_rpm(g, ch, rpm) ==
    IF ~g.fs[ch].pwm_enabled THEN g
    ELSE SmartControl([g EXCEPT !.fs[ch].rpm_actual = rpm], ch)

fan_tick_func_duty(g, ch, rpm) ==
    IF g.fs[ch].rpmFlag
    THEN [g EXCEPT !.fs[ch].rpm_actual = rpm,
                   !.fs[ch].auto_status = IF rpm > 0 THEN "LOCKED" ELSE "STOPPED"]
    ELSE [g EXCEPT !.fs[ch].auto_status =
                       IF g.fs[ch].pwm_percent > 0 THEN "LOCKED" ELSE "STOPPED"]

TickCh(g, ch, rd) ==
    IF g.fs[ch].mode = "RPM" THEN fan_tick_func_rpm(g, ch, rd[ch])
    ELSE fan_tick_func_duty(g, ch, rd[ch])

SetRpmTarget(g, ch, rpm) ==
    IF rpm = 0 THEN [SetDuty(g, ch, 0) EXCEPT !.fs[ch].rpm_target = 0]
    ELSE LET g1 == IF g.fs[ch].pwm_enabled THEN g ELSE SetEnabled(g, ch, TRUE)
             r == IF rpm > RPM_MAX THEN RPM_MAX
                  ELSE IF rpm < RPM_MIN THEN RPM_MIN ELSE rpm
         IN  [g1 EXCEPT !.fs[ch].rpm_target = r]

(***************************************************************************)
(* The steps.                                                              *)
(***************************************************************************)
G == [fs |-> fs, pwm |-> pwm, noSleep |-> noSleep]

Apply(g) == fs' = g.fs /\ pwm' = g.pwm /\ noSleep' = g.noSleep

\* fan_tick_func: every channel in order, with the tachometer readings rd.
fan_tick_func(rd) ==
    Apply(FoldLeft(LAMBDA g, ch : TickCh(g, ch, rd), G,
                   [i \in 1 .. FAN_CH_COUNT |-> i - 1]))

fan_set_duty(ch, percent) == Apply(SetDuty(G, ch, percent))

fan_set_enabled(ch, enabled) == Apply(SetEnabled(G, ch, enabled))

fan_set_rpm_target(ch, rpm) == Apply(SetRpmTarget(G, ch, rpm))

fan_set_rpm_mode(ch, rpm_mode) ==
    /\ fs' = [fs EXCEPT ![ch].mode =
                  IF rpm_mode /\ fs[ch].rpmFlag THEN "RPM" ELSE "DUTY"]
    /\ UNCHANGED <<pwm, noSleep>>

Next ==
    \/ \E rd \in [Chs -> TachReadings] : fan_tick_func(rd)
    \/ \E ch \in Chs :
          \/ \E p \in Duties : fan_set_duty(ch, p)
          \/ \E e \in BOOLEAN : fan_set_enabled(ch, e)
          \/ \E r \in RpmTargets : fan_set_rpm_target(ch, r)
          \/ \E m \in BOOLEAN : fan_set_rpm_mode(ch, m)

Spec == Init /\ [][Next]_vars

(***************************************************************************)
(* Properties.                                                             *)
(***************************************************************************)

TypeOK ==
    /\ \A ch \in Chs :
          /\ fs[ch].auto_status \in FanStatus
          /\ fs[ch].pwm_percent \in 0 .. 100
          /\ fs[ch].mode \in {"RPM", "DUTY"}
    /\ pwm \in [Chs -> 0 .. 100]
    /\ noSleep \in BOOLEAN

\* SLEEP_MASK_FAN exists so that the chip does not enter deep sleep, which
\* stops the PWM, while a fan is driven: whenever a channel's PWM output is
\* on, the fan code forbids sleep.  fan_set_duty(ch, 0) allows sleep when
\* every channel's auto_status, which only the tick keeps current, reads
\* STOPPED.
SleepBlockedWhileDriving == (\E ch \in Chs : pwm[ch] > 0) => noSleep
==============================================================================
