----------------------------- MODULE FpListener -----------------------------
(***************************************************************************)
(* The listener thread of mlx_fingerprint_test and the sensor it drives.   *)
(*                                                                         *)
(* The sensor sleeps until a finger arrives, or, when it was told to watch *)
(* for that, until the finger leaves, and raises an interrupt.  The        *)
(* listener polls for it, finds out what it means, and answers with a      *)
(* fixed sequence of driver calls, the last of which is to put the sensor  *)
(* to sleep again.  Driver calls may fail, and nobody looks at the result. *)
(*                                                                         *)
(* Outside are the finger and the sensor.  Of the sensor it is assumed     *)
(* what the driver relies on: only a sleeping sensor reports; it reports   *)
(* what it finds when it is put to sleep as well as what changes later; a  *)
(* reset loses its mode and registers and raises interrupt 01 (the         *)
(* configuration's "clear reset irq").                                     *)
(*                                                                         *)
(* g_listener is left out: chips_check_sem_count always returns 0, so it   *)
(* is false whenever a branch looks at it.                                 *)
(***************************************************************************)
EXTENDS Naturals, Sequences

CONSTANTS
    ENROLL_COUNT,   \* touches of an enrolment: 8
    MaxEnrols,      \* bound: enrolments
    MaxResets,      \* bound: resets of the sensor the program did not make
    MaxNoise,       \* bound: interrupts that mean nothing
    MaxFails,       \* bound: driver calls that fail
    MaxHasty        \* bound: touches within 80 ms of listening

ASSUME FpListenerAssumption ==
    /\ ENROLL_COUNT \in Nat \ {0}
    /\ {MaxEnrols, MaxResets, MaxNoise, MaxFails, MaxHasty} \subseteq Nat

VARIABLES
    state,      \* listener.state
    loaded,     \* chips_get_fingernum() # 0
    taken,      \* g_cur_enroll_idx
    pc,         \* "serve" an interrupt, "start", "wait", "detect"; "ended"
    calls,      \* the driver calls still to make before the next loop
    rested,     \* 80 ms have passed since the listener began to wait
    mode,       \* the sensor: "IDLE" or "SLEEP" (register 46)
    irq,        \* "none", "finger" (register 50: 08), "other" (04 or 01)
    resetIrq,   \* register 4D: the sensor was reset
    thr,        \* register 42: watching for a finger "down", or "up"
    area,       \* the watched areas: "down" or "up"
    window,     \* what a scan reads: the "full" area or a "block" of it
    finger,     \* a finger lies on the sensor
    lifted,     \* history: the finger was off since (or when) an enrolment last took it
    spoilt,     \* history: images taken of a block
    counts      \* of what is bounded

sensor == <<mode, irq, resetIrq, thr, area, window>>
vars == <<state, loaded, taken, pc, calls, rested, sensor, finger, lifted, spoilt, counts>>

\* Slips: a finger that left is answered without putting the sensor to sleep,
\* or without having it watch for a finger again; after a touch the sensor is
\* not told to watch for the finger to leave.
LeaveNoSleep  == <<"reset", "config">>
LeaveNoConfig == <<"reset", "SLEEP">>
NoCheckUp     == <<"SLEEP">>

\* The sequences of calls the listener makes: in fingerprint_open and at each
\* start; for each thing an interrupt may mean; for a touch, up to the test of
\* the 80 ms ("time"), between that and the end, and at the end.
Open        == <<"reset", "config", "SLEEP">>
Start       == <<"esd_reset", "config", "SLEEP">>
InvalidSem  == <<"esd_reset", "config", "check_up", "SLEEP">>
ResetIrq    == <<"esd_reset", "config">>
FingerLeave == <<"reset", "config", "SLEEP">>
ReadError   == <<"IDLE", "SLEEP">>
Touched     == <<"IDLE", "time">>
UsedTouch   == <<"calibrate", "capture">>
TouchDone   == <<"check_up", "SLEEP">>

Calls == {"esd_reset", "reset", "config", "check_up", "IDLE", "SLEEP", "time",
          "calibrate", "capture"}

Bounds == [enrols |-> MaxEnrols, resets |-> MaxResets, noise |-> MaxNoise,
           fails |-> MaxFails, hasty |-> MaxHasty]

InBounds ==
    /\ counts \in [DOMAIN Bounds -> Nat]
    /\ \A k \in DOMAIN Bounds : counts[k] <= Bounds[k]

TypeOK ==
    /\ state \in {"KEY", "VERIFY", "ENROLL"}
    /\ loaded \in BOOLEAN
    /\ taken \in 0 .. (ENROLL_COUNT - 1)
    /\ pc \in {"serve", "start", "wait", "detect", "ended"}
    /\ calls \in Seq(Calls)
    /\ rested \in BOOLEAN
    /\ mode \in {"IDLE", "SLEEP"}
    /\ irq \in {"none", "finger", "other"}
    /\ resetIrq \in BOOLEAN
    /\ thr \in {"down", "up"} /\ area \in {"down", "up"}
    /\ window \in {"full", "block"}
    /\ finger \in BOOLEAN /\ lifted \in BOOLEAN
    /\ spoilt \in Nat
    /\ InBounds

\* fingerprint_open.
Init ==
    /\ state = "KEY"
    /\ loaded \in BOOLEAN
    /\ taken = 0
    /\ pc = "serve"
    /\ calls = Open
    /\ rested = FALSE
    /\ mode = "IDLE" /\ irq = "other" /\ resetIrq = FALSE
    /\ thr = "down" /\ area = "down" /\ window = "full"
    /\ finger \in BOOLEAN
    /\ lifted = TRUE
    /\ spoilt = 0
    /\ counts = [k \in DOMAIN Bounds |-> 0]

May(k)   == counts[k] < Bounds[k]
Count(k) == May(k) /\ counts' = [counts EXCEPT ![k] = @ + 1]

\* A slip: the mode is not looked at.
HeardAnyMode == irq # "none"

\* chips_sig_wait_interrupt: its poll ends when there is an interrupt and the
\* sensor is asleep.
Heard == irq # "none" /\ mode = "SLEEP"

-----------------------------------------------------------------------------
\* Outside: the finger, the sensor, time.

Reports(f) == f = (area = "down")

Moves(f) ==
    /\ finger' = f
    /\ irq' = IF mode = "SLEEP" /\ Reports(f) THEN "finger" ELSE irq
    /\ UNCHANGED <<state, loaded, taken, pc, calls, rested, mode, resetIrq, thr, area,
                   window, spoilt>>

\* A finger comes; one that comes while the listener has not waited for 80 ms
\* is hasty.
Touch ==
    /\ ~finger
    /\ Moves(TRUE)
    /\ IF pc = "wait" /\ rested /\ ~Heard THEN UNCHANGED counts ELSE Count("hasty")
    /\ UNCHANGED lifted

Lift == finger /\ Moves(FALSE) /\ lifted' = TRUE /\ UNCHANGED counts

\* What a reset leaves.
ResetSensor ==
    /\ mode' = "IDLE" /\ irq' = "other"
    /\ thr' = "down" /\ area' = "down"
    /\ UNCHANGED window

\* The sensor loses its power for a moment, or static electricity resets it.
SensorReset ==
    /\ pc # "ended"
    /\ Count("resets")
    /\ ResetSensor
    /\ resetIrq' = TRUE
    /\ UNCHANGED <<state, loaded, taken, pc, calls, rested, finger, lifted, spoilt>>

Noise ==
    /\ mode = "SLEEP"
    /\ Count("noise")
    /\ irq' = "other"
    /\ UNCHANGED <<state, loaded, taken, pc, calls, rested, mode, resetIrq, thr, area,
                   window, finger, lifted, spoilt>>

\* 80 ms pass without an interrupt; the poll for one takes 5 ms.
Rest ==
    /\ pc = "wait" /\ ~rested /\ ~Heard
    /\ rested' = TRUE
    /\ UNCHANGED <<state, loaded, taken, pc, calls, sensor, finger, lifted, spoilt, counts>>

-----------------------------------------------------------------------------
\* The driver's calls, made one after the other.
Calling(c) == pc \in {"serve", "start"} /\ calls # <<>> /\ Head(calls) = c
Done       == calls' = Tail(calls)
others     == <<state, loaded, taken, pc, rested, finger, lifted, spoilt>>

\* A call that fails may have done a part of its work: pulled the reset line
\* low; written some of the registers.
CallFails ==
    /\ \/ \E c \in {"esd_reset", "reset", "config"} : Calling(c) /\ UNCHANGED sensor
       \/ Calling("esd_reset") /\ ResetSensor /\ resetIrq' = FALSE
       \/ /\ Calling("config") /\ thr' = "down"
          /\ irq' \in {irq, "none"} /\ resetIrq' \in {resetIrq, FALSE}
          /\ UNCHANGED <<mode, area, window>>
    /\ Done /\ Count("fails")
    /\ UNCHANGED others

\* The reset pulse.
EsdReset ==
    /\ Calling("esd_reset")
    /\ Done /\ ResetSensor
    /\ resetIrq' = FALSE
    /\ UNCHANGED <<others, counts>>

\* chips_reset_sensor only pulls the reset line low; whether that resets the
\* sensor is the sensor's matter.
LowReset ==
    /\ Calling("reset")
    /\ Done
    /\ \/ ResetSensor /\ resetIrq' = FALSE
       \/ UNCHANGED sensor
    /\ UNCHANGED <<others, counts>>

\* The configuration clears the reset interrupt and watches for a finger.
Config ==
    /\ Calling("config")
    /\ Done
    /\ irq' = "none" /\ resetIrq' = FALSE
    /\ thr' = "down" /\ area' = "down"
    /\ UNCHANGED <<others, mode, window, counts>>

\* chips_check_finger_up: sixteen writes, any of which may fail.
CheckUp ==
    /\ Calling("check_up")
    /\ Done
    /\ \/ thr' = "up" /\ area' = "up" /\ UNCHANGED counts
       \/ thr' = "up" /\ area' = area /\ Count("fails")
       \/ thr' = thr /\ area' = "up" /\ Count("fails")
    /\ UNCHANGED <<others, mode, irq, resetIrq, window>>

\* What force_to_idle leaves of an interrupt: a sensor that idles already is
\* left alone.
AfterIdle == IF mode = "IDLE" THEN irq ELSE "none"

\* chips_set_sensor_mode, by way of IDLE.
SetMode ==
    /\ \/ Calling("IDLE") /\ mode' = "IDLE" /\ irq' = AfterIdle
       \/ /\ Calling("SLEEP") /\ mode' = "SLEEP"
          /\ irq' = IF Reports(finger) THEN "finger" ELSE AfterIdle
    /\ Done
    /\ UNCHANGED <<others, resetIrq, thr, area, window, counts>>

\* It fails: before the sensor idles, or between that and the interrupt it
\* clears, or at the last write.
SetModeFails ==
    /\ Calling("IDLE") \/ Calling("SLEEP")
    /\ \/ UNCHANGED <<mode, irq>>
       \/ mode' = "IDLE" /\ irq' \in {AfterIdle, "other"}
    /\ Done /\ Count("fails")
    /\ UNCHANGED <<others, resetIrq, thr, area, window>>

\* After a touch: only one that came later than 80 ms is made use of.  The
\* driver itself takes some of that time.
TestTime ==
    /\ Calling("time")
    /\ \E late \in {TRUE, rested} : calls' = (IF late THEN UsedTouch ELSE <<>>) \o TouchDone
    /\ UNCHANGED <<others, sensor, counts>>

\* chips_auto_calibration scans a block of the sensor; when that fails the
\* window is not set back.
CalibrateKeepsBlock ==
    /\ Calling("calibrate")
    /\ Done
    /\ \/ UNCHANGED <<window, counts>>
       \/ window' = "block" /\ Count("fails")
    /\ UNCHANGED <<others, mode, irq, resetIrq, thr, area>>

Calibrate ==
    /\ Calling("calibrate")
    /\ Done
    /\ \/ window' = "full" /\ UNCHANGED counts
       \/ window' = "block" /\ Count("fails")
    /\ UNCHANGED <<others, mode, irq, resetIrq, thr, area>>

\* A slip: the touches are not counted from 0 again.
TakenOn(n) == n + 1

\* g_cur_enroll_idx after another touch.
TakenNext(n) == (n + 1) % ENROLL_COUNT

\* How many images a touch gives, none of which sets the window: chips_verify
\* scans until an image matches, three times at most; a scan may fail.
Images == CASE state = "KEY"    -> {0}
            [] state = "ENROLL" -> 0 .. 1
            [] state = "VERIFY" -> 0 .. 3

\* What the listener does with the touch by its state: nothing; verify, and
\* end the process whatever the result; or take an image for the enrolment,
\* which may be refused, and which the last touch ends.
UseTouch ==
    /\ Calling("capture")
    /\ Done
    /\ pc' = IF state = "VERIFY" THEN "ended" ELSE pc
    /\ \E images \in Images : spoilt' = IF window = "block" THEN spoilt + images ELSE spoilt
    /\ lifted' = IF state = "ENROLL" THEN ~finger ELSE lifted
    /\ \/ UNCHANGED <<state, loaded, taken>>
       \/ /\ state = "ENROLL"
          /\ taken' = TakenNext(taken)
          /\ IF taken' = 0 THEN state' = "KEY" /\ loaded' = TRUE
                           ELSE UNCHANGED <<state, loaded>>
    /\ UNCHANGED <<rested, sensor, finger, counts>>

-----------------------------------------------------------------------------
\* The top of the loop.
AtTop == pc = "serve" /\ calls = <<>>

\* In STATE_KEY fingerprint_verify_start prepares the sensor, loads the
\* fingerprints and, if there are any, goes to STATE_VERIFY.
VerifyStart ==
    /\ AtTop /\ state = "KEY"
    /\ pc' = "start" /\ calls' = Start
    /\ state' = IF loaded THEN "VERIFY" ELSE "KEY"
    /\ UNCHANGED <<loaded, taken, rested, sensor, finger, lifted, spoilt, counts>>

\* fingerprint_enroll_start, the other item of the menu.  (No slot may be free;
\* then the state stays.)
EnrollStart ==
    /\ AtTop /\ state = "KEY"
    /\ Count("enrols")
    /\ pc' = "start" /\ calls' = Start
    /\ \/ state' = "ENROLL" /\ taken' = 0 /\ lifted' = TRUE
       \/ UNCHANGED <<state, taken, lifted>>
    /\ UNCHANGED <<loaded, rested, sensor, finger, spoilt>>

\* To chips_sig_wait_interrupt.
Listen ==
    /\ \/ AtTop /\ state # "KEY"
       \/ pc = "start" /\ calls = <<>>
    /\ pc' = "wait"
    /\ rested' = FALSE
    /\ UNCHANGED <<state, loaded, taken, calls, sensor, finger, lifted, spoilt, counts>>

Wait ==
    /\ pc = "wait" /\ Heard
    /\ pc' = "detect"
    /\ UNCHANGED <<state, loaded, taken, calls, rested, sensor, finger, lifted, spoilt, counts>>

\* chips_detect_finger_down: what the interrupt means.  The sensor may have
\* been reset meanwhile.  A failed read of register 50 is an invalid
\* interrupt, one of register 42 hides that the finger left.
Asleep == irq = "finger" /\ mode = "SLEEP"

Detect ==
    /\ pc = "detect"
    /\ \/ calls' = ReadError /\ Count("fails")
       \/ resetIrq /\ calls' = ResetIrq /\ UNCHANGED counts
       \/ ~resetIrq /\ calls' = InvalidSem
          /\ IF Asleep THEN Count("fails") ELSE UNCHANGED counts
       \/ ~resetIrq /\ Asleep /\ thr = "up" /\ calls' = FingerLeave /\ UNCHANGED counts
       \/ ~resetIrq /\ Asleep /\ calls' = Touched
          /\ IF thr = "up" THEN Count("fails") ELSE UNCHANGED counts
    /\ pc' = "serve"
    /\ UNCHANGED <<state, loaded, taken, rested, sensor, finger, lifted, spoilt>>

Listener ==
    \/ CallFails \/ EsdReset \/ LowReset \/ Config \/ CheckUp \/ SetMode \/ SetModeFails
    \/ TestTime \/ Calibrate \/ UseTouch
    \/ VerifyStart \/ EnrollStart \/ Listen \/ Wait \/ Detect

Next == Touch \/ Lift \/ SensorReset \/ Noise \/ Rest \/ Listener

Spec == Init /\ [][Next]_vars

\* The listener thread is scheduled, and time passes.  The user may never
\* come.
FairSpec == Spec /\ WF_vars(Listener) /\ WF_vars(Rest)

-----------------------------------------------------------------------------
\* The listener waits for a sensor that is not asleep and reports nothing.
Stuck == pc = "wait" /\ mode # "SLEEP"

\* An enrolment takes one image of a touch: between two images the finger has
\* been off the sensor, because after each the sensor is told to watch for
\* that, and nothing but the finger leaving, no noise, no reset, has it watch
\* for a finger again before the next image.  (A failed write does.)
OneImagePerTouch ==
    counts.fails = 0 /\ state = "ENROLL" /\ Calling("capture") => lifted

\* A calibration scan that fails leaves the window small for the images of the
\* touch it was made for, and for no other touch: it costs an enrolment one
\* image at most; the verification that ends the process may lose all of the
\* three it scans to one failure.
SpoiltOnce == spoilt <= counts.fails + (IF pc = "ended" THEN 2 ELSE 0)

\* The listener only ever waits in vain after a reset of the sensor or a
\* failed call: each answer to an interrupt puts the sensor to sleep again,
\* or, the one that does not, answers a reset.
StuckHasCause == Stuck => counts.resets + counts.fails > 0

\* Waiting in vain is for good: neither a touch nor another reset of the
\* sensor ends it.
StuckForever == [][Stuck => Stuck']_vars

\* With fingers that come and go, the listener in STATE_VERIFY uses a touch
\* in the end (and ends with it), or is stuck: noise, hasty touches, failed
\* reads and calls do not keep it from that.
VerifiesOrStuck ==
    []<>finger /\ []<>~finger => (state = "VERIFY" ~> (pc = "ended" \/ Stuck))

\* "The scanner should remain in the scanning state until either an error
\* occurs or the operation completes.  Recoverable errors ... should be
\* handled locally" (chips_fingerprint.c:296-299): once the interrupt of a
\* reset has been answered the sensor scans again.
ScansAfterReset == (pc = "serve" /\ calls = ResetIrq) ~> (mode = "SLEEP" \/ pc = "ended")
=============================================================================
