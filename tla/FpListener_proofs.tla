-------------------------- MODULE FpListener_proofs --------------------------
(***************************************************************************)
(* Theorems about FpListener, for every length of an enrolment and every   *)
(* number of resets, failures and touches.                                 *)
(***************************************************************************)
EXTENDS FpListener, SequenceTheorems, TLAPS

-----------------------------------------------------------------------------
\* The calls of each answer are calls, and, but for the answer to a reset, the
\* last is to put the sensor to sleep, or the test of the 80 ms, from which the
\* listener goes on to that.

EndsAsleep(s) == s # <<>> /\ s[Len(s)] \in {"SLEEP", "time"}

\* The answers consist of driver calls.
LEMMA AnswersAreCalls ==
    /\ Open \in Seq(Calls) /\ Start \in Seq(Calls) /\ InvalidSem \in Seq(Calls)
    /\ ResetIrq \in Seq(Calls) /\ FingerLeave \in Seq(Calls) /\ ReadError \in Seq(Calls)
    /\ Touched \in Seq(Calls) /\ UsedTouch \in Seq(Calls) /\ TouchDone \in Seq(Calls)
BY DEF Open, Start, InvalidSem, ResetIrq, FingerLeave, ReadError, Touched, UsedTouch,
       TouchDone, Calls

\* Each answer but the one to a reset ends with the sensor asleep.
LEMMA AnswersEnd ==
    /\ EndsAsleep(Open) /\ EndsAsleep(Start) /\ EndsAsleep(InvalidSem)
    /\ EndsAsleep(FingerLeave) /\ EndsAsleep(ReadError) /\ EndsAsleep(Touched)
    /\ EndsAsleep(TouchDone)
BY DEF EndsAsleep, Open, Start, InvalidSem, FingerLeave, ReadError, Touched, TouchDone

\* While a call remains, the last remains.
LEMMA TailEndsAsleep ==
    ASSUME NEW s \in Seq(Calls), EndsAsleep(s),
           Head(s) \notin {"SLEEP", "time"} \/ Tail(s) # <<>>
    PROVE  EndsAsleep(Tail(s))
<1>1. Len(s) > 1
  BY DEF EndsAsleep
<1>2. /\ Tail(s) \in Seq(Calls) /\ Len(Tail(s)) = Len(s) - 1
      /\ \A i \in 1 .. Len(Tail(s)) : Tail(s)[i] = s[i + 1]
  BY HeadTailProperties, s # <<>>, Zenon DEF EndsAsleep
<1>3. Tail(s) # <<>> /\ Tail(s)[Len(Tail(s))] = s[Len(s)]
  BY <1>1, <1>2
<1> QED
  BY <1>3 DEF EndsAsleep

\* Calls before others do not change how those end.
LEMMA ConcatEndsAsleep ==
    ASSUME NEW s \in Seq(Calls), NEW t \in Seq(Calls), EndsAsleep(t)
    PROVE  s \o t \in Seq(Calls) /\ EndsAsleep(s \o t)
<1>1. s \o t \in Seq(Calls) /\ Len(s \o t) = Len(s) + Len(t)
  OBVIOUS
<1>2. Len(t) \in Nat \ {0} /\ Len(s) \in Nat
  BY DEF EndsAsleep
<1>3. (s \o t)[Len(s) + Len(t)] = t[Len(t)]
  BY <1>2
<1> QED
  BY <1>1, <1>2, <1>3 DEF EndsAsleep

\* Waiting in vain is for good: every way out of the poll asks for a sleeping
\* sensor, and nobody but the listener puts the sensor to sleep.
THEOREM StuckIsForever == Spec => StuckForever
<1>1. Stuck /\ [Next]_vars => Stuck'
  <2> SUFFICES ASSUME Stuck, [Next]_vars PROVE Stuck'
    OBVIOUS
  <2> USE DEF Stuck
  <2>1. CASE Touch
    BY <2>1 DEF Touch, Moves
  <2>2. CASE Lift
    BY <2>2 DEF Lift, Moves
  <2>3. CASE SensorReset
    BY <2>3 DEF SensorReset, ResetSensor
  <2>4. CASE Noise
    BY <2>4 DEF Noise
  <2>5. CASE Rest
    BY <2>5 DEF Rest, sensor
  <2>6. ~Listener
    BY DEF Listener, CallFails, EsdReset, LowReset, Config, CheckUp, SetMode, SetModeFails,
           TestTime, Calibrate, UseTouch, VerifyStart, EnrollStart, Listen, Wait, Detect,
           Calling, AtTop, Heard
  <2>7. CASE UNCHANGED vars
    BY <2>7 DEF vars, sensor
  <2> QED
    BY <2>1, <2>2, <2>3, <2>4, <2>5, <2>6, <2>7 DEF Next
<1>2. Spec => [][Next]_vars
  BY PTL DEF Spec
<1> QED
  BY <1>1, <1>2, PTL DEF StuckForever

-----------------------------------------------------------------------------
\* StuckHasCause is not inductive: that the sensor is asleep when the listener
\* waits follows from what the calls still to make end in, and, for the answer
\* that does not end so, from the sensor having been reset.
Calm == counts.resets + counts.fails = 0

SleepsInTheEnd == IF calls = <<>> THEN mode = "SLEEP" ELSE EndsAsleep(calls)

IInv ==
    /\ TypeOK
    /\ pc \in {"wait", "detect"} => calls = <<>>
    /\ Calm /\ pc # "ended" => ~resetIrq /\ SleepsInTheEnd

\* The invariant holds at first.
LEMMA InitIInv == Init => IInv
<1> SUFFICES ASSUME Init PROVE IInv
  OBVIOUS
<1>1. InBounds
  BY FpListenerAssumption DEF Init, Bounds, InBounds
<1>2. taken \in 0 .. (ENROLL_COUNT - 1) /\ spoilt \in Nat
  BY FpListenerAssumption DEF Init
<1>3. TypeOK
  BY <1>1, <1>2, AnswersAreCalls, Zenon DEF Init, TypeOK
<1> QED
  BY <1>3, AnswersEnd DEF Init, IInv, SleepsInTheEnd, EndsAsleep

\* What happens is counted, within its bound; and nothing is undone.
LEMMA CountCounts ==
    ASSUME InBounds, NEW k \in DOMAIN Bounds, Count(k)
    PROVE  /\ InBounds'
           /\ counts'[k] = counts[k] + 1
           /\ \A j \in DOMAIN Bounds \ {k} : counts'[j] = counts[j]
<1>1. /\ counts' = [counts EXCEPT ![k] = @ + 1]
      /\ counts[k] < Bounds[k]
  BY DEF Count, May
<1>2. Bounds' = Bounds /\ Bounds \in [DOMAIN Bounds -> Nat]
  BY FpListenerAssumption DEF Bounds
<1> QED
  BY <1>1, <1>2 DEF InBounds


\* Counting stays in the bounds and makes nothing calm.
LEMMA CountsGrow ==
    ASSUME InBounds, UNCHANGED counts \/ \E k \in DOMAIN Bounds : Count(k)
    PROVE  InBounds' /\ (Calm' => Calm)
<1>1. {"resets", "fails"} \subseteq DOMAIN Bounds
  BY DEF Bounds
<1>2. CASE UNCHANGED counts
  BY <1>2 DEF InBounds, Calm, Bounds
<1>3. CASE \E k \in DOMAIN Bounds : Count(k)
  <2>1. PICK k \in DOMAIN Bounds : Count(k)
    BY <1>3
  <2>2. /\ InBounds'
        /\ \A j \in DOMAIN Bounds : counts[j] \in Nat /\ counts'[j] \in {counts[j], counts[j] + 1}
    BY <2>1, CountCounts DEF InBounds
  <2> QED
    BY <1>1, <2>2 DEF Calm
<1> QED
  BY <1>2, <1>3

\* After a reset or a failed call it is not calm.
LEMMA MishapsEndCalm ==
    ASSUME InBounds, Count("resets") \/ Count("fails")
    PROVE  InBounds' /\ ~Calm'
<1>1. {"resets", "fails"} \subseteq DOMAIN Bounds
  BY DEF Bounds
<1>2. PICK k \in {"resets", "fails"} : Count(k)
  OBVIOUS
<1>3. InBounds' /\ counts'[k] = counts[k] + 1
      /\ \A j \in DOMAIN Bounds \ {k} : counts'[j] = counts[j]
  BY <1>1, <1>2, CountCounts
<1> QED
  BY <1>1, <1>3 DEF Calm, InBounds

\* The names of the counters.
LEMMA CountNames == {"enrols", "resets", "noise", "fails", "hasty"} = DOMAIN Bounds
BY DEF Bounds

\* A call leaves calls that end as before; after the last one the sensor is
\* asleep.
LEMMA CallMade ==
    ASSUME TypeOK, NEW c, Calling(c), Done
    PROVE  /\ pc \in {"serve", "start"}
           /\ calls' \in Seq(Calls)
           /\ c \notin {"SLEEP", "time"} \/ (c = "SLEEP" /\ mode' = "SLEEP")
              => (SleepsInTheEnd => SleepsInTheEnd')
<1>1. /\ calls \in Seq(Calls) /\ calls # <<>> /\ Head(calls) = c /\ calls' = Tail(calls)
      /\ pc \in {"serve", "start"}
  BY DEF TypeOK, Calling, Done
<1>2. calls' \in Seq(Calls)
  BY <1>1, HeadTailProperties, Zenon
<1>3. EndsAsleep(calls) /\ (c \notin {"SLEEP", "time"} \/ calls' # <<>>) => EndsAsleep(calls')
  BY <1>1, TailEndsAsleep
<1> QED
  BY <1>1, <1>2, <1>3 DEF SleepsInTheEnd, EndsAsleep

\* A touch that leaves the process running gives one image at most.
LEMMA ImagesAre ==
    ASSUME TypeOK
    PROVE  Images \subseteq 0 .. 3 /\ (state # "VERIFY" => Images \subseteq 0 .. 1)
<1>1. CASE state = "KEY"
  BY <1>1 DEF Images
<1>2. CASE state = "ENROLL"
  BY <1>2 DEF Images
<1>3. CASE state = "VERIFY"
  BY <1>3 DEF Images
<1> QED
  BY <1>1, <1>2, <1>3 DEF TypeOK

\* Every step keeps it.
LEMMA NextIInv == IInv /\ [Next]_vars => IInv'
<1> SUFFICES ASSUME IInv, [Next]_vars PROVE IInv'
  OBVIOUS
<1> USE DEF IInv
<1>0. InBounds
  BY DEF TypeOK
<1>1. CASE Touch
  <2>1. InBounds' /\ (Calm' => Calm)
    BY <1>0, <1>1, CountsGrow, CountNames DEF Touch
  <2>2. TypeOK'
    BY <1>1, <2>1 DEF Touch, Moves, TypeOK
  <2> QED
    BY <1>1, <2>1, <2>2 DEF Touch, Moves, SleepsInTheEnd, EndsAsleep
<1>2. CASE Lift
  <2>1. InBounds' /\ (Calm' => Calm)
    BY <1>0, <1>2, CountsGrow DEF Lift
  <2>2. TypeOK'
    BY <1>2, <2>1 DEF Lift, Moves, TypeOK
  <2> QED
    BY <1>2, <2>1, <2>2 DEF Lift, Moves, SleepsInTheEnd, EndsAsleep
<1>3. CASE SensorReset
  <2>1. InBounds' /\ ~Calm'
    BY <1>0, <1>3, MishapsEndCalm DEF SensorReset
  <2>2. TypeOK'
    BY <1>3, <2>1 DEF SensorReset, ResetSensor, TypeOK
  <2> QED
    BY <1>3, <2>1, <2>2 DEF SensorReset
<1>4. CASE Noise
  <2>1. InBounds' /\ (Calm' => Calm)
    BY <1>0, <1>4, CountsGrow, CountNames DEF Noise
  <2>2. TypeOK'
    BY <1>4, <2>1 DEF Noise, TypeOK
  <2> QED
    BY <1>4, <2>1, <2>2 DEF Noise, SleepsInTheEnd, EndsAsleep
<1>5. CASE Rest
  BY <1>0, <1>5, CountsGrow DEF Rest, sensor, TypeOK, SleepsInTheEnd, EndsAsleep
<1>6. CASE CallFails
  <2>1. InBounds' /\ ~Calm'
    BY <1>0, <1>6, MishapsEndCalm DEF CallFails
  <2>2. PICK c \in {"esd_reset", "reset", "config"} : Calling(c)
    BY <1>6 DEF CallFails
  <2>3. pc \in {"serve", "start"} /\ pc' = pc /\ calls' \in Seq(Calls)
    BY <1>6, <2>2, CallMade DEF CallFails, others
  <2>4. TypeOK'
    BY <1>6, <2>1, <2>3 DEF CallFails, ResetSensor, others, sensor, TypeOK
  <2> QED
    BY <2>1, <2>3, <2>4
<1>7. CASE EsdReset
  <2>1. InBounds' /\ (Calm' => Calm)
    BY <1>0, <1>7, CountsGrow DEF EsdReset
  <2>2. /\ pc' \in {"serve", "start"} /\ calls' \in Seq(Calls)
        /\ SleepsInTheEnd => SleepsInTheEnd'
    BY <1>7, CallMade DEF EsdReset, others
  <2>3. TypeOK'
    BY <1>7, <2>1, <2>2 DEF EsdReset, ResetSensor, others, TypeOK
  <2> QED
    BY <1>7, <2>1, <2>2, <2>3 DEF EsdReset, ResetSensor, others
<1>8. CASE LowReset
  <2>1. InBounds' /\ (Calm' => Calm)
    BY <1>0, <1>8, CountsGrow DEF LowReset
  <2>2. /\ pc' \in {"serve", "start"} /\ calls' \in Seq(Calls)
        /\ SleepsInTheEnd => SleepsInTheEnd'
    BY <1>8, CallMade DEF LowReset, others
  <2>3. CASE ResetSensor /\ resetIrq' = FALSE
    BY <1>8, <2>1, <2>2, <2>3 DEF LowReset, ResetSensor, others, TypeOK
  <2>4. CASE UNCHANGED sensor
    BY <1>8, <2>1, <2>2, <2>4 DEF LowReset, sensor, others, TypeOK
  <2> QED
    BY <1>8, <2>3, <2>4 DEF LowReset
<1>9. CASE Config
  <2>1. InBounds' /\ (Calm' => Calm)
    BY <1>0, <1>9, CountsGrow DEF Config
  <2>2. /\ pc' \in {"serve", "start"} /\ calls' \in Seq(Calls)
        /\ SleepsInTheEnd => SleepsInTheEnd'
    BY <1>9, CallMade DEF Config, others
  <2>3. TypeOK'
    BY <1>9, <2>1, <2>2 DEF Config, others, TypeOK
  <2> QED
    BY <1>9, <2>1, <2>2, <2>3 DEF Config, others
<1>10. CASE CheckUp
  <2>1. InBounds' /\ (Calm' => Calm)
    BY <1>0, <1>10, CountsGrow, CountNames DEF CheckUp
  <2>2. /\ pc' \in {"serve", "start"} /\ calls' \in Seq(Calls)
        /\ SleepsInTheEnd => SleepsInTheEnd'
    BY <1>10, CallMade DEF CheckUp, others
  <2>3. TypeOK'
    BY <1>10, <2>1, <2>2 DEF CheckUp, others, TypeOK
  <2> QED
    BY <1>10, <2>1, <2>2, <2>3 DEF CheckUp, others
<1>11. CASE SetMode
  <2>1. InBounds' /\ (Calm' => Calm)
    BY <1>0, <1>11, CountsGrow DEF SetMode
  <2>2. /\ pc' \in {"serve", "start"} /\ calls' \in Seq(Calls)
        /\ SleepsInTheEnd => SleepsInTheEnd'
    BY <1>11, CallMade DEF SetMode, others
  <2>3. TypeOK'
    BY <1>11, <2>1, <2>2 DEF SetMode, AfterIdle, others, TypeOK
  <2> QED
    BY <1>11, <2>1, <2>2, <2>3 DEF SetMode, AfterIdle, others
<1>12. CASE SetModeFails
  <2>1. InBounds' /\ ~Calm'
    BY <1>0, <1>12, MishapsEndCalm DEF SetModeFails
  <2>2. PICK c \in {"IDLE", "SLEEP"} : Calling(c)
    BY <1>12 DEF SetModeFails
  <2>3. pc \in {"serve", "start"} /\ pc' = pc /\ calls' \in Seq(Calls)
    BY <1>12, <2>2, CallMade DEF SetModeFails, others
  <2>4. TypeOK'
    BY <1>12, <2>1, <2>3 DEF SetModeFails, AfterIdle, others, TypeOK
  <2> QED
    BY <2>1, <2>3, <2>4
<1>13. CASE TestTime
  <2>1. InBounds' /\ (Calm' => Calm)
    BY <1>0, <1>13, CountsGrow DEF TestTime
  <2>2. PICK late \in {TRUE, rested} :
            calls' = (IF late THEN UsedTouch ELSE <<>>) \o TouchDone
    BY <1>13 DEF TestTime
  <2>3. (IF late THEN UsedTouch ELSE <<>>) \in Seq(Calls)
    BY AnswersAreCalls
  <2>4. calls' \in Seq(Calls) /\ EndsAsleep(calls')
    BY <2>2, <2>3, AnswersAreCalls, AnswersEnd, ConcatEndsAsleep, Zenon
  <2>5. pc \in {"serve", "start"} /\ SleepsInTheEnd'
    BY <1>13, <2>4 DEF TestTime, Calling, SleepsInTheEnd, EndsAsleep
  <2>6. TypeOK'
    BY <1>13, <2>1, <2>4 DEF TestTime, others, sensor, TypeOK
  <2> QED
    BY <1>13, <2>1, <2>5, <2>6 DEF TestTime, others, sensor
<1>14. CASE Calibrate
  <2>1. InBounds' /\ (Calm' => Calm)
    BY <1>0, <1>14, CountsGrow, CountNames DEF Calibrate
  <2>2. /\ pc' \in {"serve", "start"} /\ calls' \in Seq(Calls)
        /\ SleepsInTheEnd => SleepsInTheEnd'
    BY <1>14, CallMade DEF Calibrate, others
  <2>3. TypeOK'
    BY <1>14, <2>1, <2>2 DEF Calibrate, others, TypeOK
  <2> QED
    BY <1>14, <2>1, <2>2, <2>3 DEF Calibrate, others
<1>15. CASE UseTouch
  <2>1. InBounds' /\ (Calm' => Calm)
    BY <1>0, <1>15, CountsGrow DEF UseTouch
  <2>2. /\ pc \in {"serve", "start"} /\ calls' \in Seq(Calls)
        /\ SleepsInTheEnd => SleepsInTheEnd'
    BY <1>15, CallMade DEF UseTouch
  <2>3. taken' \in 0 .. (ENROLL_COUNT - 1) /\ spoilt' \in Nat
    <3>1. taken' \in 0 .. (ENROLL_COUNT - 1)
      BY <1>15, FpListenerAssumption DEF UseTouch, TakenNext, TypeOK
    <3>2. PICK images \in Images : spoilt' = IF window = "block" THEN spoilt + images ELSE spoilt
      BY <1>15 DEF UseTouch
    <3>3. images \in 0 .. 3 /\ spoilt \in Nat
      BY <3>2, ImagesAre DEF TypeOK
    <3> QED
      BY <3>1, <3>2, <3>3
  <2>4. /\ pc' \in {"ended", pc} /\ state' \in {state, "KEY"}
        /\ loaded' \in BOOLEAN /\ lifted' \in BOOLEAN
    BY <1>15 DEF UseTouch, TypeOK
  <2>5. TypeOK'
    BY <1>15, <2>1, <2>2, <2>3, <2>4, Zenon DEF UseTouch, sensor, TypeOK
  <2> QED
    BY <1>15, <2>1, <2>2, <2>4, <2>5 DEF UseTouch, sensor
<1>16. CASE VerifyStart
  <2>1. InBounds' /\ (Calm' => Calm)
    BY <1>0, <1>16, CountsGrow DEF VerifyStart
  <2>2. calls' \in Seq(Calls) /\ SleepsInTheEnd'
    BY <1>16, AnswersAreCalls, AnswersEnd DEF VerifyStart, SleepsInTheEnd, EndsAsleep
  <2>3. TypeOK'
    BY <1>16, <2>1, <2>2 DEF VerifyStart, sensor, TypeOK
  <2> QED
    BY <1>16, <2>1, <2>2, <2>3 DEF VerifyStart, AtTop, sensor
<1>17. CASE EnrollStart
  <2>1. InBounds' /\ (Calm' => Calm)
    BY <1>0, <1>17, CountsGrow, CountNames DEF EnrollStart
  <2>2. calls' \in Seq(Calls) /\ SleepsInTheEnd'
    BY <1>17, AnswersAreCalls, AnswersEnd DEF EnrollStart, SleepsInTheEnd, EndsAsleep
  <2>3. taken' \in 0 .. (ENROLL_COUNT - 1)
    BY <1>17, FpListenerAssumption DEF EnrollStart, TypeOK
  <2>4. TypeOK'
    BY <1>17, <2>1, <2>2, <2>3 DEF EnrollStart, sensor, TypeOK
  <2> QED
    BY <1>17, <2>1, <2>2, <2>4 DEF EnrollStart, AtTop, sensor
<1>18. CASE Listen
  <2>1. InBounds' /\ (Calm' => Calm)
    BY <1>0, <1>18, CountsGrow DEF Listen
  <2>2. TypeOK'
    BY <1>18, <2>1 DEF Listen, sensor, TypeOK
  <2> QED
    BY <1>18, <2>1, <2>2 DEF Listen, AtTop, sensor, SleepsInTheEnd
<1>19. CASE Wait
  <2>1. InBounds' /\ (Calm' => Calm)
    BY <1>0, <1>19, CountsGrow DEF Wait
  <2>2. TypeOK'
    BY <1>19, <2>1 DEF Wait, sensor, TypeOK
  <2> QED
    BY <1>19, <2>1, <2>2 DEF Wait, sensor, SleepsInTheEnd
<1>20. CASE Detect
  <2>1. InBounds' /\ (Calm' => Calm)
    BY <1>0, <1>20, CountsGrow, CountNames DEF Detect
  <2>2. calls' \in Seq(Calls)
    BY <1>20, AnswersAreCalls DEF Detect
  <2>3. TypeOK'
    BY <1>20, <2>1, <2>2 DEF Detect, sensor, TypeOK
  <2>4. ~resetIrq => SleepsInTheEnd'
    BY <1>20, AnswersEnd DEF Detect, SleepsInTheEnd, EndsAsleep
  <2> QED
    BY <1>20, <2>1, <2>3, <2>4 DEF Detect, sensor
<1>21. CASE UNCHANGED vars
  BY <1>0, <1>21, CountsGrow DEF vars, sensor, TypeOK, SleepsInTheEnd, EndsAsleep
<1> QED
  BY <1>1, <1>2, <1>3, <1>4, <1>5, <1>6, <1>7, <1>8, <1>9, <1>10, <1>11, <1>12, <1>13, <1>14,
     <1>15, <1>16, <1>17, <1>18, <1>19, <1>20, <1>21 DEF Next, Listener

\* The invariant holds throughout.
LEMMA SpecIInv == Spec => []IInv
BY InitIInv, NextIInv, PTL DEF Spec

\* The variables of the listener and the sensor keep their types.
THEOREM TypeCorrect == Spec => []TypeOK
<1>1. IInv => TypeOK
  BY DEF IInv
<1> QED
  BY <1>1, SpecIInv, PTL

\* Unless the sensor was reset or a call failed, the listener never waits for
\* a sensor that is not asleep, whatever fingers and noise do.
THEOREM CauseOfStuck == Spec => []StuckHasCause
<1>1. IInv => StuckHasCause
  <2> SUFFICES ASSUME IInv, Stuck, ~(counts.resets + counts.fails > 0) PROVE FALSE
    BY DEF StuckHasCause
  <2>1. counts.resets \in Nat /\ counts.fails \in Nat
    BY DEF IInv, TypeOK, InBounds, Bounds
  <2>2. Calm
    BY <2>1 DEF Calm
  <2> QED
    BY <2>2 DEF IInv, Stuck, SleepsInTheEnd
<1> QED
  BY <1>1, SpecIInv, PTL

-----------------------------------------------------------------------------
\* What an enrolment takes.  OneImagePerTouch rests on what the sensor watches
\* for at each call that is still to be made while the finger of the last
\* image has not left.

Last        == <<"SLEEP">>
Configure   == <<"config">>
Reconfigure == <<"config", "check_up", "SLEEP">>
Image       == <<"capture", "check_up", "SLEEP">>
Used        == <<"calibrate", "capture", "check_up", "SLEEP">>

\* What may remain of the calls of an answer.
Remaining ==
    {<<>>, Open, Start, InvalidSem, ResetIrq, FingerLeave, ReadError, Touched, TouchDone,
     Last, Configure, Reconfigure, Image, Used, <<"time">>, <<"config", "SLEEP">>}

\* The calls that remain have the sensor watch for the finger to leave; or
\* it does so already; or it was reset, which the listener answers by no
\* image, ever.
Holding ==
    \/ calls \in {InvalidSem, Reconfigure, TouchDone}
    \/ calls = Last /\ thr = "up" /\ area = "up"
    \/ calls = <<>> /\ mode = "SLEEP" /\ thr = "up" /\ area = "up" /\ irq # "finger"
    \/ calls \in {Last, <<>>} /\ resetIrq
    \/ calls = ResetIrq
    \/ calls = Configure /\ mode = "IDLE"
    \/ calls = <<>> /\ mode = "IDLE" /\ pc # "detect"

HeldUntilLifted ==
    counts.fails = 0 /\ state = "ENROLL" /\ ~lifted => finger /\ Holding

\* A block that is scanned once more has cost a failure that no image has
\* answered for; the images of the verification, the last, share one.
SpoiltIsPaid ==
    /\ pc # "ended" => spoilt <= counts.fails
    /\ spoilt <= counts.fails + 2
    /\ window = "block" /\ Calling("capture") => spoilt < counts.fails

EnrolInv ==
    /\ calls \in Remaining
    /\ mode = "IDLE" => irq # "finger"
    /\ HeldUntilLifted
    /\ SpoiltIsPaid

\* The answers are among the remainders EnrolInv speaks of; their first calls.
LEMMA RemainingCalls ==
    /\ {<<>>, Open, Start, InvalidSem, ResetIrq, FingerLeave, ReadError, Touched, TouchDone}
         \subseteq Remaining
    /\ <<>> \o TouchDone = TouchDone /\ UsedTouch \o TouchDone = Used
    /\ Used \in Remaining /\ Used # <<>> /\ Head(Used) = "calibrate"
    /\ InvalidSem # <<>> /\ Head(InvalidSem) = "esd_reset"
    /\ ResetIrq # <<>> /\ Head(ResetIrq) = "esd_reset"
    /\ TouchDone # <<>> /\ Head(TouchDone) = "check_up"
<1>1. {<<>>, Open, Start, InvalidSem, ResetIrq, FingerLeave, ReadError, Touched, TouchDone, Used}
        \subseteq Remaining
  BY Zenon DEF Remaining
<1>2. <<>> \o TouchDone = TouchDone
  <2>1. TouchDone \in Seq(Calls)
    BY AnswersAreCalls
  <2> HIDE DEF TouchDone
  <2> QED
    BY <2>1, ConcatEmptySeq
<1>3. UsedTouch \o TouchDone = Used
  <2> DEFINE both == UsedTouch \o TouchDone
  <2>1. /\ both \in Seq(Calls) /\ Len(both) = 4 /\ Used \in Seq(Calls) /\ Len(Used) = 4
        /\ both[1] = "calibrate" /\ both[2] = "capture" /\ both[3] = "check_up"
        /\ both[4] = "SLEEP"
        /\ Used[1] = "calibrate" /\ Used[2] = "capture" /\ Used[3] = "check_up"
        /\ Used[4] = "SLEEP"
    BY DEF UsedTouch, TouchDone, Used, Calls
  <2>2. \A i \in 1 .. 4 : i = 1 \/ i = 2 \/ i = 3 \/ i = 4
    OBVIOUS
  <2> HIDE DEF both
  <2>3. \A i \in 1 .. Len(both) : both[i] = Used[i]
    BY <2>1, <2>2
  <2>4. both = Used
    BY <2>1, <2>3, SeqEqual
  <2> QED
    BY <2>4 DEF both
<1>4. /\ Used # <<>> /\ Head(Used) = "calibrate"
      /\ InvalidSem # <<>> /\ Head(InvalidSem) = "esd_reset"
      /\ ResetIrq # <<>> /\ Head(ResetIrq) = "esd_reset"
      /\ TouchDone # <<>> /\ Head(TouchDone) = "check_up"
  BY DEF TouchDone, Used, InvalidSem, ResetIrq
<1> QED
  BY <1>1, <1>2, <1>3, <1>4

\* The first calls of the other answers.
LEMMA Starts ==
    /\ Open # <<>> /\ Head(Open) = "reset" /\ Start # <<>> /\ Head(Start) = "esd_reset"
    /\ FingerLeave # <<>> /\ Head(FingerLeave) = "reset"
    /\ ReadError # <<>> /\ Head(ReadError) = "IDLE" /\ Touched # <<>> /\ Head(Touched) = "IDLE"
BY DEF Open, Start, FingerLeave, ReadError, Touched

\* One call further.
LEMMA RemainingAfter ==
    ASSUME NEW s \in Remaining, s # <<>>
    PROVE  /\ Tail(s) \in Remaining
           /\ Head(s) = "capture" => Tail(s) = TouchDone
           /\ Tail(s) # <<>> /\ Head(Tail(s)) = "capture" => Head(s) = "calibrate"
           /\ s = InvalidSem => Head(s) = "esd_reset" /\ Tail(s) = Reconfigure
           /\ s = Reconfigure => Head(s) = "config" /\ Tail(s) = TouchDone
           /\ s = TouchDone => Head(s) = "check_up" /\ Tail(s) = Last
           /\ s = Last => Head(s) = "SLEEP" /\ Tail(s) = <<>>
           /\ s = ResetIrq => Head(s) = "esd_reset" /\ Tail(s) = Configure
           /\ s = Configure => Head(s) = "config" /\ Tail(s) = <<>>
<1>1. s = InvalidSem => Head(s) = "esd_reset" /\ Tail(s) = Reconfigure
  BY DEF InvalidSem, Reconfigure
<1>2. s = Reconfigure => Head(s) = "config" /\ Tail(s) = TouchDone
  BY DEF Reconfigure, TouchDone
<1>3. s = TouchDone => Head(s) = "check_up" /\ Tail(s) = Last
  BY DEF TouchDone, Last
<1>4. s = Last => Head(s) = "SLEEP" /\ Tail(s) = <<>>
  BY DEF Last
<1>5. s = ResetIrq => Head(s) = "esd_reset" /\ Tail(s) = Configure
  BY DEF ResetIrq, Configure
<1>6. s = Configure => Head(s) = "config" /\ Tail(s) = <<>>
  BY DEF Configure
<1>7. s = Open => Head(s) = "reset" /\ Tail(s) = <<"config", "SLEEP">>
  BY DEF Open
<1>8. s = Start => Head(s) = "esd_reset" /\ Tail(s) = <<"config", "SLEEP">>
  BY DEF Start
<1>9. s = FingerLeave => Head(s) = "reset" /\ Tail(s) = <<"config", "SLEEP">>
  BY DEF FingerLeave
<1>10. s = ReadError => Head(s) = "IDLE" /\ Tail(s) = Last
  BY DEF ReadError, Last
<1>11. s = Touched => Head(s) = "IDLE" /\ Tail(s) = <<"time">>
  BY DEF Touched
<1>12. s = Image => Head(s) = "capture" /\ Tail(s) = TouchDone
  BY DEF Image, TouchDone
<1>13. s = Used => Head(s) = "calibrate" /\ Tail(s) = Image
  BY DEF Used, Image
<1>14. s = <<"time">> => Head(s) = "time" /\ Tail(s) = <<>>
  OBVIOUS
<1>15. s = <<"config", "SLEEP">> => Head(s) = "config" /\ Tail(s) = Last
  BY DEF Last
<1>16. /\ Head(Reconfigure) # "capture" /\ Head(TouchDone) # "capture" /\ Head(Last) # "capture"
       /\ Head(Configure) # "capture" /\ Head(<<"config", "SLEEP">>) # "capture"
       /\ Head(<<"time">>) # "capture"
  BY DEF Reconfigure, TouchDone, Last, Configure
<1> HIDE DEF Open, Start, InvalidSem, ResetIrq, FingerLeave, ReadError, Touched, TouchDone,
             Last, Configure, Reconfigure, Image, Used
<1>17. Tail(s) \in Remaining
  BY <1>1, <1>2, <1>3, <1>4, <1>5, <1>6, <1>7, <1>8, <1>9, <1>10, <1>11, <1>12, <1>13, <1>14,
     <1>15, Zenon DEF Remaining
<1>18. Head(s) = "capture" => Tail(s) = TouchDone
  BY <1>1, <1>2, <1>3, <1>4, <1>5, <1>6, <1>7, <1>8, <1>9, <1>10, <1>11, <1>12, <1>13, <1>14,
     <1>15 DEF Remaining
<1>19. Tail(s) # <<>> /\ Head(Tail(s)) = "capture" => Head(s) = "calibrate"
  BY <1>1, <1>2, <1>3, <1>4, <1>5, <1>6, <1>7, <1>8, <1>9, <1>10, <1>11, <1>12, <1>13, <1>14,
     <1>15, <1>16 DEF Remaining
<1> QED
  BY <1>1, <1>2, <1>3, <1>4, <1>5, <1>6, <1>17, <1>18, <1>19

\* Whatever is counted, failures are never forgotten.
LEMMA FailsGrow ==
    ASSUME InBounds, [Next]_vars
    PROVE  /\ counts.fails \in Nat /\ counts'.fails \in Nat /\ counts.fails <= counts'.fails
           /\ Count("fails") => counts'.fails = counts.fails + 1
<1>1. UNCHANGED counts \/ \E k \in DOMAIN Bounds : Count(k)
  BY CountNames DEF Next, Listener, Touch, Lift, SensorReset, Noise, Rest, CallFails, EsdReset,
     LowReset, Config, CheckUp, SetMode, SetModeFails, TestTime, Calibrate, UseTouch, VerifyStart,
     EnrollStart, Listen, Wait, Detect, vars
<1>2. "fails" \in DOMAIN Bounds /\ counts.fails \in Nat
  BY CountNames DEF InBounds
<1>3. CASE UNCHANGED counts
  <2>1. ~Count("fails")
    BY <1>2, <1>3, CountCounts
  <2> QED
    BY <1>2, <1>3, <2>1
<1>4. CASE \E k \in DOMAIN Bounds : Count(k)
  <2>1. PICK k \in DOMAIN Bounds : Count(k)
    BY <1>4
  <2>2. counts'.fails = counts.fails + 1 \/ counts'.fails = counts.fails
    BY <1>2, <2>1, CountCounts
  <2>3. Count("fails") => counts'.fails = counts.fails + 1
    BY <1>2, CountCounts
  <2> QED
    BY <1>2, <2>2, <2>3
<1> QED
  BY <1>1, <1>3, <1>4

\* The process that has ended does nothing more.
LEMMA EndedStays == [Next]_vars /\ pc = "ended" => pc' = "ended"
BY DEF Next, Listener, Touch, Lift, Moves, SensorReset, Noise, Rest, CallFails, EsdReset,
       LowReset, Config, CheckUp, SetMode, SetModeFails, TestTime, Calibrate, UseTouch, VerifyStart,
       EnrollStart, Listen, Wait, Detect, Calling, AtTop, others, vars

\* The calls that open the sensor are all still to make.
LEMMA InitEnrolInv == Init => EnrolInv
<1> SUFFICES ASSUME Init PROVE EnrolInv
  OBVIOUS
<1>1. counts.fails = 0 /\ spoilt = 0 /\ lifted /\ irq # "finger"
  BY CountNames DEF Init
<1>2. calls \in Remaining /\ ~Calling("capture")
  BY RemainingCalls, Starts DEF Init, Calling
<1> QED
  BY <1>1, <1>2 DEF EnrolInv, HeldUntilLifted, SpoiltIsPaid

\* Every call leaves the sensor as the next one expects it.
LEMMA NextEnrolInv == IInv /\ EnrolInv /\ [Next]_vars => EnrolInv'
<1> SUFFICES ASSUME IInv, EnrolInv, [Next]_vars PROVE EnrolInv'
  OBVIOUS
<1>0. /\ calls \in Remaining /\ mode \in {"IDLE", "SLEEP"} /\ irq \in {"none", "finger", "other"}
      /\ window \in {"full", "block"} /\ spoilt \in Nat
      /\ mode = "IDLE" => irq # "finger"
      /\ pc \in {"wait", "detect"} => calls = <<>>
      /\ pc \notin {"wait", "detect"} \/ pc \notin {"serve", "start"}
  BY DEF IInv, TypeOK, EnrolInv
<1>1. /\ counts.fails \in Nat /\ counts'.fails \in Nat /\ counts.fails <= counts'.fails
      /\ Count("fails") => counts'.fails = counts.fails + 1
      /\ counts'.fails = 0 => counts.fails = 0 /\ ~Count("fails")
  <2>1. /\ counts.fails \in Nat /\ counts'.fails \in Nat /\ counts.fails <= counts'.fails
        /\ Count("fails") => counts'.fails = counts.fails + 1
    BY FailsGrow DEF IInv, TypeOK
  <2> QED
    BY <2>1
<1>2. ASSUME NEW c, Calling(c), Done
      PROVE  /\ calls # <<>> /\ Head(calls) = c /\ calls' = Tail(calls) /\ calls' \in Remaining
             /\ c # "calibrate" => ~Calling("capture")'
  BY <1>0, <1>2, RemainingAfter DEF Calling, Done
\* What most steps do: they take no image, and keep the finger from it.
<1>3. ASSUME spoilt' = spoilt, Calling("capture")' => Calling("capture") /\ window' = window
      PROVE  SpoiltIsPaid'
  <2>1. /\ pc # "ended" => spoilt <= counts.fails
        /\ spoilt <= counts.fails + 2
        /\ window = "block" /\ Calling("capture") => spoilt < counts.fails
        /\ pc' # "ended" => pc # "ended"
    BY EndedStays DEF EnrolInv, SpoiltIsPaid
  <2>2. (pc' # "ended" => spoilt <= counts'.fails) /\ spoilt <= counts'.fails + 2
    BY <1>0, <1>1, <2>1
  <2>3. window' = "block" /\ Calling("capture")' => spoilt < counts'.fails
    BY <1>0, <1>1, <1>3, <2>1
  <2> QED
    BY <1>3, <2>2, <2>3 DEF SpoiltIsPaid
<1>4. ASSUME state' = state, lifted' = lifted, finger' = finger,
             finger /\ Holding /\ ~Count("fails") => Holding'
      PROVE  HeldUntilLifted'
  BY <1>1, <1>4 DEF EnrolInv, HeldUntilLifted
<1>5. CASE Touch
  <2>1. UNCHANGED <<state, calls, pc, mode, lifted, window, spoilt>> /\ ~finger
    BY <1>5 DEF Touch, Moves
  <2>2. HeldUntilLifted'
    BY <1>1, <2>1 DEF EnrolInv, HeldUntilLifted
  <2>3. mode' = "IDLE" => irq' # "finger"
    BY <1>0, <1>5 DEF Touch, Moves
  <2> QED
    BY <1>0, <1>3, <2>1, <2>2, <2>3 DEF EnrolInv, Calling
<1>6. CASE Lift
  <2>1. UNCHANGED <<state, calls, pc, mode, window, spoilt>> /\ lifted'
    BY <1>6 DEF Lift, Moves
  <2>2. mode' = "IDLE" => irq' # "finger"
    BY <1>0, <1>6 DEF Lift, Moves
  <2> QED
    BY <1>0, <1>3, <2>1, <2>2 DEF EnrolInv, HeldUntilLifted, Calling
<1>7. CASE SensorReset
  <2>1. /\ UNCHANGED <<state, calls, pc, finger, lifted, window, spoilt>>
        /\ mode' = "IDLE" /\ irq' = "other" /\ resetIrq'
    BY <1>7 DEF SensorReset, ResetSensor
  <2>2. Holding => Holding'
    BY <1>0, <2>1 DEF Holding
  <2> QED
    BY <1>0, <1>3, <1>4, <2>1, <2>2 DEF EnrolInv, Calling
<1>8. CASE Noise
  <2>1. /\ UNCHANGED <<state, calls, pc, mode, resetIrq, thr, area, finger, lifted, window, spoilt>>
        /\ irq' = "other"
    BY <1>8 DEF Noise
  <2>2. Holding => Holding'
    BY <2>1 DEF Holding
  <2> QED
    BY <1>0, <1>3, <1>4, <2>1, <2>2 DEF EnrolInv, Calling
<1>9. CASE Rest
  <2>1. UNCHANGED <<state, calls, pc, mode, irq, resetIrq, thr, area, finger, lifted, window,
                  spoilt>>
    BY <1>9 DEF Rest, sensor
  <2>2. Holding => Holding'
    BY <2>1 DEF Holding
  <2> QED
    BY <1>0, <1>3, <1>4, <2>1, <2>2 DEF EnrolInv, Calling
<1>10. CASE CallFails
  <2>1. PICK c \in {"esd_reset", "reset", "config"} : Calling(c) /\ Done
    BY <1>10 DEF CallFails
  <2>2. calls' \in Remaining /\ ~Calling("capture")'
    BY <1>2, <2>1
  <2>3. spoilt' = spoilt /\ Count("fails")
    BY <1>10 DEF CallFails, others
  <2>4. mode' = "IDLE" => irq' # "finger"
    BY <1>0, <1>10 DEF CallFails, ResetSensor, sensor
  <2>5. HeldUntilLifted'
    BY <1>1, <2>3 DEF HeldUntilLifted
  <2> QED
    BY <1>3, <2>2, <2>3, <2>4, <2>5 DEF EnrolInv
<1>11. CASE EsdReset
  <2>1. Calling("esd_reset") /\ Done /\ UNCHANGED others /\ mode' = "IDLE" /\ irq' = "other"
    BY <1>11 DEF EsdReset, ResetSensor
  <2>2. calls' \in Remaining /\ ~Calling("capture")'
    BY <1>2, <2>1
  <2>3. Holding => Holding'
    BY <1>0, <1>2, <2>1, RemainingAfter DEF Holding
  <2> QED
    BY <1>3, <1>4, <2>1, <2>2, <2>3 DEF EnrolInv, others
<1>12. CASE LowReset
  <2>1. Calling("reset") /\ Done /\ UNCHANGED others
    BY <1>12 DEF LowReset
  <2>2. calls' \in Remaining /\ ~Calling("capture")'
    BY <1>2, <2>1
  <2>3. ~Holding
    BY <1>0, <1>2, <2>1, RemainingCalls, RemainingAfter DEF Holding
  <2>4. mode' = "IDLE" => irq' # "finger"
    BY <1>0, <1>12 DEF LowReset, ResetSensor, sensor
  <2> QED
    BY <1>3, <1>4, <2>1, <2>2, <2>3, <2>4 DEF EnrolInv, others
<1>13. CASE Config
  <2>1. Calling("config") /\ Done /\ UNCHANGED <<others, mode>> /\ irq' = "none"
    BY <1>13 DEF Config
  <2>2. calls' \in Remaining /\ ~Calling("capture")'
    BY <1>2, <2>1
  <2>3. Holding => calls' = TouchDone \/ (calls' = <<>> /\ mode = "IDLE" /\ pc # "detect")
    BY <1>2, <2>1, RemainingCalls, RemainingAfter DEF Holding, Calling
  <2>4. Holding => Holding'
    BY <2>1, <2>3 DEF Holding, others
  <2> QED
    BY <1>3, <1>4, <2>1, <2>2, <2>4 DEF EnrolInv, others
<1>14. CASE CheckUp
  <2>1. Calling("check_up") /\ Done /\ UNCHANGED <<others, mode, irq>>
    BY <1>14 DEF CheckUp
  <2>2. calls' \in Remaining /\ ~Calling("capture")'
    BY <1>2, <2>1
  <2>3. Holding => calls' = Last
    BY <1>2, <2>1, RemainingCalls, RemainingAfter DEF Holding
  <2>4. Holding /\ ~Count("fails") => Holding'
    BY <1>14, <2>3 DEF CheckUp, Holding
  <2> QED
    BY <1>0, <1>3, <1>4, <2>1, <2>2, <2>4 DEF EnrolInv, others
<1>15. CASE SetMode
  <2>1. Done /\ UNCHANGED <<others, resetIrq, thr, area>> /\ (Calling("IDLE") \/ Calling("SLEEP"))
    BY <1>15 DEF SetMode
  <2>2. calls' \in Remaining /\ ~Calling("capture")'
    BY <1>2, <2>1
  <2>3. mode' = "IDLE" => irq' # "finger"
    BY <1>0, <1>15 DEF SetMode, AfterIdle
  <2>4. Holding => calls = Last /\ calls' = <<>> /\ (resetIrq \/ (thr = "up" /\ area = "up"))
    <3> SUFFICES ASSUME Holding
                 PROVE  calls = Last /\ calls' = <<>> /\ (resetIrq \/ (thr = "up" /\ area = "up"))
      OBVIOUS
    <3>1. Head(calls) \in {"IDLE", "SLEEP"} /\ calls # <<>>
      BY <1>2, <2>1
    <3>2. calls = Last
      BY <1>0, <3>1, RemainingAfter DEF Holding
    <3>3. calls' = <<>>
      BY <1>0, <1>2, <2>1, <3>1, <3>2, RemainingAfter
    <3> QED
      BY <1>0, <3>1, <3>2, <3>3, RemainingAfter DEF Holding
  <2>5. calls = Last => mode' = "SLEEP" /\ (irq' = "finger" => finger = (area = "down"))
    <3> SUFFICES ASSUME calls = Last
                 PROVE  mode' = "SLEEP" /\ (irq' = "finger" => finger = (area = "down"))
      OBVIOUS
    <3>1. ~Calling("IDLE")
      BY DEF Calling, Last
    <3>2. AfterIdle # "finger"
      BY <1>0 DEF AfterIdle
    <3> QED
      BY <1>15, <3>1, <3>2 DEF SetMode, Reports
  <2>6. finger /\ Holding => Holding'
    BY <2>1, <2>4, <2>5 DEF Holding
  <2> QED
    BY <1>3, <1>4, <2>1, <2>2, <2>3, <2>6 DEF EnrolInv, others
<1>16. CASE SetModeFails
  <2>1. PICK c \in {"IDLE", "SLEEP"} : Calling(c) /\ Done
    BY <1>16 DEF SetModeFails
  <2>2. calls' \in Remaining /\ ~Calling("capture")'
    BY <1>2, <2>1
  <2>3. spoilt' = spoilt /\ Count("fails")
    BY <1>16 DEF SetModeFails, others
  <2>4. mode' = "IDLE" => irq' # "finger"
    BY <1>0, <1>16 DEF SetModeFails, AfterIdle
  <2>5. HeldUntilLifted'
    BY <1>1, <2>3 DEF HeldUntilLifted
  <2> QED
    BY <1>3, <2>2, <2>3, <2>4, <2>5 DEF EnrolInv
<1>17. CASE TestTime
  <2>1. Calling("time") /\ UNCHANGED <<others, mode, irq>>
    BY <1>17 DEF TestTime, sensor
  <2>2. calls' \in {Used, TouchDone} /\ calls' \in Remaining /\ ~Calling("capture")'
    BY <1>17, RemainingCalls DEF TestTime, Calling
  <2>3. ~Holding
    BY <1>0, <2>1, RemainingAfter, RemainingCalls DEF Calling, Holding
  <2> QED
    BY <1>0, <1>3, <1>4, <2>1, <2>2, <2>3 DEF others, EnrolInv
<1>18. CASE Calibrate
  <2>1. Calling("calibrate") /\ Done /\ UNCHANGED <<others, mode, irq>>
    BY <1>18 DEF Calibrate
  <2>2. calls' \in Remaining
    BY <1>2, <2>1
  <2>3. ~Holding
    BY <1>2, <2>1, RemainingAfter, RemainingCalls DEF Holding
  <2>4. SpoiltIsPaid'
    <3>1. spoilt' = spoilt /\ spoilt <= counts.fails
      BY <2>1 DEF others, EnrolInv, SpoiltIsPaid, Calling
    <3>2. window' # "block" \/ Count("fails")
      BY <1>18 DEF Calibrate
    <3> QED
      BY <1>0, <1>1, <3>1, <3>2 DEF SpoiltIsPaid
  <2> QED
    BY <1>0, <1>4, <2>1, <2>2, <2>3, <2>4 DEF others, EnrolInv
<1>19. CASE UseTouch
  <2>1. /\ Calling("capture") /\ Done /\ UNCHANGED <<mode, irq, finger, counts>>
        /\ state' = "ENROLL" => state = "ENROLL" /\ lifted' = ~finger
    BY <1>19 DEF UseTouch, sensor
  <2>2. calls' = TouchDone /\ calls' \in Remaining /\ ~Calling("capture")'
    BY <1>0, <1>2, <2>1, RemainingAfter
  <2>3. SpoiltIsPaid'
    <3>1. spoilt <= counts.fails /\ (window = "block" => spoilt < counts.fails)
      BY <2>1 DEF EnrolInv, SpoiltIsPaid, Calling
    <3>2. PICK images \in Images : spoilt' = IF window = "block" THEN spoilt + images ELSE spoilt
      BY <1>19 DEF UseTouch
    <3>3. images \in 0 .. 3 /\ (pc' # "ended" => images \in 0 .. 1)
      <4>1. TypeOK
        BY DEF IInv
      <4>2. pc' # "ended" => state # "VERIFY"
        BY <1>19 DEF UseTouch
      <4> QED
        BY <3>2, <4>1, <4>2, ImagesAre
    <3>4. spoilt' <= counts.fails + 2 /\ (pc' # "ended" => spoilt' <= counts.fails)
      BY <1>0, <1>1, <3>1, <3>2, <3>3
    <3> QED
      BY <2>1, <2>2, <3>4 DEF SpoiltIsPaid
  <2>4. HeldUntilLifted'
    BY <2>1, <2>2 DEF HeldUntilLifted, Holding
  <2> QED
    BY <1>0, <2>1, <2>2, <2>3, <2>4 DEF EnrolInv
<1>20. CASE VerifyStart
  <2>1. calls' = Start /\ state' # "ENROLL" /\ UNCHANGED <<mode, irq, spoilt>>
    BY <1>20 DEF VerifyStart, sensor
  <2>2. calls' \in Remaining /\ ~Calling("capture")'
    BY <2>1, RemainingCalls, Starts DEF Calling
  <2> QED
    BY <1>0, <1>3, <2>1, <2>2 DEF EnrolInv, HeldUntilLifted
<1>21. CASE EnrollStart
  <2>1. calls' = Start /\ (state' # "ENROLL" \/ lifted') /\ UNCHANGED <<mode, irq, spoilt>>
    BY <1>21 DEF EnrollStart, AtTop, sensor
  <2>2. calls' \in Remaining /\ ~Calling("capture")'
    BY <2>1, RemainingCalls, Starts DEF Calling
  <2> QED
    BY <1>0, <1>3, <2>1, <2>2 DEF EnrolInv, HeldUntilLifted
<1>22. CASE Listen
  <2>1. /\ UNCHANGED <<state, calls, mode, irq, resetIrq, thr, area, finger, lifted, window,
                       spoilt>>
        /\ pc' = "wait"
    BY <1>22 DEF Listen, sensor
  <2>2. Holding => Holding'
    BY <2>1 DEF Holding
  <2> QED
    BY <1>0, <1>3, <1>4, <2>1, <2>2 DEF EnrolInv, Calling
<1>23. CASE Wait
  <2>1. /\ UNCHANGED <<state, calls, mode, irq, resetIrq, thr, area, finger, lifted, window,
                       spoilt>>
        /\ pc' = "detect" /\ mode = "SLEEP"
    BY <1>23 DEF Wait, Heard, sensor
  <2>2. Holding => Holding'
    BY <2>1 DEF Holding
  <2> QED
    BY <1>0, <1>3, <1>4, <2>1, <2>2 DEF EnrolInv, Calling
<1>24. CASE Detect
  <2>1. /\ calls' \in {ReadError, ResetIrq, InvalidSem, FingerLeave, Touched}
        /\ UNCHANGED <<state, mode, irq, finger, lifted, window, spoilt>>
    BY <1>24 DEF Detect, sensor
  <2>2. calls' \in Remaining /\ ~Calling("capture")'
    BY <2>1, RemainingCalls, Starts DEF Calling
  <2>3. calls = <<>> /\ pc = "detect"
    BY <1>0, <1>24 DEF Detect
  <2>4. Holding => resetIrq \/ (irq # "finger")
    BY <2>3, RemainingCalls DEF Holding, Last, Configure, Reconfigure
  <2>5. Holding /\ ~Count("fails") => calls' \in {ResetIrq, InvalidSem}
    BY <1>24, <2>4 DEF Detect, Asleep
  <2>6. Holding /\ ~Count("fails") => Holding'
    BY <2>5 DEF Holding
  <2> QED
    BY <1>0, <1>3, <1>4, <2>1, <2>2, <2>6 DEF EnrolInv
<1>25. CASE UNCHANGED vars
  <2>1. UNCHANGED <<state, calls, pc, mode, irq, resetIrq, thr, area, finger, lifted, window,
                  spoilt>>
    BY <1>25 DEF vars, sensor
  <2>2. Holding => Holding'
    BY <2>1 DEF Holding
  <2> QED
    BY <1>0, <1>3, <1>4, <2>1, <2>2 DEF EnrolInv, Calling
<1> QED
  BY <1>5, <1>6, <1>7, <1>8, <1>9, <1>10, <1>11, <1>12, <1>13, <1>14, <1>15, <1>16, <1>17, <1>18,
     <1>19, <1>20, <1>21, <1>22, <1>23, <1>24, <1>25 DEF Next, Listener

\* EnrolInv holds throughout.
LEMMA SpecEnrolInv == Spec => []EnrolInv
BY InitEnrolInv, NextEnrolInv, SpecIInv, PTL DEF Spec

\* Unless a write to the sensor fails, an enrolment of any length takes one
\* image of a touch: no noise, no reset and no finger that comes or goes at
\* any call has the sensor report a finger that has not left.
THEOREM OneImage == Spec => []OneImagePerTouch
<1>1. EnrolInv => OneImagePerTouch
  <2> SUFFICES ASSUME EnrolInv, counts.fails = 0, state = "ENROLL", Calling("capture"), ~lifted
               PROVE  FALSE
    BY DEF OneImagePerTouch
  <2>1. Holding /\ calls \in Remaining /\ calls # <<>> /\ Head(calls) = "capture"
    BY DEF EnrolInv, HeldUntilLifted, Calling
  <2> QED
    BY <2>1, RemainingAfter, RemainingCalls DEF Holding
<1> QED
  BY <1>1, SpecEnrolInv, PTL

\* However many calibrations fail and however long an enrolment is, each spoils
\* images of one touch only: one of an enrolment, up to three of a verification.
THEOREM SpoiltOnceEach == Spec => []SpoiltOnce
<1>1. IInv /\ EnrolInv => SpoiltOnce
  <2> SUFFICES ASSUME IInv, EnrolInv PROVE SpoiltOnce
    OBVIOUS
  <2>1. spoilt \in Nat /\ counts.fails \in Nat
    BY CountNames DEF IInv, TypeOK, InBounds
  <2> QED
    BY <2>1 DEF EnrolInv, SpoiltIsPaid, SpoiltOnce
<1> QED
  BY <1>1, SpecIInv, SpecEnrolInv, PTL
=============================================================================
