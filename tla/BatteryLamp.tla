----------------------------- MODULE BatteryLamp ----------------------------
(***************************************************************************)
(* The battery lamp of syslcd.  The battery thread asks the panel for the  *)
(* battery's status every three seconds and, without waiting for the       *)
(* answer, drives LED 1 from the global bat_status, which the event thread *)
(* writes when an answer comes, unless a button's handler holds it up.     *)
(*                                                                         *)
(* The three seconds are taken to be enough for an event thread that is    *)
(* not held up to handle what is on the line; a held one handles it        *)
(* whenever it is released.  How frames are lost is UartThread's matter;   *)
(* here any one of them may be.                                            *)
(***************************************************************************)
EXTENDS Integers, SequencesExt

CONSTANTS
    Levels,         \* the battery statuses the panel may report
    MaxMishaps,     \* bound: frames lost and buttons pressed
    MaxChanges,     \* bound: changes of the battery's status
    MaxLine         \* frames the serial driver has room for

Byte == 0 .. 255

ASSUME BatteryLampAssumption ==
    /\ Levels \subseteq Byte
    /\ {MaxMishaps, MaxChanges} \subseteq Nat /\ MaxLine \in Nat \ {0}

VARIABLES
    level,      \* the battery's status
    line,       \* the panel's frames on their way to the event thread
    uart,       \* the event thread: "select", or "held" in a button's handler
    bat_status, \* the global
    battery,    \* the battery thread: "ask", "compare" or "sleep"
    led,        \* LED 1, yellow
    mishaps,    \* losses and presses so far
    changes,    \* changes of the status so far
    before, now, \* history: the status when the thread asked, the last two times
    blame       \* history: what went wrong in the last two rounds, the latest first

vars == <<level, line, uart, bat_status, battery, led, mishaps, changes, before, now, blame>>

\* What the steps of one side leave alone.
thread  == <<battery, led, before, now>>
bounds  == <<mishaps, changes>>

BatteryFrame == [type |-> "battery", status |-> level]
ButtonFrame  == [type |-> "button"]

\* What compare_battery_status does to the lamp.  BAT_STATUS_CHARGING (128) it
\* names too, but leaves the lamp as it is, and so does a status it does not
\* name.
BAT_STATUS_CHARGING_75 == 136
BAT_STATUS_CHARGING_50 == 132
BAT_STATUS_CHARGING_25 == 130
BAT_STATUS_CHARGING_0  == 131
Charging    == {BAT_STATUS_CHARGING_75, BAT_STATUS_CHARGING_50, BAT_STATUS_CHARGING_25,
                BAT_STATUS_CHARGING_0}
Discharging == {15, 7, 3, 1, 0}

Lamp(status, lamp) ==
    CASE status \in Charging    -> "blink"
      [] status \in Discharging -> "off"
      [] OTHER                  -> lamp

TypeOK ==
    /\ level \in Levels
    /\ Len(line) <= MaxLine
    /\ \A k \in 1 .. Len(line) : line[k].type \in {"battery", "button"}
    /\ uart \in {"select", "held"}
    /\ {bat_status, before, now} \subseteq Byte
    /\ battery \in {"ask", "compare", "sleep"}
    /\ led \in {"reset", "off", "blink"}
    /\ mishaps \in 0 .. MaxMishaps
    /\ changes \in 0 .. MaxChanges
    /\ blame \in BOOLEAN \X BOOLEAN

\* The reset main sends to the panel turns the lamp off; the global is zero,
\* which is an empty battery.
Init ==
    /\ level \in Levels
    /\ line = <<>>
    /\ uart = "select"
    /\ bat_status = 0
    /\ battery = "ask"
    /\ led = "reset"
    /\ mishaps = 0
    /\ changes = 0
    /\ before = 0 /\ now = 0
    /\ blame = <<FALSE, FALSE>>

-----------------------------------------------------------------------------
\* The world: the battery's status changes, a button is pressed, a frame is
\* lost.
LevelChanges ==
    /\ changes < MaxChanges
    /\ level' \in Levels \ {level}
    /\ changes' = changes + 1
    /\ UNCHANGED <<line, uart, bat_status, thread, mishaps, blame>>

Press ==
    /\ mishaps < MaxMishaps
    /\ Len(line) < MaxLine
    /\ line' = Append(line, ButtonFrame)
    /\ mishaps' = mishaps + 1
    /\ UNCHANGED <<level, uart, bat_status, thread, changes, blame>>

Lose ==
    /\ mishaps < MaxMishaps
    /\ \E k \in 1 .. Len(line) :
         /\ line' = RemoveAt(line, k)
         /\ blame' = IF line[k].type = "battery" THEN <<TRUE, blame[2]>> ELSE blame
    /\ mishaps' = mishaps + 1
    /\ UNCHANGED <<level, uart, bat_status, thread, changes>>

-----------------------------------------------------------------------------
\* The event thread: the oldest frame goes to handle_proto_data.

\* A slip: the case declares a bat_status of its own, as the case for an
\* acknowledgement does.
TakeShadowed ==
    /\ uart = "select" /\ line # <<>>
    /\ Head(line).type = "battery"
    /\ line' = Tail(line)
    /\ UNCHANGED <<level, uart, bat_status, thread, bounds, blame>>

TakeBattery ==
    /\ uart = "select" /\ line # <<>>
    /\ Head(line).type = "battery"
    /\ bat_status' = Head(line).status
    /\ line' = Tail(line)
    /\ UNCHANGED <<level, uart, thread, bounds, blame>>

TakeButton ==
    /\ uart = "select" /\ line # <<>>
    /\ Head(line).type = "button"
    /\ uart' = "held"
    /\ line' = Tail(line)
    /\ UNCHANGED <<level, bat_status, thread, bounds, blame>>

\* The handler of the button returns, if it does.
Release ==
    /\ uart = "held"
    /\ uart' = "select"
    /\ UNCHANGED <<level, line, bat_status, thread, bounds, blame>>

-----------------------------------------------------------------------------
\* The battery thread.
\* A slip: one frame too many.
RoomForOne == Len(line) <= MaxLine

Room    == Len(line) < MaxLine
Pending == \E k \in 1 .. Len(line) : line[k].type = "battery"

\* mlx_proto_get_battery_status; the panel answers, when the driver has room.
AskBattery ==
    /\ battery = "ask"
    /\ line' = IF Room THEN Append(line, BatteryFrame) ELSE line
    /\ before' = now /\ now' = level
    /\ blame' = <<~Room, blame[1]>>
    /\ battery' = "compare"
    /\ UNCHANGED <<level, uart, bat_status, led, bounds>>

\* A slip: a lamp driven from what the call returned, which is set by nobody.
CompareReturned ==
    /\ battery = "compare"
    /\ led' = Lamp(0, led)
    /\ battery' = "sleep"
    /\ UNCHANGED <<level, line, uart, bat_status, before, now, bounds, blame>>

\* compare_battery_status(bat_status).
CompareStatus ==
    /\ battery = "compare"
    /\ led' = Lamp(bat_status, led)
    /\ battery' = "sleep"
    /\ UNCHANGED <<level, line, uart, bat_status, before, now, bounds, blame>>

\* sleep(3) is over.
Wake ==
    /\ battery = "sleep"
    /\ Pending => uart = "held"
    /\ blame' = IF Pending THEN <<TRUE, blame[2]>> ELSE blame
    /\ battery' = "ask"
    /\ UNCHANGED <<level, line, uart, bat_status, led, before, now, bounds>>

-----------------------------------------------------------------------------
Battery     == AskBattery \/ CompareStatus \/ Wake
EventThread == TakeBattery \/ TakeButton

Next ==
    \/ LevelChanges \/ Press \/ Lose
    \/ EventThread \/ Release
    \/ Battery

Spec == Init /\ [][Next]_vars

\* Both threads are scheduled.  A button's handler need not return: it may run
\* MD_Download, which loops while there is no network.
FairSpec == Spec /\ WF_vars(Battery) /\ WF_vars(EventThread)

-----------------------------------------------------------------------------
\* After a round whose reply was handled in time, the lamp the next round
\* leaves shows the status the panel had when it was asked in one of the two:
\* it lags at most one round, and a status that is named is never skipped.
LampLagsOne ==
    battery = "sleep" /\ ~blame[2] => led \in {Lamp(before, led), Lamp(now, led)}

\* Once every reply is handled in the end, the lamp comes to show the
\* battery's status, unless that is one that leaves it as it was (128, and
\* what is not named): then it shows a status that is past.
LampFollows ==
    []<>(uart # "held") => <>[](level \in Charging \cup Discharging => led = Lamp(level, led))

\* What the comments behind the values of BATTERY_STAT (syslcd.c:83-86) say a
\* charging battery sends, makes the lamp blink.
CommentedCharging == {136, 132, 130, 129}
ChargingBlinks ==
    [][battery = "compare" /\ battery' = "sleep" /\ bat_status \in CommentedCharging
         => led' = "blink"]_vars
=============================================================================
