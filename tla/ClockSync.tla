------------------------------ MODULE ClockSync -----------------------------
(***************************************************************************)
(* The clock of the device.  synctime, the program, sets the panel's clock *)
(* from the server; then syslcd's main thread asks the panel for its time  *)
(* again and again and, two seconds after each request, sets the system's  *)
(* date from the global synctime, which the event thread writes field by   *)
(* field when the answer comes, unless a button's handler holds it up.     *)
(* Nobody locks synctime and nobody waits for an answer.                   *)
(*                                                                         *)
(* Time is a sequence of calendar instants.  The two seconds main sleeps   *)
(* are taken to be enough for an event thread that is not held up to       *)
(* handle what is on the line; a held one handles it whenever it is        *)
(* released.  How frames are lost is UartThread's matter; here any one of  *)
(* them may be.                                                            *)
(*                                                                         *)
(* Nobody between the server's answer and sprintf looks whether a field of *)
(* a time is in its range: what a panel whose clock was set from something *)
(* else shows is any time its bytes can hold.                              *)
(***************************************************************************)
EXTENDS Integers, SequencesExt

CONSTANTS
    Instants,       \* the times there are, in order
    BootDate,       \* what the system clock shows before it is set
    Strays,         \* what a panel may show that was set to no time of these
    ReadOrders,     \* the orders a build may evaluate sprintf's arguments in
    MaxMishaps,     \* bound: frames lost and buttons pressed
    MaxLine         \* frames the serial driver has room for

Fields == {"year", "mon", "mday", "hour", "min", "sec"}

\* The order handle_proto_data writes the fields of synctime in.
WriteOrder == <<"year", "mon", "mday", "hour", "min", "sec">>

\* The times a server and a panel's clock may show.
Calendar == {t \in [Fields -> Nat] :
    /\ 1970 <= t.year /\ t.year <= 9999
    /\ 1 <= t.mon /\ t.mon <= 12 /\ 1 <= t.mday /\ t.mday <= 31
    /\ t.hour <= 23 /\ t.min <= 59 /\ t.sec <= 60}

\* What the seven bytes of an MLX_TIME can hold: mlx_comm_test -s puts what
\* atoi makes of each part there, unchecked.
PanelTimes == {t \in [Fields -> Nat] :
    t.year < 65536 /\ \A f \in Fields \ {"year"} : t[f] < 256}

\* Four digits for the year and two for each other field, in range or not.
Narrow(t) == t.year <= 9999 /\ \A f \in Fields \ {"year"} : t[f] <= 99

ASSUME ClockSyncAssumption ==
    /\ Instants \in Seq(Calendar) /\ Len(Instants) >= 2
    /\ BootDate \in [Fields -> Nat]
    /\ Strays \subseteq PanelTimes
    /\ ReadOrders \subseteq [1 .. 6 -> Fields]
    /\ \A each \in ReadOrders : Range(each) = Fields
    /\ MaxMishaps \in Nat /\ MaxLine \in Nat \ {0}

VARIABLES
    now,        \* the true time, as the server has it: a place in Instants
    behind,     \* how far the panel's clock is behind
    astray,     \* what the panel answers instead, if not empty
    line,       \* the panel's frames on their way to the event thread
    uart,       \* the event thread: "select", "time" (in the time reply's
                \* case of the handler), "held" (in a button's) or "dead"
    rtc_time,   \* the time reply it handles
    writes,     \* how many fields of synctime it has written of it
    synctime,
    main,       \* "synctime", "ask", "sleep", "format", "rest" or "dead"
    order,      \* the order this build reads the fields of synctime in
    args,       \* the fields of synctime main has read for sprintf
    date,       \* what the system clock was last set to
    mishaps,    \* losses and presses so far
    asked,      \* history: the true time when main last asked
    blame       \* history: what went wrong in main's present round

vars == <<now, behind, astray, line, uart, rtc_time, writes, synctime, main, order, args, date,
          mishaps, asked, blame>>

\* What a thread leaves alone.
world   == <<now, behind, astray>>
events  == <<uart, rtc_time, writes>>
clock   == <<main, order, args, date, asked>>

\* uint16_t with its bytes exchanged: the panel sends the year's high byte
\* first.
Swap16(n) == (n % 256) * 256 + n \div 256

\* The MLX_TIME of an instant as it comes over the line, and the struct tm
\* handle_proto_data makes of it.
OnTheLine(t) == [t EXCEPT !.year = Swap16(t.year)]

\* Slips: the year's bytes left as they came; the month counted from 1.
StoredUnswapped(t) == [t EXCEPT !.year = t.year - 1900, !.mon = t.mon - 1]
StoredFromOne(t)   == [t EXCEPT !.year = Swap16(t.year) - 1900]

Stored(t) == [t EXCEPT !.year = Swap16(t.year) - 1900, !.mon = t.mon - 1]

\* What sprintf makes of a struct tm.
Shown(tm) == [f \in Fields |-> CASE f = "year" -> tm.year + 1900
                                 [] f = "mon"  -> tm.mon + 1
                                 [] OTHER      -> tm[f]]

ZeroTime == [f \in Fields |-> 0]

PanelClock == Instants[now - behind]

\* The times the panel may answer with.
Answers == IF astray = {} THEN {PanelClock} ELSE astray

TimeFrame(t) == [type |-> "time", rtc |-> OnTheLine(t)]
ButtonFrame  == [type |-> "button"]

TypeOK ==
    /\ now \in 1 .. Len(Instants) /\ behind \in 0 .. 1 /\ behind < now
    /\ astray \subseteq Strays
    /\ Len(line) <= MaxLine
    /\ uart \in {"select", "time", "held", "dead"}
    /\ writes \in 0 .. Len(WriteOrder)
    /\ DOMAIN synctime = Fields
    /\ main \in {"synctime", "ask", "sleep", "format", "rest", "dead"}
    /\ order \in ReadOrders
    /\ DOMAIN args \subseteq Fields
    /\ DOMAIN date = Fields
    /\ mishaps \in 0 .. MaxMishaps
    /\ asked \in 1 .. Len(Instants)
    /\ blame \subseteq {"unsynced", "lost", "held"}

NoArgs == [f \in {} |-> 0]

\* The panel's clock may be wrong, and power-on leaves it running.
Init ==
    /\ now = 2
    /\ behind \in 0 .. 1
    /\ astray = {}
    /\ line = <<>>
    /\ uart = "select"
    /\ rtc_time = ZeroTime
    /\ writes = Len(WriteOrder)
    /\ synctime = ZeroTime
    /\ main = "synctime"
    /\ order \in ReadOrders
    /\ args = NoArgs
    /\ date = BootDate
    /\ mishaps = 0
    /\ asked = 2
    /\ blame = {}

-----------------------------------------------------------------------------
\* The world: time passes, a button is pressed, a frame is lost.
Tick ==
    /\ now < Len(Instants)
    /\ now' = now + 1
    /\ UNCHANGED <<behind, astray, line, events, synctime, clock, mishaps, blame>>

Press ==
    /\ mishaps < MaxMishaps
    /\ Len(line) < MaxLine
    /\ line' = Append(line, ButtonFrame)
    /\ mishaps' = mishaps + 1
    /\ UNCHANGED <<world, events, synctime, clock, blame>>

Lose ==
    /\ mishaps < MaxMishaps
    /\ \E k \in 1 .. Len(line) :
         /\ line' = RemoveAt(line, k)
         /\ blame' = IF line[k].type = "time" THEN blame \cup {"lost"} ELSE blame
    /\ mishaps' = mishaps + 1
    /\ UNCHANGED <<world, events, synctime, clock>>

-----------------------------------------------------------------------------
\* The event thread: the oldest frame goes to handle_proto_data.
TakeTime ==
    /\ uart = "select" /\ line # <<>>
    /\ Head(line).type = "time"
    /\ uart' = "time"
    /\ rtc_time' = Head(line).rtc
    /\ writes' = 0
    /\ line' = Tail(line)
    /\ UNCHANGED <<world, synctime, clock, mishaps, blame>>

TakeButton ==
    /\ uart = "select" /\ line # <<>>
    /\ Head(line).type = "button"
    /\ uart' = "held"
    /\ line' = Tail(line)
    /\ UNCHANGED <<world, rtc_time, writes, synctime, clock, mishaps, blame>>

WriteField ==
    /\ uart = "time"
    /\ LET f == WriteOrder[writes + 1] IN synctime' = [synctime EXCEPT ![f] = Stored(rtc_time)[f]]
    /\ writes' = writes + 1
    /\ uart' = IF writes' = Len(WriteOrder) THEN "select" ELSE "time"
    /\ UNCHANGED <<world, line, rtc_time, clock, mishaps, blame>>

Release ==
    /\ uart = "held"
    /\ uart' = "select"
    /\ UNCHANGED <<world, line, rtc_time, writes, synctime, clock, mishaps, blame>>

-----------------------------------------------------------------------------
\* What the panel answers, when the driver has room for it.
RoomForOne      == Len(line) <= MaxLine     \* a slip
Room            == Len(line) < MaxLine
Arrives(frame)  == IF Room THEN Append(line, frame) ELSE line

TimePending     == uart = "time" \/ \E k \in 1 .. Len(line) : line[k].type = "time"

\* mlx_comm_test -s: the time is sent to the panel when strtok finds all of
\* its parts, whatever they are, and nothing is sent otherwise.
SetsTime(parts) == parts = 6

\* synctime: the loop that reads curl's answer closes the pipe inside, and
\* reads on from it.  What is in buff then is the answer's first 19 bytes,
\* which are the whole of a time, or six parts of no time when the server sent
\* something else; or less of it, when the server or the second read gave
\* less; or the program is dead.  wanconnect goes on in any case.
RunSynctime ==
    /\ main = "synctime"
    /\ \E parts \in 0 .. 6 :
         \/ SetsTime(parts) /\ behind' = 0 /\ UNCHANGED <<astray, blame>>
         \/ /\ SetsTime(parts)
            /\ astray' \in SUBSET Strays \ {{}}
            /\ blame' = blame \cup {"unsynced"} /\ UNCHANGED behind
         \/ ~SetsTime(parts) /\ blame' = blame \cup {"unsynced"} /\ UNCHANGED <<behind, astray>>
    /\ main' = "ask"
    /\ UNCHANGED <<now, line, events, synctime, order, args, date, asked, mishaps>>

\* main: mlx_proto_get_sys_time.
AskTime ==
    /\ main = "ask"
    /\ \E t \in Answers : line' = Arrives(TimeFrame(t))
    /\ asked' = now
    /\ blame' = (blame \cap {"unsynced"}) \cup (IF Room THEN {} ELSE {"lost"})
    /\ main' = "sleep"
    /\ UNCHANGED <<world, events, synctime, order, args, date, mishaps>>

\* A slip: main does not sleep.
WakeAtOnce ==
    /\ main = "sleep"
    /\ main' = "format"
    /\ UNCHANGED <<world, line, events, synctime, order, args, date, asked, mishaps, blame>>

\* sleep(2) is over.
Wake ==
    /\ main = "sleep"
    /\ TimePending => uart = "held"
    /\ blame' = IF TimePending THEN blame \cup {"held"} ELSE blame
    /\ main' = "format"
    /\ UNCHANGED <<world, line, events, synctime, order, args, date, asked, mishaps>>

\* The arguments of sprintf, one after the other.
ReadField ==
    /\ main = "format" /\ DOMAIN args # Fields
    /\ LET f == order[Cardinality(DOMAIN args) + 1] IN
         args' = [g \in DOMAIN args \cup {f} |-> IF g = f THEN synctime[f] ELSE args[g]]
    /\ UNCHANGED <<world, line, events, synctime, main, order, date, asked, mishaps, blame>>

\* The bytes of "date -s '...'" with its five separators, quotes and the NUL.
Digits(n) == IF n < 0 THEN 5 ELSE IF n < 10 THEN 1 ELSE IF n < 100 THEN 2
             ELSE IF n < 1000 THEN 3 ELSE IF n < 10000 THEN 4 ELSE 5

CommandLength(shown) ==
    9 + 5 + 2 + Digits(shown.year) + Digits(shown.mon) + Digits(shown.mday)
              + Digits(shown.hour) + Digits(shown.min) + Digits(shown.sec)

\* The times date takes: it refuses what lies before 1970, and may refuse
\* what is no day, hour or minute at all.
Takes(shown) == IF shown.year < 1970 THEN {FALSE}
                ELSE IF shown \in Range(Instants) THEN {TRUE} ELSE BOOLEAN

\* sprintf into time_s and system(time_s).
SetDate ==
    /\ main = "format" /\ DOMAIN args = Fields
    /\ LET shown == Shown(args) IN
         \E takes \in Takes(shown) : date' = IF takes THEN shown ELSE date
    /\ args' = NoArgs
    /\ main' = "rest"
    /\ UNCHANGED <<world, line, events, synctime, order, asked, mishaps, blame>>

\* The command is longer than the 30 bytes of time_s: sprintf writes over
\* main's locals, and the program may go on, main never returns, or die.
Overruns ==
    /\ main = "format" /\ DOMAIN args = Fields
    /\ CommandLength(Shown(args)) > 30

Die ==
    /\ Overruns
    /\ main' = "dead" /\ uart' = "dead"
    /\ args' = NoArgs
    /\ UNCHANGED <<world, line, rtc_time, writes, synctime, order, date, asked, mishaps, blame>>

\* A slip: the request stands before the loop.
RestThenSleep ==
    /\ main = "rest"
    /\ main' = "sleep"
    /\ UNCHANGED <<world, line, events, synctime, order, args, date, asked, mishaps, blame>>

\* The programs of the boot, once, and from then on sleep(10).
Rest ==
    /\ main = "rest"
    /\ main' = "ask"
    /\ UNCHANGED <<world, line, events, synctime, order, args, date, asked, mishaps, blame>>

-----------------------------------------------------------------------------
Round       == AskTime \/ Wake \/ ReadField \/ SetDate
Main        == RunSynctime \/ Round \/ Rest
EventThread == TakeTime \/ TakeButton \/ WriteField

Next ==
    \/ Tick \/ Press \/ Lose
    \/ EventThread \/ Release
    \/ Main \/ Die

Spec == Init /\ [][Next]_vars

\* Every thread is scheduled.  The programs a thread runs need not return:
\* wanconnect, and MD_Download in main or in a button's handler, loop while
\* there is no network, and mlx_fingerprint_test waits for a finger.
FairSpec == Spec /\ WF_vars(Round) /\ WF_vars(EventThread)

ProgramsReturn == []<>(uart # "held") /\ []<>(main \notin {"synctime", "rest"})

-----------------------------------------------------------------------------
\* time_s has 30 bytes and sprintf does not look: the longest date there is
\* fits with its NUL and nothing to spare, also when main reads synctime while
\* it is written, and so does everything whose fields have no more digits than
\* a date's.  Only a panel that shows more overruns it.
CommandFits == main = "dead" \/ Overruns => \E t \in astray : ~Narrow(t)

\* After a round in which no time reply was lost and the event thread was not
\* held up past main's two seconds, on a panel that synctime has set, the date
\* is the true time of the request, whole.
DateTrue == main = "rest" /\ blame = {} => date = Instants[asked]

\* Only an event thread held up past main's sleep lets a date mix two times.
\* A lost reply or a panel that was not set makes it lag, and a main that never
\* had a reply sets nothing: date refuses the year 1900.  A panel astray is not
\* spoken of: what date refuses of it leaves an earlier mixture.
DateWhole ==
    main = "rest" /\ "held" \notin blame /\ astray = {} =>
        date = BootDate \/ \E k \in 1 .. now : date = Instants[k]

\* When the programs that are run return, the date comes to be the panel's
\* time, whatever was lost, mixed or late before, on a panel that shows times.
DateFollows == ProgramsReturn => <>[](astray # {} \/ date = PanelClock)
=============================================================================
