-------------------------- MODULE ClockSync_proofs --------------------------
(***************************************************************************)
(* Theorems about ClockSync, for every course of time, every order a build *)
(* reads the fields in, every room on the line and every number of losses  *)
(* and presses.                                                            *)
(***************************************************************************)
EXTENDS ClockSync, SequenceTheorems, FiniteSetTheorems, TLAPS

\* What becomes of a time in synctime.
Kept(t) == Stored(OnTheLine(t))

Past == 1 .. now

\* The times the panel may have answered with by now, and those it may ever.
Told     == {Instants[k] : k \in Past} \cup astray
Possible == {Instants[k] : k \in 1 .. Len(Instants)} \cup astray

\* The frames there may be by now.
LineFrame == [type : {"time"}, rtc : {OnTheLine(t) : t \in Told}] \cup [type : {"button"}]

IsTime(k) == k \in 1 .. Len(line) /\ line[k].type = "time"

\* What a field of synctime may hold, whatever was mixed.
FieldValues(f) == {0} \cup {Kept(t)[f] : t \in Possible}

-----------------------------------------------------------------------------
\* The parts of the inductive invariant.

\* Every value is one of an instant that is past, and main holds arguments
\* only while it formats.
Typed ==
    /\ TypeOK
    /\ line \in Seq(LineFrame)
    /\ uart = "time" => rtc_time \in {OnTheLine(t) : t \in Told}
    /\ uart = "dead" => main = "dead"
    /\ main = "synctime" => astray = {}
    /\ synctime \in [Fields -> Int]
    /\ \A f \in Fields : synctime[f] \in FieldValues(f)
    /\ args \in [DOMAIN args -> Int]
    /\ \A f \in DOMAIN args : args[f] \in FieldValues(f)
    /\ main # "format" => args = NoArgs
    /\ asked \in Past

\* What the event thread has written it has written in order, and what it has
\* written to the end is whole.
WritesInOrder ==
    /\ uart = "time" =>
         /\ writes < Len(WriteOrder)
         /\ \A i \in 1 .. writes :
              synctime[WriteOrder[i]] = Stored(rtc_time)[WriteOrder[i]]
    /\ uart \in {"select", "held"} =>
         synctime = ZeroTime \/ \E t \in Told : synctime = Kept(t)

\* Before the first reply nothing is set.
NeverSet ==
    synctime["year"] = 0 /\ astray = {} =>
        /\ date = BootDate
        /\ "year" \in DOMAIN args => args["year"] = 0

\* While the event thread is not late, nothing moves under main's eyes.
ReadsStill ==
    main = "format" /\ "held" \notin blame =>
        ~TimePending /\ \A f \in DOMAIN args : args[f] = synctime[f]

\* The reply to main's request is the last on the line, or the one that is
\* being handled, or the one synctime holds.
Punctual == main # "synctime" /\ "unsynced" \notin blame

LatestReply ==
    Punctual =>
        /\ behind = 0 /\ astray = {}
        /\ main \in {"sleep", "format"} /\ "lost" \notin blame =>
             /\ \A k \in 1 .. Len(line) :
                  IsTime(k) /\ (\A j \in (k + 1) .. Len(line) : ~IsTime(j))
                    => line[k].rtc = OnTheLine(Instants[asked])
             /\ uart = "time" /\ (\A k \in 1 .. Len(line) : ~IsTime(k)) => rtc_time = OnTheLine(Instants[asked])
             /\ ~TimePending => synctime = Kept(Instants[asked])

\* Only a time with too many digits ends the program.
DiesOfDigits == main = "dead" => \E t \in astray : ~Narrow(t)

IInv ==
    /\ Typed
    /\ WritesInOrder
    /\ NeverSet
    /\ ReadsStill
    /\ LatestReply
    /\ DateWhole
    /\ DateTrue

-----------------------------------------------------------------------------
\* A frame lost from the line moves those behind it forward.
LEMMA RemoveAtProperties ==
    ASSUME NEW S, NEW s \in Seq(S), NEW k \in 1 .. Len(s)
    PROVE  /\ RemoveAt(s, k) \in Seq(S)
           /\ Len(RemoveAt(s, k)) = Len(s) - 1
           /\ \A i \in 1 .. Len(s) - 1 :
                RemoveAt(s, k)[i] = IF i < k THEN s[i] ELSE s[i + 1]
<1> DEFINE a == SubSeq(s, 1, k - 1)
           b == SubSeq(s, k + 1, Len(s))
<1>1. Len(s) \in Nat /\ \A i \in 1 .. Len(s) : s[i] \in S
  BY LenProperties, ElementOfSeq
<1>2. /\ a \in Seq(S) /\ Len(a) = k - 1
      /\ \A i \in 1 .. k - 1 : a[i] = s[i]
  BY <1>1, SubSeqProperties
<1>3. /\ b \in Seq(S) /\ Len(b) = Len(s) - k
      /\ \A i \in 1 .. Len(s) - k : b[i] = s[k + i]
  BY <1>1, SubSeqProperties
<1> HIDE DEF a, b
<1>4. /\ a \o b \in Seq(S) /\ Len(a \o b) = Len(s) - 1
      /\ \A i \in 1 .. Len(s) - 1 : (a \o b)[i] = IF i < k THEN a[i] ELSE b[i - (k - 1)]
  <2>1. Len(a) + Len(b) = Len(s) - 1 /\ Len(a) = k - 1
    BY <1>1, <1>2, <1>3
  <2>2. /\ a \o b \in Seq(S) /\ Len(a \o b) = Len(a) + Len(b)
        /\ \A i \in 1 .. Len(a) + Len(b) :
             (a \o b)[i] = IF i <= Len(a) THEN a[i] ELSE b[i - Len(a)]
    BY <1>2, <1>3, ConcatProperties
  <2>3. \A i \in 1 .. Len(s) - 1 : i <= k - 1 <=> i < k
    BY <1>1
  <2> QED
    BY <2>1, <2>2, <2>3
<1>5. ASSUME NEW i \in 1 .. Len(s) - 1
      PROVE  (a \o b)[i] = IF i < k THEN s[i] ELSE s[i + 1]
  <2>1. CASE i < k
    BY <1>1, <1>2, <1>4, <2>1
  <2>2. CASE i >= k
    <3>1. i - (k - 1) \in 1 .. Len(s) - k /\ k + (i - (k - 1)) = i + 1
      BY <1>1, <2>2
    <3> QED
      BY <1>1, <1>3, <1>4, <2>2, <3>1
  <2>3. i < k \/ i >= k
    BY <1>1
  <2> QED
    BY <2>1, <2>2, <2>3
<1> QED
  BY <1>4, <1>5 DEF RemoveAt, a, b

\* The year's bytes exchanged twice are the year.
LEMMA SwapTwice ==
    ASSUME NEW y \in Nat, y < 65536
    PROVE  Swap16(Swap16(y)) = y
<1>1. PICK q \in 0 .. 255, r \in 0 .. 255 : y = 256 * q + r
  <2>1. y \div 256 \in 0 .. 255 /\ (y % 256) \in 0 .. 255 /\ y = 256 * (y \div 256) + (y % 256)
    OBVIOUS
  <2> WITNESS y \div 256 \in 0 .. 255, (y % 256) \in 0 .. 255
  <2> QED
    BY <2>1
<1>2. PICK z \in Nat : z = 256 * r + q
  OBVIOUS
<1>3. y % 256 = r
  BY <1>1
<1>4. y \div 256 = q
  BY <1>1
<1>5. z % 256 = q
  BY <1>2
<1>6. z \div 256 = r
  BY <1>2
<1>7. Swap16(y) = z
  BY <1>2, <1>3, <1>4 DEF Swap16
<1>8. Swap16(z) = y
  BY <1>1, <1>5, <1>6 DEF Swap16
<1> QED
  BY <1>7, <1>8

\* What the panel shows is a time of the calendar.
LEMMA InstantsAreTimes ==
    /\ Len(Instants) \in Nat
    /\ \A k \in 1 .. Len(Instants) : Instants[k] \in Calendar /\ Instants[k] \in Range(Instants)
<1>1. /\ Len(Instants) \in Nat /\ DOMAIN Instants = 1 .. Len(Instants)
      /\ \A k \in 1 .. Len(Instants) : Instants[k] \in Calendar
  BY ClockSyncAssumption, LenProperties, ElementOfSeq
<1> QED
  BY <1>1 DEF Range

\* A time of the calendar is one the bytes can hold, with a date's digits.
LEMMA TimesAreNarrow ==
    ASSUME NEW t \in Calendar
    PROVE  t \in PanelTimes /\ Narrow(t)
<1>1. PICK u \in [Fields -> Nat] :
        /\ u = t /\ u["year"] <= 9999
        /\ u["mon"] <= 12 /\ u["mday"] <= 31 /\ u["hour"] <= 23 /\ u["min"] <= 59 /\ u["sec"] <= 60
  BY DEF Calendar
<1>2. /\ u["year"] \in Nat /\ u["mon"] \in Nat /\ u["mday"] \in Nat
      /\ u["hour"] \in Nat /\ u["min"] \in Nat /\ u["sec"] \in Nat
  BY DEF Fields
<1>3. \A f \in Fields \ {"year"} : u[f] <= 99
  BY <1>1, <1>2 DEF Fields
<1>4. \A f \in Fields \ {"year"} : u[f] < 256
  BY <1>1, <1>2 DEF Fields
<1>5. u["year"] < 65536
  BY <1>1, <1>2
<1> QED
  BY <1>1, <1>3, <1>4, <1>5 DEF PanelTimes, Narrow

\* Two times with the same fields are the same.
LEMMA SameFields ==
    ASSUME NEW a \in [Fields -> Int], NEW b \in [Fields -> Int],
           a["year"] = b["year"], a["mon"] = b["mon"], a["mday"] = b["mday"],
           a["hour"] = b["hour"], a["min"] = b["min"], a["sec"] = b["sec"]
    PROVE  a = b
BY DEF Fields

\* What becomes of each field on the line: the year is swapped.
LEMMA OnTheLineFields ==
    ASSUME NEW a \in [Fields -> Int], Swap16(a["year"]) \in Int
    PROVE  /\ OnTheLine(a) \in [Fields -> Int]
           /\ OnTheLine(a)["year"] = Swap16(a["year"]) /\ OnTheLine(a)["mon"] = a["mon"]
           /\ OnTheLine(a)["mday"] = a["mday"] /\ OnTheLine(a)["hour"] = a["hour"]
           /\ OnTheLine(a)["min"] = a["min"] /\ OnTheLine(a)["sec"] = a["sec"]
BY DEF OnTheLine, Fields

\* What the handler makes of each field: it swaps the year back and stores offsets.
LEMMA StoredFields ==
    ASSUME NEW a \in [Fields -> Int], Swap16(a["year"]) \in Int
    PROVE  /\ Stored(a) \in [Fields -> Int]
           /\ Stored(a)["year"] = Swap16(a["year"]) - 1900 /\ Stored(a)["mon"] = a["mon"] - 1
           /\ Stored(a)["mday"] = a["mday"] /\ Stored(a)["hour"] = a["hour"]
           /\ Stored(a)["min"] = a["min"] /\ Stored(a)["sec"] = a["sec"]
<1>1. /\ Stored(a)["year"] = Swap16(a["year"]) - 1900 /\ Stored(a)["mon"] = a["mon"] - 1
      /\ Stored(a)["mday"] = a["mday"] /\ Stored(a)["hour"] = a["hour"]
      /\ Stored(a)["min"] = a["min"] /\ Stored(a)["sec"] = a["sec"]
  BY DEF Stored, Fields
<1>2. Stored(a) = [[a EXCEPT !["year"] = Swap16(a["year"]) - 1900] EXCEPT !["mon"] = a["mon"] - 1]
  BY DEF Stored, Fields
<1>3. Swap16(a["year"]) - 1900 \in Int /\ a["mon"] - 1 \in Int
  BY DEF Fields
<1> QED
  BY <1>1, <1>2, <1>3 DEF Fields

\* What the date command makes of each field: it takes the offsets off again.
LEMMA ShownFields ==
    ASSUME NEW a \in [Fields -> Int]
    PROVE  /\ Shown(a) \in [Fields -> Int]
           /\ Shown(a)["year"] = a["year"] + 1900 /\ Shown(a)["mon"] = a["mon"] + 1
           /\ Shown(a)["mday"] = a["mday"] /\ Shown(a)["hour"] = a["hour"]
           /\ Shown(a)["min"] = a["min"] /\ Shown(a)["sec"] = a["sec"]
<1>1. /\ Shown(a)["year"] = a["year"] + 1900 /\ Shown(a)["mon"] = a["mon"] + 1
      /\ Shown(a)["mday"] = a["mday"] /\ Shown(a)["hour"] = a["hour"]
      /\ Shown(a)["min"] = a["min"] /\ Shown(a)["sec"] = a["sec"]
  BY DEF Shown, Fields
<1>2. Shown(a) = [f \in Fields |-> Shown(a)[f]]
  BY DEF Shown
<1>3. \A f \in Fields : Shown(a)[f] \in Int
  BY <1>1 DEF Fields
<1> QED
  BY <1>1, <1>2, <1>3

\* The way of a time from the panel to synctime and on to the command.
LEMMA KeptFields ==
    ASSUME NEW t \in PanelTimes
    PROVE  /\ Kept(t) \in [Fields -> Int]
           /\ Kept(t)["year"] + 1900 = t["year"]
           /\ Kept(t)["mon"] + 1 = t["mon"]
           /\ Kept(t)["mday"] = t["mday"]
           /\ Kept(t)["hour"] = t["hour"]
           /\ Kept(t)["min"] = t["min"]
           /\ Kept(t)["sec"] = t["sec"]
           /\ Shown(Kept(t)) = t
<1>1. PICK told \in [Fields -> Nat] :
        /\ told = t /\ told["year"] \in Nat /\ told["year"] < 65536
  BY DEF PanelTimes, Fields
<1>2. Swap16(Swap16(told["year"])) = told["year"]
  BY <1>1, SwapTwice
<1>3. Swap16(told["year"]) \in Int
  BY <1>1 DEF Swap16
<1>4. PICK sent \in [Fields -> Int] :
        /\ sent = OnTheLine(told)
        /\ sent["year"] = Swap16(told["year"]) /\ sent["mon"] = told["mon"]
        /\ sent["mday"] = told["mday"] /\ sent["hour"] = told["hour"]
        /\ sent["min"] = told["min"] /\ sent["sec"] = told["sec"]
  BY <1>3, OnTheLineFields
<1>5. PICK u \in [Fields -> Int] :
        /\ u = Stored(sent)
        /\ u["year"] = told["year"] - 1900 /\ u["mon"] = told["mon"] - 1
        /\ u["mday"] = told["mday"] /\ u["hour"] = told["hour"]
        /\ u["min"] = told["min"] /\ u["sec"] = told["sec"]
  BY <1>1, <1>2, <1>4, StoredFields
<1>6. u["year"] + 1900 = told["year"] /\ u["mon"] + 1 = told["mon"]
  <2>1. told["year"] \in Int /\ told["mon"] \in Int
    BY DEF Fields
  <2>2. u["year"] + 1900 = told["year"]
    BY <1>5, <2>1
  <2>3. u["mon"] + 1 = told["mon"]
    BY <1>5, <2>1
  <2> QED
    BY <2>2, <2>3
<1>7. Shown(u) = told
  <2>1. /\ Shown(u) \in [Fields -> Int] /\ told \in [Fields -> Int]
        /\ told["year"] \in Int /\ told["mon"] \in Int
    BY ShownFields DEF Fields
  <2>2. /\ Shown(u)["year"] = told["year"] /\ Shown(u)["mon"] = told["mon"]
        /\ Shown(u)["mday"] = told["mday"] /\ Shown(u)["hour"] = told["hour"]
        /\ Shown(u)["min"] = told["min"] /\ Shown(u)["sec"] = told["sec"]
    <3>1. /\ Shown(u)["year"] = u["year"] + 1900 /\ Shown(u)["mon"] = u["mon"] + 1
          /\ Shown(u)["mday"] = u["mday"] /\ Shown(u)["hour"] = u["hour"]
          /\ Shown(u)["min"] = u["min"] /\ Shown(u)["sec"] = u["sec"]
      BY ShownFields
    <3> QED
      BY <1>5, <1>6, <3>1
  <2> QED
    BY <2>1, <2>2, SameFields
<1>8. Kept(t) = u
  BY <1>1, <1>4, <1>5 DEF Kept
<1> QED
  BY <1>1, <1>5, <1>6, <1>7, <1>8

\* Whatever the panel answers its bytes can hold.
LEMMA PossibleTimes ==
    ASSUME astray \subseteq Strays
    PROVE  /\ Possible \subseteq PanelTimes
           /\ astray = {} => Possible \subseteq Calendar
BY InstantsAreTimes, TimesAreNarrow, ClockSyncAssumption DEF Possible

\* What may stand in a field of synctime is a number; a year that is not zero
\* is one that date takes.
LEMMA FieldValuesAreInts ==
    ASSUME astray \subseteq Strays
    PROVE  /\ \A f \in Fields : FieldValues(f) \subseteq Int
           /\ \A t \in Calendar : Kept(t)["year"] # 0
<1>1. ASSUME NEW f \in Fields, NEW t \in Possible
      PROVE  Kept(t)[f] \in Int
  BY PossibleTimes, KeptFields
<1>2. ASSUME NEW t \in Calendar
      PROVE  Kept(t)["year"] # 0
  <2>1. PICK u \in [Fields -> Nat] : u = t /\ 1970 <= u["year"]
    BY DEF Calendar
  <2>2. u["year"] \in Nat
    BY DEF Fields
  <2>3. Kept(t) \in [Fields -> Int] /\ Kept(t)["year"] + 1900 = t["year"]
    BY TimesAreNarrow, KeptFields
  <2>4. PICK y \in Int : y = Kept(t)["year"] /\ y + 1900 = u["year"]
    BY <2>1, <2>3 DEF Fields
  <2>5. y # 0
    BY <2>1, <2>2, <2>4
  <2> QED
    BY <2>4, <2>5
<1> QED
  BY <1>1, <1>2 DEF FieldValues

-----------------------------------------------------------------------------
\* The length of the command.
LEMMA DigitsBound ==
    ASSUME NEW n \in Int, 0 <= n
    PROVE  /\ Digits(n) \in Int
           /\ n < 100 => Digits(n) <= 2
           /\ n < 10000 => Digits(n) <= 4
BY DEF Digits

\* Each field of a narrow time that is kept fits.
LEMMA KeptBounds ==
    ASSUME NEW t \in PanelTimes, Narrow(t)
    PROVE  /\ 0 <= Kept(t)["year"] + 1900 /\ Kept(t)["year"] + 1900 < 10000
           /\ 0 <= Kept(t)["mon"] + 1 /\ Kept(t)["mon"] + 1 < 100
           /\ 0 <= Kept(t)["mday"] /\ Kept(t)["mday"] < 100
           /\ 0 <= Kept(t)["hour"] /\ Kept(t)["hour"] < 100
           /\ 0 <= Kept(t)["min"] /\ Kept(t)["min"] < 100
           /\ 0 <= Kept(t)["sec"] /\ Kept(t)["sec"] < 100
<1>1. PICK told \in [Fields -> Nat] : told = t
  BY DEF PanelTimes
<1>2. /\ told["year"] \in Nat /\ told["mon"] \in Nat /\ told["mday"] \in Nat
      /\ told["hour"] \in Nat /\ told["min"] \in Nat /\ told["sec"] \in Nat
  BY DEF Fields
<1>3. /\ told["year"] <= 9999 /\ told["mon"] <= 99 /\ told["mday"] <= 99
      /\ told["hour"] <= 99 /\ told["min"] <= 99 /\ told["sec"] <= 99
  BY <1>1 DEF Narrow, Fields
<1>4. PICK u \in [Fields -> Int] :
        /\ u = Kept(t) /\ u["year"] + 1900 = told["year"] /\ u["mon"] + 1 = told["mon"]
        /\ u["mday"] = told["mday"] /\ u["hour"] = told["hour"]
        /\ u["min"] = told["min"] /\ u["sec"] = told["sec"]
  BY <1>1, KeptFields
<1>5. /\ 0 <= u["year"] + 1900 /\ u["year"] + 1900 < 10000
      /\ 0 <= u["mon"] + 1 /\ u["mon"] + 1 < 100
  BY <1>2, <1>3, <1>4
<1>6. 0 <= u["mday"] /\ u["mday"] < 100
  BY <1>2, <1>3, <1>4
<1>7. 0 <= u["hour"] /\ u["hour"] < 100
  BY <1>2, <1>3, <1>4
<1>8. 0 <= u["min"] /\ u["min"] < 100
  BY <1>2, <1>3, <1>4
<1>9. 0 <= u["sec"] /\ u["sec"] < 100
  BY <1>2, <1>3, <1>4
<1> QED
  BY <1>4, <1>5, <1>6, <1>7, <1>8, <1>9

\* Each field fits, so all of them fit, from whichever times they are taken.
LEMMA MixtureFits ==
    ASSUME NEW a \in [Fields -> Int], \A f \in Fields : a[f] \in FieldValues(f),
           astray \subseteq Strays, \A t \in astray : Narrow(t)
    PROVE  CommandLength(Shown(a)) \in Int /\ CommandLength(Shown(a)) <= 30
<1>1. \A t \in Possible :
        /\ 0 <= Kept(t)["year"] + 1900 /\ Kept(t)["year"] + 1900 < 10000
        /\ 0 <= Kept(t)["mon"] + 1 /\ Kept(t)["mon"] + 1 < 100
        /\ 0 <= Kept(t)["mday"] /\ Kept(t)["mday"] < 100
        /\ 0 <= Kept(t)["hour"] /\ Kept(t)["hour"] < 100
        /\ 0 <= Kept(t)["min"] /\ Kept(t)["min"] < 100
        /\ 0 <= Kept(t)["sec"] /\ Kept(t)["sec"] < 100
  <2> TAKE t \in Possible
  <2>1. t \in PanelTimes
    BY PossibleTimes
  <2>2. Narrow(t)
    BY InstantsAreTimes, TimesAreNarrow DEF Possible
  <2> QED
    BY <2>1, <2>2, KeptBounds
<1>2. \A f \in Fields : a[f] = 0 \/ \E t \in Possible : a[f] = Kept(t)[f]
  BY DEF FieldValues
<1>3. /\ 0 <= a["year"] + 1900 /\ a["year"] + 1900 < 10000
      /\ 0 <= a["mon"] + 1 /\ a["mon"] + 1 < 100
  BY <1>1, <1>2 DEF Fields
<1>4. /\ 0 <= a["mday"] /\ a["mday"] < 100 /\ 0 <= a["hour"] /\ a["hour"] < 100
      /\ 0 <= a["min"] /\ a["min"] < 100 /\ 0 <= a["sec"] /\ a["sec"] < 100
  BY <1>1, <1>2 DEF Fields
<1>5. /\ a["year"] \in Int /\ a["mon"] \in Int /\ a["mday"] \in Int
      /\ a["hour"] \in Int /\ a["min"] \in Int /\ a["sec"] \in Int
  BY DEF Fields
<1>6. Digits(a["year"] + 1900) \in Int /\ Digits(a["year"] + 1900) <= 4
  BY <1>3, <1>5, DigitsBound
<1>7. Digits(a["mon"] + 1) \in Int /\ Digits(a["mon"] + 1) <= 2
  BY <1>3, <1>5, DigitsBound
<1>8. /\ Digits(a["mday"]) \in Int /\ Digits(a["mday"]) <= 2
      /\ Digits(a["hour"]) \in Int /\ Digits(a["hour"]) <= 2
      /\ Digits(a["min"]) \in Int /\ Digits(a["min"]) <= 2
      /\ Digits(a["sec"]) \in Int /\ Digits(a["sec"]) <= 2
  BY <1>4, <1>5, DigitsBound
<1>9. CommandLength(Shown(a)) =
        9 + 5 + 2 + Digits(a["year"] + 1900) + Digits(a["mon"] + 1) + Digits(a["mday"])
                  + Digits(a["hour"]) + Digits(a["min"]) + Digits(a["sec"])
  BY ShownFields DEF CommandLength
<1> QED
  BY <1>6, <1>7, <1>8, <1>9

-----------------------------------------------------------------------------
\* The order of a build has a next field while one is missing.
LEMMA FieldsCardinality == IsFiniteSet(Fields) /\ Cardinality(Fields) = 6
<1>1. IsFiniteSet({}) /\ Cardinality({}) = 0
  BY FS_EmptySet
<1>2. IsFiniteSet({"year"}) /\ Cardinality({"year"}) = 1
  BY FS_Singleton
<1>3. IsFiniteSet({"year", "mon"}) /\ Cardinality({"year", "mon"}) = 2
  <2>1. {"year", "mon"} = {"year"} \cup {"mon"} /\ "mon" \notin {"year"}
    OBVIOUS
  <2> QED
    BY <1>2, <2>1, FS_AddElement
<1>4. IsFiniteSet({"year", "mon", "mday"}) /\ Cardinality({"year", "mon", "mday"}) = 3
  <2>1. /\ {"year", "mon", "mday"} = {"year", "mon"} \cup {"mday"}
        /\ "mday" \notin {"year", "mon"}
    OBVIOUS
  <2> QED
    BY <1>3, <2>1, FS_AddElement
<1>5. /\ IsFiniteSet({"year", "mon", "mday", "hour"})
      /\ Cardinality({"year", "mon", "mday", "hour"}) = 4
  <2>1. /\ {"year", "mon", "mday", "hour"} = {"year", "mon", "mday"} \cup {"hour"}
        /\ "hour" \notin {"year", "mon", "mday"}
    OBVIOUS
  <2> QED
    BY <1>4, <2>1, FS_AddElement
<1>6. /\ IsFiniteSet({"year", "mon", "mday", "hour", "min"})
      /\ Cardinality({"year", "mon", "mday", "hour", "min"}) = 5
  <2>1. /\ {"year", "mon", "mday", "hour", "min"} = {"year", "mon", "mday", "hour"} \cup {"min"}
        /\ "min" \notin {"year", "mon", "mday", "hour"}
    OBVIOUS
  <2> QED
    BY <1>5, <2>1, FS_AddElement
<1>7. /\ Fields = {"year", "mon", "mday", "hour", "min"} \cup {"sec"}
      /\ "sec" \notin {"year", "mon", "mday", "hour", "min"}
  BY DEF Fields
<1> QED
  BY <1>6, <1>7, FS_AddElement

\* While arguments are missing there is a next one in the order of evaluation.
LEMMA NextField ==
    ASSUME Typed, DOMAIN args # Fields
    PROVE  order[Cardinality(DOMAIN args) + 1] \in Fields
<1>1. DOMAIN args \in SUBSET Fields /\ order \in [1 .. 6 -> Fields]
  BY ClockSyncAssumption DEF Typed, TypeOK
<1>2. IsFiniteSet(DOMAIN args) /\ Cardinality(DOMAIN args) <= 6 /\ Cardinality(DOMAIN args) # 6
  BY <1>1, FieldsCardinality, FS_Subset
<1>3. Cardinality(DOMAIN args) \in Nat
  BY <1>2, FS_CardinalityType
<1> QED
  BY <1>1, <1>2, <1>3

\* The invariant holds at first.
LEMMA InitIInv == Init => IInv
<1> SUFFICES ASSUME Init PROVE IInv
  OBVIOUS
<1>1. /\ 2 \in 1 .. Len(Instants) /\ Len(Instants) \in Nat
      /\ Len(WriteOrder) = 6 /\ 0 <= MaxLine /\ 0 \in 0 .. MaxMishaps
      /\ DOMAIN BootDate = Fields
  BY ClockSyncAssumption, InstantsAreTimes DEF WriteOrder
<1>2. /\ ZeroTime \in [Fields -> Int] /\ \A f \in Fields : ZeroTime[f] \in FieldValues(f)
      /\ NoArgs \in [{} -> Int] /\ DOMAIN NoArgs = {}
  BY DEF ZeroTime, FieldValues, NoArgs
<1>3. TypeOK
  BY <1>1, <1>2 DEF Init, TypeOK
<1>4. Typed
  BY <1>1, <1>2, <1>3 DEF Init, Typed, Past
<1>5. WritesInOrder /\ NeverSet
  BY <1>1, <1>2 DEF Init, WritesInOrder, NeverSet
<1> QED
  BY <1>4, <1>5 DEF Init, IInv, ReadsStill, LatestReply, Punctual, DateWhole, DateTrue

\* Every step keeps it.
LEMMA NextIInv == IInv /\ [Next]_vars => IInv'
<1> SUFFICES ASSUME IInv, [Next]_vars PROVE IInv'
  OBVIOUS
<1> USE DEF IInv
<1>0. /\ Len(Instants) \in Nat /\ now \in 1 .. Len(Instants)
      /\ Len(line) \in Nat
      /\ \A k \in 1 .. Len(line) : line[k] \in LineFrame
      /\ TimePending <=> uart = "time" \/ \E k \in 1 .. Len(line) : IsTime(k)
      /\ MaxLine \in Nat /\ MaxMishaps \in Nat /\ Len(WriteOrder) = 6
  <2>1. Len(line) \in Nat /\ \A k \in 1 .. Len(line) : line[k] \in LineFrame
    BY LenProperties, ElementOfSeq DEF Typed
  <2>2. MaxLine \in Nat /\ MaxMishaps \in Nat /\ Len(WriteOrder) = 6
    BY ClockSyncAssumption DEF WriteOrder
  <2> QED
    BY <2>1, <2>2, InstantsAreTimes DEF Typed, TypeOK, TimePending, IsTime
<1>1. CASE Tick
  <2>1. /\ now' = now + 1 /\ now' \in 1 .. Len(Instants) /\ Past \subseteq Past'
        /\ UNCHANGED <<behind, astray, line, uart, rtc_time, writes, synctime, main, order, args, date,
                       asked, mishaps, blame>>
    BY <1>0, <1>1 DEF Tick, Past, events, clock
  <2>2. LineFrame \subseteq LineFrame' /\ Told \subseteq Told'
    BY <2>1 DEF LineFrame, Told
  <2>3. line' \in Seq(LineFrame')
    BY <2>1, <2>2, SeqMonotonic DEF Typed
  <2>4. TypeOK'
    BY <1>0, <2>1 DEF Typed, TypeOK
  <2>5. Typed'
    BY <2>1, <2>2, <2>3, <2>4 DEF Typed, FieldValues, Possible
  <2>6. WritesInOrder' /\ NeverSet' /\ ReadsStill'
    BY <2>1, <2>2 DEF WritesInOrder, NeverSet, ReadsStill, TimePending
  <2>7. LatestReply' /\ DateTrue'
    BY <2>1 DEF LatestReply, Punctual, TimePending, IsTime, DateTrue
  <2>8. DateWhole'
    BY <2>1 DEF DateWhole, Past
  <2> QED
    BY <2>5, <2>6, <2>7, <2>8
<1>2. CASE Press
  <2>1. /\ line' = Append(line, ButtonFrame) /\ Len(line) < MaxLine
        /\ mishaps' \in 0 .. MaxMishaps
        /\ UNCHANGED <<now, behind, astray, uart, rtc_time, writes, synctime, main, order, args, date,
                       asked, blame>>
    BY <1>0, <1>2 DEF Press, events, clock, world, Typed, TypeOK
  <2>2. /\ line' \in Seq(LineFrame) /\ Len(line') = Len(line) + 1
        /\ \A i \in 1 .. Len(line) : line'[i] = line[i]
        /\ line'[Len(line) + 1] = ButtonFrame
    BY <2>1, AppendProperties DEF Typed, ButtonFrame, LineFrame
  <2>3. \A k : IsTime(k)' <=> IsTime(k)
    BY <1>0, <2>2 DEF IsTime, ButtonFrame
  <2>4. TimePending' <=> TimePending
    BY <1>0, <2>1, <2>2, <2>3 DEF TimePending, IsTime
  <2>5. TypeOK'
    BY <1>0, <2>1, <2>2 DEF Typed, TypeOK
  <2>6. Typed'
    BY <2>1, <2>2, <2>5 DEF Typed, Past, Told, LineFrame, FieldValues, Possible
  <2>7. WritesInOrder' /\ NeverSet' /\ ReadsStill'
    BY <2>1, <2>4 DEF WritesInOrder, NeverSet, ReadsStill, Past, Told
  <2>8. LatestReply'
    <3>1. \A i \in 1 .. Len(line) : i \in 1 .. Len(line')
      BY <1>0, <2>2
    <3>2. ASSUME NEW k \in 1 .. Len(line'), IsTime(k)',
                 \A j \in (k + 1) .. Len(line') : ~(IsTime(j)')
          PROVE  /\ k \in 1 .. Len(line) /\ IsTime(k) /\ line'[k] = line[k]
                 /\ \A j \in (k + 1) .. Len(line) : ~IsTime(j)
      <4>1. IsTime(k) /\ k \in 1 .. Len(line)
        BY <2>3, <3>2 DEF IsTime
      <4>2. \A j \in (k + 1) .. Len(line) : j \in (k + 1) .. Len(line')
        BY <1>0, <2>2
      <4> QED
        BY <2>2, <2>3, <3>2, <4>1, <4>2
    <3> QED
      BY <2>1, <2>3, <2>4, <3>1, <3>2 DEF LatestReply, Punctual
  <2>9. DateWhole' /\ DateTrue'
    BY <2>1 DEF DateWhole, DateTrue
  <2> QED
    BY <2>6, <2>7, <2>8, <2>9
<1>3. CASE Release
  <2>1. /\ uart = "held" /\ uart' = "select"
        /\ UNCHANGED <<now, behind, astray, line, rtc_time, writes, synctime, main, order, args, date,
                       asked, mishaps, blame>>
    BY <1>3 DEF Release, clock, world
  <2>2. TypeOK'
    BY <2>1 DEF Typed, TypeOK
  <2>3. Typed'
    BY <2>1, <2>2 DEF Typed, Past, Told, LineFrame, FieldValues, Possible
  <2>4. WritesInOrder' /\ NeverSet' /\ ReadsStill'
    BY <2>1 DEF WritesInOrder, NeverSet, ReadsStill, Past, Told, TimePending
  <2>5. LatestReply'
    BY <2>1 DEF LatestReply, Punctual, TimePending, IsTime
  <2> QED
    BY <2>1, <2>3, <2>4, <2>5 DEF DateWhole, DateTrue
<1>4. CASE Lose
  <2>1. PICK k \in 1 .. Len(line) :
          /\ line' = RemoveAt(line, k)
          /\ blame' = IF line[k].type = "time" THEN blame \cup {"lost"} ELSE blame
    BY <1>4 DEF Lose
  <2>2. /\ mishaps' \in 0 .. MaxMishaps
        /\ UNCHANGED <<now, behind, astray, uart, rtc_time, writes, synctime, main, order, args, date,
                       asked>>
    BY <1>0, <1>4 DEF Lose, events, clock, world, Typed, TypeOK
  <2>3. /\ line' \in Seq(LineFrame) /\ Len(line') = Len(line) - 1
        /\ \A i \in 1 .. Len(line) - 1 : line'[i] = IF i < k THEN line[i] ELSE line[i + 1]
    BY <2>1, RemoveAtProperties DEF Typed
  <2>4. /\ blame \subseteq blame' /\ blame' \subseteq {"unsynced", "lost", "held"}
        /\ "held" \in blame' <=> "held" \in blame
        /\ "unsynced" \in blame' <=> "unsynced" \in blame
    BY <2>1 DEF Typed, TypeOK
  <2>5. TypeOK'
    BY <1>0, <2>2, <2>3, <2>4 DEF Typed, TypeOK
  <2>6. Typed'
    BY <2>2, <2>3, <2>5 DEF Typed, Past, Told, LineFrame, FieldValues, Possible
  <2>7. ASSUME NEW i \in 1 .. Len(line')
        PROVE  \E j \in 1 .. Len(line) : /\ line'[i] = line[j] /\ j # k
                                         /\ j = IF i < k THEN i ELSE i + 1
    BY <1>0, <2>3
  <2>8. ASSUME NEW j \in 1 .. Len(line), j # k
        PROVE  \E i \in 1 .. Len(line') : /\ line'[i] = line[j]
                                          /\ j = IF i < k THEN i ELSE i + 1
    <3>1. CASE j < k
      BY <1>0, <2>3, <3>1
    <3>2. CASE j > k
      <4>1. j - 1 \in 1 .. Len(line') /\ ~(j - 1 < k) /\ line'[j - 1] = line[j]
        BY <1>0, <2>3, <3>2
      <4> QED
        BY <4>1
    <3> QED
      BY <2>8, <3>1, <3>2
  <2>9. TimePending' => TimePending
    BY <2>2, <2>7 DEF TimePending
  <2>10. WritesInOrder' /\ NeverSet' /\ ReadsStill'
    BY <2>2, <2>4, <2>9 DEF WritesInOrder, NeverSet, ReadsStill, Past, Told
  <2>11. LatestReply'
    <3> SUFFICES ASSUME Punctual, behind = 0, main \in {"sleep", "format"}, "lost" \notin blame'
                 PROVE  LatestReply'
      BY <2>2, <2>4 DEF LatestReply, Punctual
    <3>1. line[k].type # "time" /\ "lost" \notin blame
      BY <2>1, <2>4
    <3>2. (\E j \in 1 .. Len(line) : IsTime(j)) => \E i \in 1 .. Len(line') : IsTime(i)'
      BY <2>8, <3>1 DEF IsTime
    <3>3. ASSUME NEW i \in 1 .. Len(line'), line'[i].type = "time",
                 \A m \in (i + 1) .. Len(line') : ~(IsTime(m)')
          PROVE  line'[i].rtc = OnTheLine(Instants[asked])
      <4>1. PICK j \in 1 .. Len(line) : /\ line'[i] = line[j] /\ j # k
                                        /\ j = IF i < k THEN i ELSE i + 1
        BY <2>7
      <4>2. ASSUME NEW n \in (j + 1) .. Len(line), IsTime(n)
            PROVE  FALSE
        <5>1. n # k /\ n \in 1 .. Len(line) /\ line[n].type = "time"
          BY <3>1, <4>2 DEF IsTime
        <5>2. PICK m \in 1 .. Len(line') : /\ line'[m] = line[n]
                                           /\ n = IF m < k THEN m ELSE m + 1
          BY <2>8, <5>1
        <5>3. m \in (i + 1) .. Len(line')
          BY <1>0, <2>3, <4>1, <4>2, <5>2
        <5> QED
          BY <3>3, <5>1, <5>2, <5>3 DEF IsTime
      <4> QED
        BY <3>1, <3>3, <4>1, <4>2 DEF LatestReply, IsTime
    <3>4. TimePending => TimePending'
      BY <1>0, <2>2, <3>2 DEF TimePending, IsTime
    <3> QED
      BY <2>2, <3>1, <3>2, <3>3, <3>4 DEF LatestReply, IsTime
  <2>12. DateWhole' /\ DateTrue'
    BY <2>2, <2>4 DEF DateWhole, DateTrue
  <2> QED
    BY <2>6, <2>10, <2>11, <2>12
<1>5. CASE TakeTime
  <2>1. /\ uart = "select" /\ line # <<>> /\ Head(line).type = "time"
        /\ uart' = "time" /\ rtc_time' = Head(line).rtc /\ writes' = 0 /\ line' = Tail(line)
        /\ UNCHANGED <<now, behind, astray, synctime, main, order, args, date, asked, mishaps, blame>>
    BY <1>5 DEF TakeTime, clock, world
  <2>2. /\ line' \in Seq(LineFrame) /\ Len(line') = Len(line) - 1
        /\ \A i \in 1 .. Len(line') : line'[i] = line[i + 1]
    BY <2>1, HeadTailProperties DEF Typed
  <2>3. Len(line) >= 1 /\ Head(line) = line[1] /\ IsTime(1) /\ Len(line') \in Nat
    BY <1>0, <2>1, <2>2, LenProperties DEF IsTime
  <2>4. rtc_time' \in {OnTheLine(t) : t \in Told}
    <3>1. line[1] \in LineFrame /\ line[1].type = "time"
      BY <1>0, <2>1, <2>3
    <3> QED
      BY <2>1, <2>3, <3>1 DEF LineFrame
  <2>5. TypeOK'
    BY <1>0, <2>1, <2>2 DEF Typed, TypeOK
  <2>6. Typed'
    BY <2>1, <2>2, <2>4, <2>5 DEF Typed, Past, Told, LineFrame, FieldValues, Possible
  <2>7. \A i \in 1 .. Len(line') : i + 1 \in 1 .. Len(line) /\ (IsTime(i)' <=> IsTime(i + 1))
    BY <1>0, <2>2, <2>3 DEF IsTime
  <2>8. TimePending
    BY <1>0, <2>3 DEF IsTime
  <2>9. WritesInOrder' /\ NeverSet' /\ ReadsStill'
    BY <1>0, <2>1, <2>8 DEF WritesInOrder, NeverSet, ReadsStill
  <2>10. LatestReply'
    <3> SUFFICES ASSUME Punctual, behind = 0, main \in {"sleep", "format"}, "lost" \notin blame
                 PROVE  LatestReply'
      BY <2>1 DEF LatestReply, Punctual
    <3>1. ASSUME \A k \in 1 .. Len(line') : ~(IsTime(k)')
          PROVE  rtc_time' = OnTheLine(Instants[asked])
      <4>1. \A j \in 2 .. Len(line) : ~IsTime(j)
        <5> TAKE j \in 2 .. Len(line)
        <5>1. j - 1 \in 1 .. Len(line') /\ j = (j - 1) + 1
          BY <1>0, <2>2
        <5> QED
          BY <2>7, <3>1, <5>1
      <4>2. 1 \in 1 .. Len(line) /\ 1 + 1 = 2
        BY <1>0, <2>3
      <4>3. line[1].rtc = OnTheLine(Instants[asked])
        BY <2>3, <4>1, <4>2 DEF LatestReply
      <4> QED
        BY <2>1, <2>3, <4>3
    <3>2. ASSUME NEW i \in 1 .. Len(line'), IsTime(i)',
                 \A m \in (i + 1) .. Len(line') : ~(IsTime(m)')
          PROVE  line'[i].rtc = OnTheLine(Instants[asked])
      <4>1. \A j \in (i + 2) .. Len(line) : ~IsTime(j)
        <5> TAKE j \in (i + 2) .. Len(line)
        <5>1. j - 1 \in (i + 1) .. Len(line') /\ j - 1 \in 1 .. Len(line') /\ j = (j - 1) + 1
          BY <1>0, <2>2
        <5> QED
          BY <2>7, <3>2, <5>1
      <4>2. i + 1 \in 1 .. Len(line) /\ IsTime(i + 1) /\ (i + 1) + 1 = i + 2
        BY <2>7, <3>2
      <4> QED
        BY <2>2, <4>1, <4>2 DEF LatestReply
    <3>3. TimePending'
      BY <2>1 DEF TimePending
    <3> QED
      BY <2>1, <3>1, <3>2, <3>3 DEF LatestReply
  <2>11. DateWhole' /\ DateTrue'
    BY <2>1 DEF DateWhole, DateTrue
  <2> QED
    BY <2>6, <2>9, <2>10, <2>11
<1>6. CASE TakeButton
  <2>1. /\ uart = "select" /\ line # <<>> /\ Head(line).type = "button"
        /\ uart' = "held" /\ line' = Tail(line)
        /\ UNCHANGED <<now, behind, astray, rtc_time, writes, synctime, main, order, args, date, asked,
                       mishaps, blame>>
    BY <1>6 DEF TakeButton, clock, world
  <2>2. /\ line' \in Seq(LineFrame) /\ Len(line') = Len(line) - 1
        /\ \A i \in 1 .. Len(line') : line'[i] = line[i + 1]
    BY <2>1, HeadTailProperties DEF Typed
  <2>3. Len(line) >= 1 /\ Head(line) = line[1] /\ ~IsTime(1) /\ Len(line') \in Nat
    BY <1>0, <2>1, <2>2, LenProperties DEF IsTime
  <2>4. TypeOK'
    BY <1>0, <2>1, <2>2 DEF Typed, TypeOK
  <2>5. Typed'
    BY <2>1, <2>2, <2>4 DEF Typed, Past, Told, LineFrame, FieldValues, Possible
  <2>6. \A i \in 1 .. Len(line') : i + 1 \in 1 .. Len(line) /\ (IsTime(i)' <=> IsTime(i + 1))
    BY <1>0, <2>2, <2>3 DEF IsTime
  <2>7. ASSUME NEW j \in 1 .. Len(line), IsTime(j)
        PROVE  /\ j - 1 \in 1 .. Len(line') /\ IsTime(j - 1)' /\ j = (j - 1) + 1
    <3>1. j # 1
      BY <2>3, <2>7
    <3>2. j - 1 \in 1 .. Len(line') /\ j = (j - 1) + 1
      BY <1>0, <2>2, <3>1
    <3> QED
      BY <2>6, <2>7, <3>2
  <2>8. TimePending' <=> TimePending
    BY <1>0, <2>1, <2>6, <2>7 DEF TimePending, IsTime
  <2>9. WritesInOrder' /\ NeverSet' /\ ReadsStill'
    BY <2>1, <2>8 DEF WritesInOrder, NeverSet, ReadsStill, Past, Told
  <2>10. LatestReply'
    <3> SUFFICES ASSUME Punctual, behind = 0, main \in {"sleep", "format"}, "lost" \notin blame
                 PROVE  LatestReply'
      BY <2>1 DEF LatestReply, Punctual
    <3>1. ASSUME NEW i \in 1 .. Len(line'), IsTime(i)',
                 \A m \in (i + 1) .. Len(line') : ~(IsTime(m)')
          PROVE  line'[i].rtc = OnTheLine(Instants[asked])
      <4>1. \A j \in (i + 2) .. Len(line) : ~IsTime(j)
        <5> TAKE j \in (i + 2) .. Len(line)
        <5>1. j - 1 \in (i + 1) .. Len(line') /\ j \in 1 .. Len(line)
          BY <1>0, <2>2
        <5> QED
          BY <2>7, <3>1, <5>1
      <4>2. i + 1 \in 1 .. Len(line) /\ IsTime(i + 1) /\ (i + 1) + 1 = i + 2
        BY <2>6, <3>1
      <4> QED
        BY <2>2, <4>1, <4>2 DEF LatestReply
    <3> QED
      BY <2>1, <2>8, <3>1 DEF LatestReply
  <2>11. DateWhole' /\ DateTrue'
    BY <2>1 DEF DateWhole, DateTrue
  <2> QED
    BY <2>5, <2>9, <2>10, <2>11
<1>7. CASE WriteField
  <2>1. /\ uart = "time" /\ writes' = writes + 1
        /\ uart' = IF writes' = 6 THEN "select" ELSE "time"
        /\ synctime' = [synctime EXCEPT ![WriteOrder[writes + 1]] =
                          Stored(rtc_time)[WriteOrder[writes + 1]]]
        /\ UNCHANGED <<now, behind, astray, line, rtc_time, main, order, args, date, asked, mishaps, blame>>
    BY <1>0, <1>7 DEF WriteField, clock, world
  <2>2. PICK t \in Told : rtc_time = OnTheLine(t) /\ Stored(rtc_time) = Kept(t)
    BY <2>1 DEF Typed, Kept
  <2>3. t \in Possible /\ t \in PanelTimes /\ (astray = {} => t \in Calendar)
    <3>1. t \in Possible
      BY <1>0 DEF Told, Possible, Past
    <3> QED
      BY <3>1, PossibleTimes DEF Typed, TypeOK
  <2>4. writes \in 0 .. 5 /\ writes' \in 1 .. 6 /\ uart' \in {"select", "time"}
    BY <1>0, <2>1 DEF Typed, TypeOK, WritesInOrder
  <2>5. PICK f \in Fields : f = WriteOrder[writes + 1]
    BY <2>4 DEF WriteOrder, Fields
  <2>6. /\ synctime' = [synctime EXCEPT ![f] = Kept(t)[f]]
        /\ Kept(t)[f] \in Int /\ Kept(t)[f] \in FieldValues(f)
    <3>1. Kept(t)[f] \in Int
      BY <2>3, <2>5, KeptFields
    <3> QED
      BY <2>1, <2>2, <2>3, <2>5, <3>1 DEF FieldValues
  <2>7. /\ synctime' \in [Fields -> Int] /\ synctime'[f] = Kept(t)[f]
        /\ \A g \in Fields \ {f} : synctime'[g] = synctime[g]
    BY <2>6 DEF Typed
  <2>8. TypeOK'
    BY <1>0, <2>1, <2>4, <2>7 DEF Typed, TypeOK
  <2>9. Typed'
    <3>1. \A g \in Fields : synctime'[g] \in FieldValues(g)
      BY <2>6, <2>7 DEF Typed
    <3> QED
      BY <2>1, <2>7, <2>8, <3>1 DEF Typed, Past, Told, LineFrame, FieldValues, Possible
  <2>10. \A i \in 1 .. writes' : synctime'[WriteOrder[i]] = Kept(t)[WriteOrder[i]]
    <3> TAKE i \in 1 .. writes'
    <3>1. i \in 1 .. writes \/ i = writes + 1
      BY <2>1, <2>4
    <3>2. WriteOrder[i] \in Fields
      BY <2>4 DEF WriteOrder, Fields
    <3>3. CASE WriteOrder[i] = f
      BY <2>7, <3>3
    <3>4. CASE WriteOrder[i] # f
      BY <2>1, <2>2, <2>5, <2>7, <3>1, <3>2, <3>4 DEF WritesInOrder
    <3> QED
      BY <3>3, <3>4
  <2>11. writes' = 6 => synctime' = Kept(t)
    <3> SUFFICES ASSUME writes' = 6 PROVE synctime' = Kept(t)
      OBVIOUS
    <3>1. \A i \in 1 .. 6 : synctime'[WriteOrder[i]] = Kept(t)[WriteOrder[i]]
      BY <2>10
    <3>2. /\ synctime'["year"] = Kept(t)["year"] /\ synctime'["mon"] = Kept(t)["mon"]
          /\ synctime'["mday"] = Kept(t)["mday"] /\ synctime'["hour"] = Kept(t)["hour"]
          /\ synctime'["min"] = Kept(t)["min"] /\ synctime'["sec"] = Kept(t)["sec"]
      BY <3>1 DEF WriteOrder
    <3>3. PICK a \in [Fields -> Int], b \in [Fields -> Int] : a = synctime' /\ b = Kept(t)
      BY <2>3, <2>7, KeptFields
    <3> QED
      BY <3>2, <3>3, SameFields
  <2>12. synctime'["year"] = Kept(t)["year"] /\ (astray = {} => Kept(t)["year"] # 0)
    <3>1. 1 \in 1 .. writes' /\ WriteOrder[1] = "year"
      BY <2>4 DEF WriteOrder
    <3> QED
      BY <2>3, <2>10, <3>1, FieldValuesAreInts DEF Typed, TypeOK
  <2>13. WritesInOrder'
    <3>1. uart' = "time" => writes' < 6
      BY <2>1, <2>4
    <3> QED
      BY <1>0, <2>1, <2>2, <2>4, <2>10, <2>11, <3>1 DEF WritesInOrder, Past, Told
  <2>14. NeverSet'
    BY <2>1, <2>12 DEF NeverSet
  <2>15. ReadsStill'
    BY <1>0, <2>1 DEF ReadsStill
  <2>16. LatestReply'
    <3> SUFFICES ASSUME Punctual, behind = 0, main \in {"sleep", "format"}, "lost" \notin blame
                 PROVE  LatestReply'
      BY <2>1 DEF LatestReply, Punctual
    <3>1. \A i \in 1 .. Len(line) : IsTime(i)' <=> IsTime(i)
      BY <2>1 DEF IsTime
    <3>2. ASSUME \A i \in 1 .. Len(line) : ~IsTime(i)
          PROVE  rtc_time = OnTheLine(Instants[asked])
      BY <2>1, <3>2 DEF LatestReply
    <3>3. ASSUME ~TimePending'
          PROVE  synctime' = Kept(Instants[asked])
      <4>1. uart' = "select" /\ writes' = 6 /\ \A i \in 1 .. Len(line) : ~IsTime(i)
        BY <2>1, <3>3 DEF TimePending, IsTime
      <4> QED
        BY <2>2, <2>11, <3>2, <4>1 DEF Kept
    <3> QED
      BY <2>1, <3>1, <3>2, <3>3 DEF LatestReply, IsTime
  <2>17. DateWhole' /\ DateTrue'
    BY <2>1 DEF DateWhole, DateTrue
  <2> QED
    BY <2>9, <2>13, <2>14, <2>15, <2>16, <2>17
<1>8. CASE RunSynctime
  <2>1. /\ main = "synctime" /\ main' = "ask" /\ astray = {} /\ astray' \subseteq Strays
        /\ \/ behind' = 0 /\ blame' = blame /\ astray' = astray
           \/ behind' = behind /\ blame' = blame \cup {"unsynced"}
        /\ UNCHANGED <<now, line, uart, rtc_time, writes, synctime, order, args, date, asked,
                       mishaps>>
    BY <1>8 DEF RunSynctime, events, Typed, TypeOK
  <2>2. TypeOK'
    BY <1>0, <2>1 DEF Typed, TypeOK
  <2>3. /\ Past' = Past /\ Told \subseteq Told' /\ LineFrame \subseteq LineFrame'
        /\ \A f \in Fields : FieldValues(f) \subseteq FieldValues(f)'
    BY <2>1 DEF Past, Told, LineFrame, FieldValues, Possible
  <2>4. line' \in Seq(LineFrame')
    BY <2>1, <2>3, SeqMonotonic DEF Typed
  <2>5. Typed'
    BY <2>1, <2>2, <2>3, <2>4 DEF Typed, TypeOK
  <2>6. WritesInOrder' /\ NeverSet' /\ ReadsStill'
    BY <2>1, <2>3 DEF WritesInOrder, NeverSet, ReadsStill, Past, Told
  <2>7. LatestReply'
    BY <2>1 DEF LatestReply, Punctual
  <2> QED
    BY <2>1, <2>5, <2>6, <2>7 DEF DateWhole, DateTrue
<1>9. CASE AskTime
  <2>1. PICK t \in Answers :
        /\ main = "ask" /\ main' = "sleep" /\ asked' = now
        /\ line' = IF Room THEN Append(line, TimeFrame(t)) ELSE line
        /\ blame' = (blame \cap {"unsynced"}) \cup (IF Room THEN {} ELSE {"lost"})
        /\ UNCHANGED <<now, behind, astray, uart, rtc_time, writes, synctime, order, args, date, mishaps>>
    BY <1>9 DEF AskTime, Arrives, events, world
  <2>2. blame' \subseteq {"unsynced", "lost"} /\ ("unsynced" \in blame' <=> "unsynced" \in blame)
    BY <2>1
  <2>3. /\ TimeFrame(t) \in LineFrame /\ TimeFrame(t).type = "time"
        /\ TimeFrame(t).rtc = OnTheLine(t)
        /\ astray = {} => t = Instants[now - behind]
    <3>1. now - behind \in Past
      BY <1>0 DEF Past, Typed, TypeOK
    <3>2. t \in Told /\ (astray = {} => t = Instants[now - behind])
      BY <2>1, <3>1 DEF Answers, Told, PanelClock
    <3> QED
      BY <3>2 DEF TimeFrame, LineFrame
  <2>4. WritesInOrder' /\ NeverSet' /\ ReadsStill' /\ DateWhole' /\ DateTrue'
    BY <2>1 DEF WritesInOrder, NeverSet, ReadsStill, Past, Told, DateWhole, DateTrue
  <2>5. now \in Past /\ args = NoArgs
    BY <1>0, <2>1 DEF Past, Typed
  <2>6. CASE Room
    <3>1. /\ line' \in Seq(LineFrame) /\ Len(line') = Len(line) + 1 /\ Len(line') <= MaxLine
          /\ \A i \in 1 .. Len(line) : line'[i] = line[i]
          /\ line'[Len(line) + 1] = TimeFrame(t)
      BY <1>0, <2>1, <2>3, <2>6, AppendProperties DEF Room, Typed
    <3>2. TypeOK'
      BY <1>0, <2>1, <2>2, <3>1 DEF Typed, TypeOK
    <3>3. Typed'
      BY <2>1, <2>5, <3>1, <3>2 DEF Typed, Past, Told, LineFrame, FieldValues, Possible
    <3>4. PICK n \in 1 .. Len(line') : n = Len(line') /\ line'[n] = TimeFrame(t)
      BY <1>0, <3>1
    <3>5. IsTime(n)' /\ TimePending'
      BY <2>3, <3>4 DEF IsTime, TimePending
    <3>6. LatestReply'
      <4> SUFFICES ASSUME Punctual PROVE LatestReply'
        BY <2>1, <2>2 DEF LatestReply, Punctual
      <4>1. behind = 0 /\ astray = {} /\ now - behind = asked'
        BY <1>0, <2>1 DEF LatestReply
      <4>2. ASSUME NEW k \in 1 .. Len(line'), \A j \in (k + 1) .. Len(line') : ~(IsTime(j)')
            PROVE  line'[k].rtc = OnTheLine(Instants[asked])'
        <5>1. k # n => n \in (k + 1) .. Len(line')
          BY <1>0, <3>1, <3>4
        <5>2. k = n
          BY <3>5, <4>2, <5>1
        <5> QED
          BY <2>3, <3>4, <4>1, <5>2
      <4> QED
        BY <2>1, <3>5, <4>1, <4>2 DEF LatestReply
    <3> QED
      BY <2>4, <3>3, <3>6
  <2>7. CASE ~Room
    <3>1. line' = line /\ "lost" \in blame'
      BY <2>1, <2>7
    <3>2. TypeOK'
      BY <1>0, <2>1, <2>2, <3>1 DEF Typed, TypeOK
    <3>3. Typed'
      BY <2>1, <2>5, <3>1, <3>2 DEF Typed, Past, Told, LineFrame, FieldValues, Possible
    <3>4. LatestReply'
      BY <2>1, <2>2, <3>1 DEF LatestReply, Punctual
    <3> QED
      BY <2>4, <3>3, <3>4
  <2> QED
    BY <2>6, <2>7
<1>10. CASE Wake
  <2>1. /\ main = "sleep" /\ main' = "format"
        /\ blame' = IF TimePending THEN blame \cup {"held"} ELSE blame
        /\ UNCHANGED <<now, behind, astray, line, uart, rtc_time, writes, synctime, order, args, date,
                       asked, mishaps>>
    BY <1>10 DEF Wake, events, world
  <2>2. /\ blame \subseteq blame' /\ blame' \subseteq {"unsynced", "lost", "held"}
        /\ "unsynced" \in blame' <=> "unsynced" \in blame
        /\ "lost" \in blame' <=> "lost" \in blame
        /\ "held" \notin blame' => ~TimePending
    BY <2>1 DEF Typed, TypeOK
  <2>3. TypeOK'
    BY <2>1, <2>2 DEF Typed, TypeOK
  <2>4. Typed'
    BY <2>1, <2>3 DEF Typed, Past, Told, LineFrame, FieldValues, Possible
  <2>5. DOMAIN args = {}
    BY <2>1 DEF Typed, NoArgs
  <2>6. WritesInOrder' /\ NeverSet' /\ ReadsStill'
    BY <2>1, <2>2, <2>5 DEF WritesInOrder, NeverSet, ReadsStill, Past, Told, TimePending
  <2>7. LatestReply'
    BY <2>1, <2>2 DEF LatestReply, Punctual, IsTime, TimePending
  <2> QED
    BY <2>1, <2>4, <2>6, <2>7 DEF DateWhole, DateTrue
<1>11. CASE ReadField
  <2>1. PICK f \in Fields :
          args' = [g \in DOMAIN args \cup {f} |-> IF g = f THEN synctime[f] ELSE args[g]]
    BY <1>11, NextField DEF ReadField
  <2>2. /\ main = "format"
        /\ UNCHANGED <<now, behind, astray, line, uart, rtc_time, writes, synctime, main, order, date,
                       asked, mishaps, blame>>
    BY <1>11 DEF ReadField, events, world
  <2>3. /\ DOMAIN args' = DOMAIN args \cup {f} /\ DOMAIN args' \subseteq Fields
        /\ args'[f] = synctime[f]
        /\ \A g \in DOMAIN args \ {f} : args'[g] = args[g]
    BY <2>1 DEF Typed, TypeOK
  <2>4. TypeOK'
    BY <2>2, <2>3 DEF Typed, TypeOK
  <2>5. Typed'
    <3>1. \A g \in DOMAIN args' : args'[g] \in FieldValues(g)
      BY <2>3 DEF Typed
    <3>2. args' \in [DOMAIN args' -> Int]
      BY <2>1 DEF Typed
    <3> QED
      BY <2>2, <2>4, <3>1, <3>2 DEF Typed, Past, Told, LineFrame, FieldValues, Possible
  <2>6. WritesInOrder' /\ NeverSet'
    BY <2>2, <2>3 DEF WritesInOrder, NeverSet, Past, Told
  <2>7. ReadsStill'
    BY <2>2, <2>3 DEF ReadsStill, TimePending
  <2>8. LatestReply'
    BY <2>2 DEF LatestReply, Punctual, IsTime, TimePending
  <2> QED
    BY <2>2, <2>5, <2>6, <2>7, <2>8 DEF DateWhole, DateTrue
<1>12. CASE SetDate
  <2>1. /\ date' \in {date, Shown(args)}
        /\ Shown(args).year < 1970 => date' = date
        /\ ~(Shown(args).year < 1970) /\ Shown(args) \in Range(Instants) => date' = Shown(args)
    <3>1. PICK takes \in Takes(Shown(args)) : date' = IF takes THEN Shown(args) ELSE date
      BY <1>12 DEF SetDate
    <3>2. date' \in {date, Shown(args)}
      BY <3>1
    <3>3. Shown(args).year < 1970 => date' = date
      BY <3>1 DEF Takes
    <3>4. ~(Shown(args).year < 1970) /\ Shown(args) \in Range(Instants) => date' = Shown(args)
      BY <3>1 DEF Takes
    <3> QED
      BY <3>2, <3>3, <3>4
  <2>2. /\ main = "format" /\ main' = "rest" /\ DOMAIN args = Fields /\ args' = NoArgs
        /\ UNCHANGED <<now, behind, astray, line, uart, rtc_time, writes, synctime, order, asked,
                       mishaps, blame>>
    BY <1>12 DEF SetDate, events, world
  <2>3. /\ args \in [Fields -> Int] /\ Shown(args) \in [Fields -> Int]
        /\ DOMAIN NoArgs = {} /\ NoArgs \in [{} -> Int]
    BY <2>2, ShownFields DEF Typed, NoArgs
  <2>4. DOMAIN date' = Fields
    BY <2>1, <2>3 DEF Typed, TypeOK
  <2>5. TypeOK'
    BY <2>2, <2>3, <2>4 DEF Typed, TypeOK
  <2>6. Typed'
    BY <2>2, <2>3, <2>5 DEF Typed, Past, Told, LineFrame, FieldValues, Possible
  <2>7. ASSUME args["year"] = 0
        PROVE  date' = date
    <3>1. Shown(args).year < 1970
      BY <2>3, <2>7, ShownFields
    <3> QED
      BY <2>1, <3>1
  <2>8. ASSUME NEW k \in 1 .. Len(Instants), args = Kept(Instants[k])
        PROVE  date' = Instants[k]
    <3>1. Instants[k] \in Calendar /\ Instants[k] \in Range(Instants)
      BY InstantsAreTimes
    <3>2. Shown(args) = Instants[k]
      BY <2>8, <3>1, TimesAreNarrow, KeptFields
    <3>3. PICK t \in [Fields -> Nat] : t = Instants[k] /\ 1970 <= t["year"]
      BY <3>1 DEF Calendar
    <3>4. ~(t["year"] < 1970)
      BY <3>3 DEF Fields
    <3> QED
      BY <2>1, <3>1, <3>2, <3>3, <3>4
  <2>9. WritesInOrder' /\ ReadsStill'
    BY <2>2 DEF WritesInOrder, ReadsStill, Past, Told
  <2>10. NeverSet'
    <3> SUFFICES ASSUME synctime["year"] = 0, astray = {} PROVE date' = BootDate
      BY <2>2, <2>3 DEF NeverSet
    <3>1. args["year"] = 0 /\ date = BootDate
      BY <2>2 DEF NeverSet, Fields
    <3> QED
      BY <2>7, <3>1
  <2>11. LatestReply'
    BY <2>2 DEF LatestReply, Punctual
  <2>12. ASSUME "held" \notin blame
         PROVE  args = synctime /\ ~TimePending
    <3>1. synctime \in [Fields -> Int] /\ \A f \in Fields : args[f] = synctime[f]
      BY <2>2, <2>12 DEF ReadsStill, Typed
    <3> QED
      BY <2>2, <2>3, <2>12, <3>1 DEF ReadsStill
  <2>13. DateWhole'
    <3> SUFFICES ASSUME "held" \notin blame, astray = {}
                 PROVE  date' = BootDate \/ \E k \in Past : date' = Instants[k]
      BY <2>2 DEF DateWhole, Past
    <3>1. uart \in {"select", "held"} /\ args = synctime
      BY <1>0, <2>2, <2>12 DEF Typed, TypeOK
    <3>2. CASE synctime = ZeroTime
      <4>1. synctime["year"] = 0
        BY <3>2 DEF ZeroTime, Fields
      <4> QED
        BY <2>7, <3>1, <4>1 DEF NeverSet
    <3>3. CASE \E t \in Told : synctime = Kept(t)
      <4>1. PICK k \in Past : synctime = Kept(Instants[k])
        BY <3>3 DEF Told
      <4> QED
        BY <1>0, <2>8, <3>1, <4>1 DEF Past
    <3> QED
      BY <3>1, <3>2, <3>3 DEF WritesInOrder
  <2>14. DateTrue'
    <3> SUFFICES ASSUME blame = {} PROVE date' = Instants[asked]
      BY <2>2 DEF DateTrue
    <3>1. asked \in 1 .. Len(Instants)
      BY DEF Typed, TypeOK
    <3>2. args = Kept(Instants[asked])
      BY <2>2, <2>12 DEF LatestReply, Punctual
    <3> QED
      BY <2>8, <3>1, <3>2
  <2> QED
    BY <2>6, <2>9, <2>10, <2>11, <2>13, <2>14
<1>13. CASE Rest
  <2>1. /\ main = "rest" /\ main' = "ask"
        /\ UNCHANGED <<now, behind, astray, line, uart, rtc_time, writes, synctime, order, args, date,
                       asked, mishaps, blame>>
    BY <1>13 DEF Rest, events, world
  <2>2. TypeOK'
    BY <2>1 DEF Typed, TypeOK
  <2>3. Typed'
    BY <2>1, <2>2 DEF Typed, Past, Told, LineFrame, FieldValues, Possible
  <2>4. WritesInOrder' /\ NeverSet' /\ ReadsStill'
    BY <2>1 DEF WritesInOrder, NeverSet, ReadsStill, Past, Told
  <2>5. LatestReply'
    BY <2>1 DEF LatestReply, Punctual
  <2> QED
    BY <2>1, <2>3, <2>4, <2>5 DEF DateWhole, DateTrue
<1>14. CASE Die
  <2>1. /\ main = "format" /\ main' = "dead" /\ uart' = "dead" /\ args' = NoArgs
        /\ UNCHANGED <<now, behind, astray, line, rtc_time, writes, synctime, order, date, asked,
                       mishaps, blame>>
    BY <1>14 DEF Die, Overruns, world
  <2>2. DOMAIN NoArgs = {} /\ NoArgs \in [{} -> Int]
    BY DEF NoArgs
  <2>3. TypeOK'
    BY <1>0, <2>1, <2>2 DEF Typed, TypeOK
  <2>4. Typed'
    BY <2>1, <2>2, <2>3 DEF Typed, Past, Told, LineFrame, FieldValues, Possible
  <2>5. WritesInOrder' /\ NeverSet' /\ ReadsStill' /\ LatestReply'
    BY <2>1, <2>2 DEF WritesInOrder, NeverSet, ReadsStill, LatestReply, Punctual
  <2> QED
    BY <2>1, <2>4, <2>5 DEF DateWhole, DateTrue
<1>15. CASE UNCHANGED vars
  <2>1. UNCHANGED <<now, behind, astray, line, uart, rtc_time, writes, synctime, main, order, args, date,
                    mishaps, asked, blame>>
    BY <1>15 DEF vars
  <2>2. Typed'
    BY <2>1 DEF Typed, TypeOK, Past, Told, LineFrame, FieldValues, Possible
  <2>3. WritesInOrder' /\ NeverSet' /\ ReadsStill'
    BY <2>1 DEF WritesInOrder, NeverSet, ReadsStill, Past, Told, TimePending
  <2>4. LatestReply'
    BY <2>1 DEF LatestReply, Punctual, IsTime, TimePending
  <2> QED
    BY <2>1, <2>2, <2>3, <2>4 DEF DateWhole, DateTrue
<1> QED
  BY <1>1, <1>2, <1>3, <1>4, <1>5, <1>6, <1>7, <1>8, <1>9, <1>10, <1>11, <1>12, <1>13, <1>14, <1>15
     DEF Next, EventThread, Main, Round

-----------------------------------------------------------------------------
\* The variables of the clock and the threads around it keep their types.
THEOREM TypeCorrect == Spec => []TypeOK
  BY InitIInv, NextIInv, PTL DEF Spec, IInv, Typed

\* The date main's round leaves is one that some panel clock showed, or the
\* date of the boot, unless the event thread was held up past main's sleep:
\* without that, no interleaving of the six writes of handle_proto_data with
\* the six reads of sprintf mixes two times.
THEOREM DateIsWhole == Spec => []DateWhole
  BY InitIInv, NextIInv, PTL DEF Spec, IInv

\* With nothing lost and nothing late, on a panel that synctime has set, the
\* date main's round leaves is the true time of its request: swap, the
\* offsets 1900 and 1 and the printed form undo one another.
THEOREM DateIsTrue == Spec => []DateTrue
  BY InitIInv, NextIInv, PTL DEF Spec, IInv

\* A command overruns time_s only when the panel shows a time with more digits
\* than a date.
LEMMA FewDigitsFit == Typed /\ Overruns => \E t \in astray : ~Narrow(t)
<1> SUFFICES ASSUME Typed, Overruns, \A t \in astray : Narrow(t) PROVE FALSE
  OBVIOUS
<1>1. /\ args \in [Fields -> Int] /\ \A f \in Fields : args[f] \in FieldValues(f)
      /\ astray \subseteq Strays
  BY DEF Typed, TypeOK, Overruns
<1>2. CommandLength(Shown(args)) <= 30 /\ CommandLength(Shown(args)) \in Int
  BY <1>1, MixtureFits
<1> QED
  BY <1>2 DEF Overruns

\* The program dies of nothing else, and the panel stays what it is after the
\* boot.
LEMMA NextDies == IInv /\ DiesOfDigits /\ [Next]_vars => DiesOfDigits'
<1> SUFFICES ASSUME IInv, DiesOfDigits, [Next]_vars PROVE DiesOfDigits'
  OBVIOUS
<1>1. CASE Die
  BY <1>1, FewDigitsFit DEF IInv, Die, DiesOfDigits, world
<1>2. CASE RunSynctime
  BY <1>2 DEF RunSynctime, DiesOfDigits
<1>3. ASSUME main' = main \/ main' \in {"sleep", "format", "rest", "ask"}, astray' = astray
      PROVE  DiesOfDigits'
  BY <1>3 DEF DiesOfDigits
<1>4. CASE Tick \/ Press \/ Lose
  BY <1>3, <1>4 DEF Tick, Press, Lose, world, clock
<1>5. CASE EventThread \/ Release
  BY <1>3, <1>5 DEF EventThread, TakeTime, TakeButton, WriteField, Release, world, clock
<1>6. CASE Round \/ Rest
  BY <1>3, <1>6 DEF Round, AskTime, Wake, ReadField, SetDate, Rest, world
<1>7. CASE UNCHANGED vars
  BY <1>3, <1>7 DEF vars
<1> QED
  BY <1>1, <1>2, <1>4, <1>5, <1>6, <1>7 DEF Next, Main

\* The 30 bytes of time_s hold every command sprintf makes of fields with no
\* more digits than a date's, in range or not, also of fields that are read
\* while they are written, in any order: an overrun, and a death of it, takes
\* a panel that shows a time with more.
THEOREM CommandAlwaysFits == Spec => []CommandFits
<1>1. Init => DiesOfDigits
  BY DEF Init, DiesOfDigits
<1>2. IInv /\ DiesOfDigits => CommandFits
  BY FewDigitsFit DEF IInv, CommandFits, DiesOfDigits
<1> QED
  BY <1>1, <1>2, InitIInv, NextIInv, NextDies, PTL DEF Spec
=============================================================================
