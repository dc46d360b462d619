------------------------- MODULE BatteryLamp_proofs -------------------------
(***************************************************************************)
(* Theorems about BatteryLamp, for every set of statuses, every room on    *)
(* the line and every number of changes, losses and presses.               *)
(***************************************************************************)
EXTENDS BatteryLamp, SequenceTheorems, TLAPS

-----------------------------------------------------------------------------
\* The frames there are.
LineFrame == [type : {"battery"}, status : Byte] \cup [type : {"button"}]

\* The two kinds of frame are frames of the line.
LEMMA FramesAreFrames ==
    /\ ButtonFrame \in LineFrame
    /\ level \in Byte => BatteryFrame \in LineFrame
BY DEF ButtonFrame, BatteryFrame, LineFrame

\* A frame lost from the line moves those behind it forward.
LEMMA RemoveAtProperties ==
    ASSUME NEW S, NEW s \in Seq(S), NEW k \in 1 .. Len(s)
    PROVE  /\ RemoveAt(s, k) \in Seq(S)
           /\ Len(RemoveAt(s, k)) = Len(s) - 1
           /\ \A i \in 1 .. Len(s) - 1 :
                RemoveAt(s, k)[i] = IF i < k THEN s[i] ELSE s[i + 1]
<1> DEFINE a == SubSeq(s, 1, k - 1)
           b == SubSeq(s, k + 1, Len(s))
<1>1. Len(s) \in Nat /\ \A i \in 1 .. Len(s) : s[i] \in S
  BY LenProperties, ElementOfSeq
<1>2. /\ a \in Seq(S) /\ Len(a) = k - 1
      /\ \A i \in 1 .. k - 1 : a[i] = s[i]
  BY <1>1, SubSeqProperties
<1>3. /\ b \in Seq(S) /\ Len(b) = Len(s) - k
      /\ \A i \in 1 .. Len(s) - k : b[i] = s[k + i]
  BY <1>1, SubSeqProperties
<1> HIDE DEF a, b
<1>4. /\ a \o b \in Seq(S) /\ Len(a \o b) = Len(s) - 1
      /\ \A i \in 1 .. Len(s) - 1 : (a \o b)[i] = IF i < k THEN a[i] ELSE b[i - (k - 1)]
  <2>1. Len(a) + Len(b) = Len(s) - 1 /\ Len(a) = k - 1
    BY <1>1, <1>2, <1>3
  <2>2. /\ a \o b \in Seq(S) /\ Len(a \o b) = Len(a) + Len(b)
        /\ \A i \in 1 .. Len(a) + Len(b) :
             (a \o b)[i] = IF i <= Len(a) THEN a[i] ELSE b[i - Len(a)]
    BY <1>2, <1>3, ConcatProperties
  <2>3. \A i \in 1 .. Len(s) - 1 : i <= k - 1 <=> i < k
    BY <1>1
  <2> QED
    BY <2>1, <2>2, <2>3
<1>5. ASSUME NEW i \in 1 .. Len(s) - 1
      PROVE  (a \o b)[i] = IF i < k THEN s[i] ELSE s[i + 1]
  <2>1. CASE i < k
    BY <1>1, <1>2, <1>4, <2>1
  <2>2. CASE i >= k
    <3>1. i - (k - 1) \in 1 .. Len(s) - k /\ k + (i - (k - 1)) = i + 1
      BY <1>1, <2>2
    <3> QED
      BY <1>1, <1>3, <1>4, <2>2, <3>1
  <2>3. i < k \/ i >= k
    BY <1>1
  <2> QED
    BY <2>1, <2>2, <2>3
<1> QED
  BY <1>4, <1>5 DEF RemoveAt, a, b

-----------------------------------------------------------------------------
\* LampLagsOne is not inductive: it rests on what is known of bat_status when
\* the lamp is driven, and that on what is still on the line.

IsReply(k) == k \in 1 .. Len(line) /\ line[k].type = "battery"

\* The reply to the present request is the last on the line, or was the last
\* to be handled; and no round begins with a reply outstanding.
LatestReply ==
    ~blame[1] =>
        /\ battery = "ask" => ~Pending
        /\ ~Pending => bat_status = now
        /\ \A k \in 1 .. Len(line) :
             IsReply(k) /\ (\A j \in (k + 1) .. Len(line) : ~IsReply(j)) => line[k].status = now

\* The reply to the request before was handled in its own round.
EarlierReply ==
    battery # "ask" /\ ~blame[2] =>
        /\ bat_status \in {before, now}
        /\ \A k \in 1 .. Len(line) : IsReply(k) => line[k].status = now

IInv ==
    /\ TypeOK
    /\ line \in Seq(LineFrame)
    /\ LatestReply
    /\ EarlierReply
    /\ LampLagsOne

-----------------------------------------------------------------------------
\* A lamp driven by a status shows that status.
LEMMA LampIdempotent ==
    ASSUME NEW status, NEW lamp
    PROVE  /\ Lamp(status, Lamp(status, lamp)) = Lamp(status, lamp)
           /\ lamp \in {"reset", "off", "blink"} => Lamp(status, lamp) \in {"reset", "off", "blink"}
<1>1. ASSUME NEW l
      PROVE  \/ status \in Charging /\ Lamp(status, l) = "blink"
             \/ status \notin Charging /\ status \in Discharging /\ Lamp(status, l) = "off"
             \/ status \notin Charging \cup Discharging /\ Lamp(status, l) = l
  <2>1. CASE status \in Charging
    <3>1. status \notin Discharging
      BY <2>1 DEF Charging, Discharging, BAT_STATUS_CHARGING_75, BAT_STATUS_CHARGING_50,
                  BAT_STATUS_CHARGING_25, BAT_STATUS_CHARGING_0
    <3> QED
      BY <2>1, <3>1 DEF Lamp
  <2>2. CASE status \notin Charging /\ status \in Discharging
    BY <2>2 DEF Lamp
  <2>3. CASE status \notin Charging /\ status \notin Discharging
    BY <2>3 DEF Lamp
  <2> QED
    BY <2>1, <2>2, <2>3
<1> DEFINE shown == Lamp(status, lamp)
<1>2. \/ status \in Charging /\ shown = "blink"
      \/ status \notin Charging /\ status \in Discharging /\ shown = "off"
      \/ status \notin Charging \cup Discharging /\ shown = lamp
  BY <1>1
<1>3. \/ status \in Charging /\ Lamp(status, shown) = "blink"
      \/ status \notin Charging /\ status \in Discharging /\ Lamp(status, shown) = "off"
      \/ status \notin Charging \cup Discharging /\ Lamp(status, shown) = shown
  BY <1>1
<1> HIDE DEF shown
<1>4. /\ Lamp(status, shown) = shown
      /\ lamp \in {"reset", "off", "blink"} => shown \in {"reset", "off", "blink"}
  BY <1>2, <1>3
<1> QED
  BY <1>4 DEF shown

\* The invariant holds at first.
LEMMA InitIInv == Init => IInv
<1> SUFFICES ASSUME Init PROVE IInv
  OBVIOUS
<1>1. Len(line) = 0 /\ 1 .. Len(line) = {}
  BY DEF Init
<1>2. TypeOK
  <2>1. 0 \in 0 .. MaxMishaps /\ 0 \in 0 .. MaxChanges /\ 0 <= MaxLine /\ 0 \in Byte
    BY BatteryLampAssumption DEF Byte
  <2> QED
    BY <1>1, <2>1 DEF Init, TypeOK
<1> QED
  BY <1>1, <1>2 DEF Init, IInv, LatestReply, EarlierReply, LampLagsOne, Pending

\* Every step keeps it.
LEMMA NextIInv == IInv /\ [Next]_vars => IInv'
<1> SUFFICES ASSUME IInv, [Next]_vars PROVE IInv'
  OBVIOUS
<1> USE DEF IInv
<1>0. /\ Len(line) \in Nat /\ level \in Byte
      /\ \A k \in 1 .. Len(line) : line[k] \in LineFrame
      /\ Pending <=> \E k \in 1 .. Len(line) : IsReply(k)
  <2>1. Len(line) \in Nat /\ \A k \in 1 .. Len(line) : line[k] \in LineFrame
    BY LenProperties, ElementOfSeq
  <2>2. level \in Byte
    BY BatteryLampAssumption DEF TypeOK
  <2> QED
    BY <2>1, <2>2 DEF Pending, IsReply
<1>1. CASE LevelChanges
  <2>1. level' \in Levels /\ changes' \in 0 .. MaxChanges
    BY <1>1, BatteryLampAssumption DEF LevelChanges, TypeOK
  <2> QED
    BY <1>1, <2>1 DEF LevelChanges, thread, TypeOK, LatestReply, EarlierReply, LampLagsOne, Pending,
                 IsReply
<1>2. CASE Press
  <2>1. /\ line' \in Seq(LineFrame) /\ Len(line') = Len(line) + 1 /\ Len(line') <= MaxLine
        /\ \A i \in 1 .. Len(line) : line'[i] = line[i]
        /\ line'[Len(line) + 1] = ButtonFrame
    BY <1>0, <1>2, FramesAreFrames, AppendProperties, BatteryLampAssumption DEF Press
  <2>2. TypeOK'
    BY <1>0, <1>2, <2>1, BatteryLampAssumption DEF Press, thread, TypeOK, ButtonFrame
  <2>3. \A k : IsReply(k)' <=> IsReply(k)
    BY <1>0, <2>1 DEF IsReply, ButtonFrame
  <2>4. Pending' <=> Pending
    BY <1>0, <2>1, <2>3 DEF Pending, IsReply
  <2>5. LatestReply'
    BY <1>0, <1>2, <2>1, <2>3, <2>4 DEF Press, thread, LatestReply, IsReply
  <2>6. EarlierReply'
    BY <1>0, <1>2, <2>1, <2>3 DEF Press, thread, EarlierReply, IsReply
  <2>7. LampLagsOne'
    BY <1>2 DEF Press, thread, LampLagsOne
  <2> QED
    BY <2>1, <2>2, <2>5, <2>6, <2>7
<1>3. CASE Lose
  <2>1. PICK k \in 1 .. Len(line) :
          /\ line' = RemoveAt(line, k)
          /\ blame' = IF line[k].type = "battery" THEN <<TRUE, blame[2]>> ELSE blame
    BY <1>3 DEF Lose
  <2>2. /\ line' \in Seq(LineFrame) /\ Len(line') = Len(line) - 1
        /\ \A i \in 1 .. Len(line) - 1 : line'[i] = IF i < k THEN line[i] ELSE line[i + 1]
    BY <2>1, RemoveAtProperties
  <2>3. Len(line') \in Nat /\ \A i \in 1 .. Len(line') : line'[i] \in LineFrame
    BY <2>2, LenProperties, ElementOfSeq
  <2>4. blame' \in BOOLEAN \X BOOLEAN /\ blame'[2] = blame[2] /\ (blame[1] => blame'[1])
    BY <2>1 DEF TypeOK
  <2>5. TypeOK'
    BY <1>0, <1>3, <2>2, <2>3, <2>4, BatteryLampAssumption DEF Lose, thread, TypeOK, LineFrame
  <2>6. ASSUME NEW i \in 1 .. Len(line')
        PROVE  \E j \in 1 .. Len(line) : /\ line'[i] = line[j] /\ j # k
                                         /\ j = IF i < k THEN i ELSE i + 1
    BY <1>0, <2>2
  <2>7. ASSUME NEW j \in 1 .. Len(line), j # k
        PROVE  \E i \in 1 .. Len(line') : /\ line'[i] = line[j]
                                          /\ j = IF i < k THEN i ELSE i + 1
    <3>1. CASE j < k
      BY <1>0, <2>2, <3>1
    <3>2. CASE j > k
      <4>1. j - 1 \in 1 .. Len(line') /\ ~(j - 1 < k) /\ line'[j - 1] = line[j]
        BY <1>0, <2>2, <3>2
      <4> QED
        BY <4>1
    <3> QED
      BY <2>7, <3>1, <3>2
  <2>8. LatestReply'
    <3> SUFFICES ASSUME ~blame'[1] PROVE LatestReply'
      BY DEF LatestReply
    <3>1. line[k].type # "battery" /\ ~blame[1] /\ blame' = blame
      BY <2>1, <2>4
    <3>2. Pending' => Pending
      BY <2>6 DEF Pending
    <3>3. Pending => Pending'
      BY <2>7, <3>1 DEF Pending
    <3>4. ASSUME NEW i \in 1 .. Len(line'), line'[i].type = "battery",
                 \A m \in (i + 1) .. Len(line') : ~(IsReply(m)')
          PROVE  line'[i].status = now
      <4>1. PICK j \in 1 .. Len(line) : /\ line'[i] = line[j] /\ j # k
                                        /\ j = IF i < k THEN i ELSE i + 1
        BY <2>6
      <4>2. ASSUME NEW n \in (j + 1) .. Len(line), IsReply(n)
            PROVE  FALSE
        <5>1. n # k /\ n \in 1 .. Len(line) /\ line[n].type = "battery"
          BY <3>1, <4>2 DEF IsReply
        <5>2. PICK m \in 1 .. Len(line') : /\ line'[m] = line[n]
                                           /\ n = IF m < k THEN m ELSE m + 1
          BY <2>7, <5>1
        <5>3. m \in (i + 1) .. Len(line')
          BY <1>0, <2>3, <4>1, <4>2, <5>2
        <5> QED
          BY <3>4, <5>1, <5>2, <5>3 DEF IsReply
      <4> QED
        BY <3>1, <3>4, <4>1, <4>2 DEF LatestReply, IsReply
    <3> QED
      BY <1>3, <3>1, <3>2, <3>3, <3>4 DEF Lose, thread, LatestReply, IsReply
  <2>9. EarlierReply'
    BY <1>3, <2>3, <2>4, <2>6 DEF Lose, thread, EarlierReply, IsReply
  <2>10. LampLagsOne'
    BY <1>3, <2>4 DEF Lose, thread, LampLagsOne
  <2> QED
    BY <2>2, <2>5, <2>8, <2>9, <2>10
<1>4. CASE TakeBattery
  <2>1. /\ line # <<>> /\ Head(line).type = "battery" /\ line' = Tail(line)
        /\ bat_status' = Head(line).status
        /\ UNCHANGED <<level, uart, thread, bounds, blame>>
    BY <1>4 DEF TakeBattery
  <2>2. /\ line' \in Seq(LineFrame) /\ Len(line') = Len(line) - 1
        /\ \A i \in 1 .. Len(line') : line'[i] = line[i + 1]
    BY <2>1, HeadTailProperties
  <2>3. Len(line) >= 1 /\ Head(line) = line[1] /\ IsReply(1)
    BY <1>0, <2>1, <2>2 DEF IsReply
  <2>4. /\ Len(line') \in Nat /\ \A i \in 1 .. Len(line') : line'[i] \in LineFrame
        /\ bat_status' \in Byte
    BY <1>0, <2>1, <2>2, <2>3, LenProperties, ElementOfSeq DEF LineFrame
  <2>5. TypeOK'
    BY <1>0, <2>1, <2>2, <2>4, BatteryLampAssumption DEF thread, bounds, TypeOK, LineFrame
  <2>6. \A i \in 1 .. Len(line') : i + 1 \in 1 .. Len(line) /\ (IsReply(i)' <=> IsReply(i + 1))
    BY <1>0, <2>2, <2>3 DEF IsReply
  <2>7. LatestReply'
    <3> SUFFICES ASSUME ~blame[1] PROVE LatestReply'
      BY <2>1 DEF LatestReply
    <3>1. battery # "ask"
      BY <1>0, <2>3 DEF LatestReply, Pending
    <3>2. ~Pending' => bat_status' = now
      <4> SUFFICES ASSUME ~Pending' PROVE line[1].status = now
        BY <2>1, <2>3
      <4>1. \A j \in 2 .. Len(line) : ~IsReply(j)
        <5> TAKE j \in 2 .. Len(line)
        <5>1. j - 1 \in 1 .. Len(line') /\ j = (j - 1) + 1
          BY <1>0, <2>2
        <5> QED
          BY <2>6, <5>1 DEF Pending, IsReply
      <4> QED
        BY <1>0, <2>3, <4>1 DEF LatestReply
    <3>3. ASSUME NEW i \in 1 .. Len(line'), IsReply(i)',
                 \A m \in (i + 1) .. Len(line') : ~(IsReply(m)')
          PROVE  line'[i].status = now
      <4>1. \A j \in (i + 2) .. Len(line) : ~IsReply(j)
        <5> TAKE j \in (i + 2) .. Len(line)
        <5>1. j - 1 \in (i + 1) .. Len(line') /\ j - 1 \in 1 .. Len(line') /\ j = (j - 1) + 1
          BY <1>0, <2>2
        <5> QED
          BY <2>6, <3>3, <5>1
      <4>2. i + 1 \in 1 .. Len(line) /\ IsReply(i + 1) /\ (i + 1) + 1 = i + 2
        BY <2>6, <3>3
      <4> QED
        BY <2>2, <4>1, <4>2 DEF LatestReply
    <3> QED
      BY <2>1, <3>1, <3>2, <3>3 DEF thread, LatestReply
  <2>8. EarlierReply'
    <3> SUFFICES ASSUME battery # "ask", ~blame[2] PROVE EarlierReply'
      BY <2>1 DEF thread, EarlierReply
    <3>1. bat_status' = now
      BY <1>0, <2>1, <2>3 DEF EarlierReply
    <3>2. \A i \in 1 .. Len(line') : IsReply(i)' => line'[i].status = now
      BY <2>2, <2>6 DEF EarlierReply
    <3> QED
      BY <2>1, <3>1, <3>2 DEF thread, EarlierReply
  <2>9. LampLagsOne'
    BY <2>1 DEF thread, LampLagsOne
  <2> QED
    BY <2>2, <2>5, <2>7, <2>8, <2>9
<1>5. CASE TakeButton
  <2>1. /\ line # <<>> /\ Head(line).type = "button" /\ line' = Tail(line)
        /\ uart' = "held"
        /\ UNCHANGED <<level, bat_status, thread, bounds, blame>>
    BY <1>5 DEF TakeButton
  <2>2. /\ line' \in Seq(LineFrame) /\ Len(line') = Len(line) - 1
        /\ \A i \in 1 .. Len(line') : line'[i] = line[i + 1]
    BY <2>1, HeadTailProperties
  <2>3. Len(line) >= 1 /\ Head(line) = line[1] /\ ~IsReply(1)
    BY <1>0, <2>1, <2>2 DEF IsReply
  <2>4. Len(line') \in Nat /\ \A i \in 1 .. Len(line') : line'[i] \in LineFrame
    BY <2>2, LenProperties, ElementOfSeq
  <2>5. TypeOK'
    BY <1>0, <2>1, <2>2, <2>4, BatteryLampAssumption DEF thread, bounds, TypeOK, LineFrame
  <2>6. \A i \in 1 .. Len(line') : i + 1 \in 1 .. Len(line) /\ (IsReply(i)' <=> IsReply(i + 1))
    BY <1>0, <2>2, <2>3 DEF IsReply
  <2>7. ASSUME NEW j \in 1 .. Len(line), IsReply(j)
        PROVE  /\ j - 1 \in 1 .. Len(line') /\ IsReply(j - 1)' /\ j = (j - 1) + 1
    <3>1. j # 1
      BY <2>3, <2>7
    <3>2. j - 1 \in 1 .. Len(line') /\ j = (j - 1) + 1
      BY <1>0, <2>2, <3>1
    <3> QED
      BY <2>6, <2>7, <3>2
  <2>8. Pending' <=> Pending
    BY <1>0, <2>6, <2>7 DEF Pending, IsReply
  <2>9. LatestReply'
    <3> SUFFICES ASSUME ~blame[1] PROVE LatestReply'
      BY <2>1 DEF LatestReply
    <3>1. ASSUME NEW i \in 1 .. Len(line'), IsReply(i)',
                 \A m \in (i + 1) .. Len(line') : ~(IsReply(m)')
          PROVE  line'[i].status = now
      <4>1. \A j \in (i + 2) .. Len(line) : ~IsReply(j)
        <5> TAKE j \in (i + 2) .. Len(line)
        <5>1. j - 1 \in (i + 1) .. Len(line') /\ j \in 1 .. Len(line)
          BY <1>0, <2>2
        <5> QED
          BY <2>7, <3>1, <5>1
      <4>2. i + 1 \in 1 .. Len(line) /\ IsReply(i + 1) /\ (i + 1) + 1 = i + 2
        BY <2>6, <3>1
      <4> QED
        BY <2>2, <4>1, <4>2 DEF LatestReply
    <3> QED
      BY <2>1, <2>8, <3>1 DEF thread, LatestReply
  <2>10. EarlierReply'
    BY <2>1, <2>2, <2>6 DEF thread, EarlierReply
  <2>11. LampLagsOne'
    BY <2>1 DEF thread, LampLagsOne
  <2> QED
    BY <2>2, <2>5, <2>9, <2>10, <2>11
<1>6. CASE Release
  BY <1>6 DEF Release, thread, bounds, TypeOK, LatestReply, EarlierReply, LampLagsOne, Pending,
              IsReply
<1>7. CASE AskBattery
  <2>1. /\ battery = "ask" /\ battery' = "compare"
        /\ line' = IF Room THEN Append(line, BatteryFrame) ELSE line
        /\ before' = now /\ now' = level
        /\ blame' = <<~Room, blame[1]>>
        /\ UNCHANGED <<level, uart, bat_status, led, bounds>>
    BY <1>7 DEF AskBattery
  <2>2. blame'[1] = ~Room /\ blame'[2] = blame[1] /\ blame' \in BOOLEAN \X BOOLEAN
    BY <2>1 DEF TypeOK, Room
  <2>3. CASE Room
    <3>1. /\ line' \in Seq(LineFrame) /\ Len(line') = Len(line) + 1 /\ Len(line') <= MaxLine
          /\ \A i \in 1 .. Len(line) : line'[i] = line[i]
          /\ line'[Len(line) + 1] = BatteryFrame
      BY <1>0, <2>1, <2>3, FramesAreFrames, AppendProperties, BatteryLampAssumption DEF Room
    <3>2. TypeOK'
      <4>1. \A i \in 1 .. Len(line') : line'[i] \in LineFrame
        BY <3>1, ElementOfSeq
      <4> QED
        BY <1>0, <2>1, <2>2, <3>1, <4>1 DEF bounds, TypeOK, LineFrame
    <3>n. PICK n \in 1 .. Len(line') : n = Len(line')
      BY <1>0, <3>1
    <3>3. IsReply(n)' /\ line'[n].status = now'
      BY <1>0, <2>1, <3>n, <3>1 DEF IsReply, BatteryFrame
    <3>4. LatestReply'
      <4>1. Pending' /\ battery' # "ask"
        BY <2>1, <3>3 DEF Pending, IsReply
      <4>2. ASSUME NEW k \in 1 .. Len(line'), \A j \in (k + 1) .. Len(line') : ~(IsReply(j)')
            PROVE  k = n
        <5>1. k # n => n \in (k + 1) .. Len(line')
          BY <1>0, <3>1, <3>n
        <5> QED
          BY <3>3, <4>2, <5>1
      <4> QED
        BY <3>3, <4>1, <4>2 DEF LatestReply
    <3>5. EarlierReply'
      <4> SUFFICES ASSUME ~blame[1] PROVE EarlierReply'
        BY <2>2 DEF EarlierReply
      <4>1. ~Pending /\ bat_status = now
        BY <2>1 DEF LatestReply
      <4>2. \A k \in 1 .. Len(line') : IsReply(k)' => k = n
        BY <1>0, <3>1, <3>n, <4>1 DEF IsReply
      <4> QED
        BY <2>1, <3>3, <4>1, <4>2 DEF EarlierReply
    <3>6. LampLagsOne'
      BY <2>1 DEF LampLagsOne
    <3> QED
      BY <3>1, <3>2, <3>4, <3>5, <3>6
  <2>4. CASE ~Room
    <3>1. line' = line /\ blame'[1]
      BY <2>1, <2>2, <2>4
    <3>2. TypeOK'
      BY <1>0, <2>1, <2>2, <3>1 DEF bounds, TypeOK
    <3>3. EarlierReply'
      <4> SUFFICES ASSUME ~blame[1] PROVE EarlierReply'
        BY <2>2 DEF EarlierReply
      <4>1. ~Pending /\ bat_status = now
        BY <2>1 DEF LatestReply
      <4> QED
        BY <1>0, <2>1, <3>1, <4>1 DEF EarlierReply, IsReply
    <3> QED
      BY <2>1, <3>1, <3>2, <3>3 DEF LatestReply, LampLagsOne
  <2> QED
    BY <2>3, <2>4
<1>8. CASE CompareStatus
  <2>1. /\ battery = "compare" /\ battery' = "sleep" /\ led' = Lamp(bat_status, led)
        /\ UNCHANGED <<level, line, uart, bat_status, before, now, bounds, blame>>
    BY <1>8 DEF CompareStatus
  <2>2. led' \in {"reset", "off", "blink"} /\ led' = Lamp(bat_status, led')
    BY <2>1, LampIdempotent DEF TypeOK
  <2>3. TypeOK'
    BY <2>1, <2>2 DEF bounds, TypeOK
  <2>4. LatestReply' /\ EarlierReply'
    BY <2>1 DEF LatestReply, EarlierReply, Pending, IsReply
  <2>5. LampLagsOne'
    BY <2>1, <2>2 DEF LampLagsOne, EarlierReply
  <2> QED
    BY <2>1, <2>3, <2>4, <2>5
<1>9. CASE Wake
  <2>1. /\ battery = "sleep" /\ battery' = "ask"
        /\ blame' = IF Pending THEN <<TRUE, blame[2]>> ELSE blame
        /\ UNCHANGED <<level, line, uart, bat_status, led, before, now, bounds>>
    BY <1>9 DEF Wake
  <2>2. blame' \in BOOLEAN \X BOOLEAN /\ (~blame'[1] => ~blame[1] /\ ~Pending)
    BY <2>1 DEF TypeOK
  <2>3. TypeOK'
    BY <2>1, <2>2 DEF bounds, TypeOK
  <2>4. LatestReply'
    BY <2>1, <2>2 DEF LatestReply, Pending, IsReply
  <2> QED
    BY <2>1, <2>3, <2>4 DEF EarlierReply, LampLagsOne
<1>10. CASE UNCHANGED vars
  BY <1>10
  DEF vars, thread, bounds, TypeOK, LatestReply, EarlierReply, LampLagsOne, Pending, IsReply
<1> QED
  BY <1>1, <1>2, <1>3, <1>4, <1>5, <1>6, <1>7, <1>8, <1>9, <1>10 DEF Next, EventThread, Battery

-----------------------------------------------------------------------------
\* The variables of the lamp and the threads around it keep their types.
THEOREM TypeCorrect == Spec => []TypeOK
  BY InitIInv, NextIInv, PTL DEF Spec, IInv

\* After a round whose reply was handled in time, LED 1 shows the status the
\* panel had at one of the last two requests, for any statuses, any room on
\* the line and any number of losses and presses: compare_battery_status lags
\* one round at most.
THEOREM LampLags == Spec => []LampLagsOne
  BY InitIInv, NextIInv, PTL DEF Spec, IInv
=============================================================================
