------------------------ MODULE TemplateStore_proofs ------------------------
(***************************************************************************)
(* Proofs about TemplateStore for every number of slots, files and         *)
(* touches, every set of fingers and every number of operations and power  *)
(* cuts.                                                                   *)
(***************************************************************************)
EXTENDS TemplateStore, FiniteSetTheorems, TLAPS

-----------------------------------------------------------------------------
\* An array as it reads: what lies behind its end reads as zero.
Read(array, k, zero) == IF k \in DOMAIN array THEN array[k] ELSE zero

\* What fingerprint.bin says of a slot.
Own        == IF OwnName \in Present THEN mnt[OwnName] ELSE EmptyFile
FileId(k)  == Read(Own.ids, k, 0)
FileTpl(k) == Read(Own.tpls, k, {})

\* The fingers a slot matches now, and those it would match after a restart.
Has(j)   == IF id[j] # 0 THEN tpl[j] ELSE {}
Would(k) == IF FileId(k) # 0 THEN FileTpl(k) ELSE {}

\* The slots of the own file that are loaded, when there is no other.
LoadedSlots == 0 .. (FINGER_COUNT_SUPPORT - 1)

\* No save of slot k is under way.
Settled(k) == saving.next = "none" \/ saving.slot # k

Failures == unopened + unread + torn
OneTorn  == unopened = 0 /\ unread = 0 /\ torn <= 1

-----------------------------------------------------------------------------
\* Whatever files there are: a process that has loaded nothing knows nothing,
\* an enrolment under way has its fingers in the slot it will fill, and knows
\* none of them, and a save has written what it has come past.
Phases ==
    /\ saving.next = "none" => saving = Idle
    /\ mode = "START" => saving = Idle /\ \A j \in Slots : id[j] = 0 /\ tpl[j] = {}
    /\ mode = "ENROLL" =>
         /\ saving = Idle
         /\ FreeSlots # {} /\ tpl[Lowest(FreeSlots)] = touched
         /\ \A f \in touched : ~Known(f)

Writes ==
    /\ saving.next \in {"num", "id", "area", "tpl"} => OwnName \in Present
    /\ saving.next # "none" /\ id[saving.slot] = 0 => tpl[saving.slot] = {}
    /\ saving.for = "delete" => id[saving.slot] = 0
    /\ saving.next \in {"area", "tpl"} => FileId(saving.slot) = id[saving.slot]
    /\ saving.next = "tpl" \/ DOMAIN Own.tpls # {} => DOMAIN Own.ids = FileSlots

\* Other persons' files stay as they were copied to /mnt.
Complete ==
    /\ IsFiniteSet(Present)
    /\ \A n \in Others :
         /\ DOMAIN mnt[n].ids = FileSlots
         /\ \A k \in FileSlots : mnt[n].ids[k] # 0 => k \in DOMAIN mnt[n].tpls

-----------------------------------------------------------------------------
\* A device without other files.

\* An ID lies in its own slot.
InPlace ==
    /\ \A j \in Slots : id[j] # 0 => j \in FileSlots /\ id[j] = j + 1
    /\ \A k \in FileSlots : FileId(k) \in {0, k + 1}

\* When every save and every first load was opened, the file says what the
\* memory does, of the slots that are loaded and not being saved.
FileAgrees ==
    unopened = 0 /\ unread = 0 /\ mode # "START" =>
        \A k \in LoadedSlots : Settled(k) => FileId(k) = id[k] /\ Would(k) = Has(k)

\* Without failures, the file holds no templates without an ID, but for those
\* of a save under way.
NothingLeft ==
    Failures = 0 =>
        \A k \in LoadedSlots :
            IF Settled(k) THEN FileId(k) = 0 => FileTpl(k) = {}
                          ELSE FileTpl(k) \subseteq saving.was

\* What the save under way was called for.
WasHeld ==
    saving.next # "none" =>
        /\ OneTorn => /\ saving.was \cap gone = {}
                      /\ \A j \in FileSlots \ {saving.slot} : saving.was \cap Has(j) = {}
        /\ Failures = 0 => saving.was \subseteq under[saving.slot + 1]

\* The fingers known are not gone and not known twice: now ...
HasDistinct ==
    OneTorn =>
        \A j \in FileSlots :
            /\ Has(j) \cap gone = {}
            /\ \A i \in FileSlots \ {j} : Has(i) \cap Has(j) = {}

\* ... and when a process that has just started has loaded them.
WouldDistinct ==
    OneTorn /\ mode = "START" =>
        \A j \in LoadedSlots :
            /\ Would(j) \cap gone = {}
            /\ \A i \in LoadedSlots \ {j} : Would(i) \cap Would(j) = {}

\* An ID stands for the fingers enrolled under it, now and after a restart.
HasUnder == Failures <= 1 => \A j \in FileSlots : Has(j) \subseteq under[j + 1]

WouldUnder ==
    Failures <= 1 =>
        \A k \in LoadedSlots : Failures = 0 \/ Settled(k) => Would(k) \subseteq under[k + 1]

\* An ID without templates in the file is one of a save that was torn, and then
\* the memory has that ID, too.
TornKnown ==
    Failures <= 1 /\ mode # "START" =>
        \A k \in LoadedSlots :
            Settled(k) /\ FileId(k) # 0 /\ k \notin DOMAIN Own.tpls => id[k] # 0

NoneTorn ==
    Failures = 0 =>
        \A k \in LoadedSlots :
            (Settled(k) \/ saving.next = "open") /\ FileId(k) # 0 => k \in DOMAIN Own.tpls

Sound ==
    /\ InPlace /\ FileAgrees /\ NothingLeft /\ WasHeld
    /\ HasDistinct /\ WouldDistinct /\ HasUnder /\ WouldUnder
    /\ TornKnown /\ NoneTorn

Alone == Others = {} => Sound

AnyInv == TypeOK /\ Phases /\ Writes /\ Complete

IInv == AnyInv /\ Alone

-----------------------------------------------------------------------------
(***************************************************************************)
(* Numbers, sets of numbers and arrays.                                    *)
(***************************************************************************)

\* Where a file's slots come to lie in the table.
LEMMA DivMod ==
    ASSUME NEW q \in Nat, NEW d \in Nat \ {0}, NEW r \in 0 .. (d - 1)
    PROVE  (q * d + r) \div d = q /\ (q * d + r) % d = r
BY SMT

\* Numbers below the divisor.
LEMMA DivZero ==
    ASSUME NEW j \in Nat, NEW d \in Nat \ {0}
    PROVE  /\ j \div d = 0 <=> j < d
           /\ j < d => j % d = j
BY SMT

\* A place in a file that is in the table has its place there.
LEMMA DivRange ==
    ASSUME NEW q \in Nat, NEW p \in Nat, NEW d \in Nat \ {0}, NEW r \in 0 .. (d - 1), q < p
    PROVE  q * d + r \in 0 .. (d * p - 1)
BY SMT

\* Lowest is what its name says: a set of naturals has a least element, because
\* of the sets 0 .. m there is a smallest.
LEMMA LowestIs ==
    ASSUME NEW S \in SUBSET Nat, S # {}
    PROVE  Lowest(S) \in S /\ \A m \in S : Lowest(S) <= m
<1> DEFINE T == {0 .. m : m \in S}
<1>1. T \subseteq FiniteSubsetsOf(Nat) /\ T # {}
  <2>1. ASSUME NEW m \in S PROVE 0 .. m \in FiniteSubsetsOf(Nat)
    <3>1. 0 .. m \subseteq Nat
      BY SMT
    <3>2. IsFiniteSet(0 .. m)
      BY FS_Interval
    <3>. QED  BY <3>1, <3>2 DEF FiniteSubsetsOf
  <2>. QED  BY <2>1
<1>2. \E X \in T : \A Y \in T : <<Y, X>> \notin StrictSubsetOrdering(Nat)
  BY <1>1, WFMin, FS_StrictSubsetOrderingWellFounded
<1>3. PICK j \in S : \A Y \in T : <<Y, 0 .. j>> \notin StrictSubsetOrdering(Nat)
  BY <1>2
<1>4. ASSUME NEW m \in S PROVE j <= m
  <2>1. <<0 .. m, 0 .. j>> \notin StrictSubsetOrdering(Nat)
    BY <1>3
  <2>2. ~(0 .. m \subseteq 0 .. j /\ 0 .. m # 0 .. j)
    BY <2>1 DEF StrictSubsetOrdering
  <2>3. CASE m < j
    <3>1. 0 .. m \subseteq 0 .. j
      BY <2>3
    <3>2. j \in 0 .. j /\ j \notin 0 .. m
      BY <2>3
    <3>. QED  BY <2>2, <3>1, <3>2
  <2>. QED  BY <2>3
<1> QED
  BY <1>4 DEF Lowest

\* Slots of files are slots of the table, and IDs are slots counted from one.
LEMMA SlotsAre ==
    /\ FINGER_COUNT \in Nat \ {0} /\ FINGER_COUNT_SUPPORT \in Nat \ {0}
    /\ PERSON_COUNT \in Nat \ {0} /\ ENROLL_COUNT \in Nat \ {0}
    /\ LoadedSlots \subseteq FileSlots /\ FileSlots \subseteq Slots /\ Slots \subseteq Nat
    /\ FingerIds \subseteq Nat /\ 0 \in FingerIds /\ 0 \in FileSlots
    /\ \A j \in FileSlots : j + 1 \in FingerIds \ {0}
    /\ \A i \in FingerIds \ {0} : i - 1 \in FileSlots
<1>1. /\ FINGER_COUNT \in Nat \ {0} /\ FINGER_COUNT_SUPPORT \in Nat \ {0}
      /\ PERSON_COUNT \in Nat \ {0} /\ ENROLL_COUNT \in Nat \ {0}
  BY TemplateStoreAssumption
<1>2. LoadedSlots \subseteq FileSlots /\ FileSlots \subseteq Slots /\ Slots \subseteq Nat
  BY <1>1, TemplateStoreAssumption DEF LoadedSlots, FileSlots, Slots
<1>3. FingerIds \subseteq Nat /\ 0 \in FingerIds /\ 0 \in FileSlots
  BY <1>1 DEF FingerIds, FileSlots
<1>4. /\ \A j \in FileSlots : j + 1 \in FingerIds \ {0}
      /\ \A i \in FingerIds \ {0} : i - 1 \in FileSlots
  BY <1>1 DEF FingerIds, FileSlots
<1>. QED  BY <1>1, <1>2, <1>3, <1>4

\* A file that was just created, and one entry written.
LEMMA EmptyIsArray ==
    ASSUME NEW S, NEW n \in Nat
    PROVE  IsArray(<<>>, n, S) /\ DOMAIN <<>> = {}
<1>1. <<>> \in [0 .. (0 - 1) -> S] /\ 0 \in 0 .. n
  OBVIOUS
<1>2. DOMAIN <<>> = {}
  OBVIOUS
<1>. QED  BY <1>1, <1>2 DEF IsArray

\* An array that is not empty has a first entry.
LEMMA NotEmptyArray ==
    ASSUME NEW S, NEW n \in Nat, NEW array, IsArray(array, n, S), array # <<>>
    PROVE  0 \in DOMAIN array /\ array[0] \in S
<1>1. PICK m \in 0 .. n : array \in [0 .. (m - 1) -> S]
  BY DEF IsArray
<1>2. m # 0
  <2>1. ASSUME m = 0 PROVE FALSE
    <3>1. array \in [0 .. (0 - 1) -> S]
      BY <1>1, <2>1
    <3>2. array = <<>>
      BY <3>1
    <3>. QED  BY <3>2
  <2>. QED  BY <2>1
<1>. QED  BY <1>1, <1>2

\* What is read of an array is of its type.
LEMMA ArrayEntries ==
    ASSUME NEW S, NEW n \in Nat, NEW array, IsArray(array, n, S)
    PROVE  /\ DOMAIN array \subseteq 0 .. (n - 1)
           /\ \A k \in DOMAIN array : array[k] \in S
           /\ \A zero \in S : \A k : Read(array, k, zero) \in S
<1>1. PICK m \in 0 .. n : array \in [0 .. (m - 1) -> S]
  BY DEF IsArray
<1>. QED  BY <1>1 DEF Read

\* A write changes what is read at its place and nowhere else.
LEMMA WrittenReads ==
    ASSUME NEW array, NEW k \in FileSlots, NEW entry, NEW zero
    PROVE  /\ Read(Written(array, k, entry, zero), k, zero) = entry
           /\ \A m : m # k =>
                Read(Written(array, k, entry, zero), m, zero) = Read(array, m, zero)
<1> DEFINE new == Written(array, k, entry, zero)
<1>1. DOMAIN new = DOMAIN array \cup 0 .. k
  BY DEF Written
<1>2. k \in 0 .. k
  BY SlotsAre
<1>3. \A i \in DOMAIN array \cup 0 .. k :
        new[i] = IF i = k THEN entry ELSE IF i \in DOMAIN array THEN array[i] ELSE zero
  BY DEF Written
<1>. QED  BY <1>1, <1>2, <1>3 DEF Read

\* What a write leaves is an array again, padded up to the place.
LEMMA WrittenIsArray ==
    ASSUME NEW S, NEW array, IsArray(array, FINGER_COUNT, S),
           NEW k \in FileSlots, NEW entry \in S, NEW zero \in S
    PROVE  IsArray(Written(array, k, entry, zero), FINGER_COUNT, S)
<1> DEFINE new == Written(array, k, entry, zero)
<1>1. PICK m \in 0 .. FINGER_COUNT : array \in [0 .. (m - 1) -> S]
  BY DEF IsArray
<1>2. DOMAIN new = DOMAIN array \cup 0 .. k
  BY DEF Written
<1>3. k \in 0 .. (FINGER_COUNT - 1) /\ FINGER_COUNT \in Nat
  BY SlotsAre DEF FileSlots
<1>4. PICK l \in 0 .. FINGER_COUNT : 0 .. (l - 1) = DOMAIN array \cup 0 .. k
  <2>1. CASE k < m
    <3>1. 0 .. (m - 1) = DOMAIN array \cup 0 .. k
      BY <1>1, <1>3, <2>1
    <3>. QED  BY <3>1
  <2>2. CASE ~(k < m)
    <3>1. 0 .. (k + 1 - 1) = DOMAIN array \cup 0 .. k
      BY <1>1, <1>3, <2>2
    <3>2. PICK l \in 0 .. FINGER_COUNT : l = k + 1
      BY <1>3
    <3>3. l - 1 = k + 1 - 1
      BY <1>3, <3>2
    <3>4. 0 .. (l - 1) = DOMAIN array \cup 0 .. k
      BY <3>1, <3>3
    <3>. QED  BY <3>4
  <2>. QED  BY <2>1, <2>2
<1>5. \A i \in DOMAIN array \cup 0 .. k : new[i] \in S
  BY <1>1 DEF Written
<1>6. new \in [0 .. (l - 1) -> S]
  BY <1>2, <1>4, <1>5 DEF Written
<1>. QED  BY <1>4, <1>6 DEF IsArray

-----------------------------------------------------------------------------
(***************************************************************************)
(* What an action does to the file, as it reads.                           *)
(***************************************************************************)
LEMMA OwnTyped ==
    ASSUME TypeOK
    PROVE  /\ IsFile(Own)
           /\ DOMAIN Own.ids \subseteq FileSlots /\ DOMAIN Own.tpls \subseteq FileSlots
           /\ \A k : FileId(k) \in FingerIds /\ FileTpl(k) \in SUBSET Fingers
<1>1. IsFile(EmptyFile)
  BY EmptyIsArray, SlotsAre DEF IsFile, EmptyFile
<1>2. IsFile(Own)
  BY <1>1 DEF Own, TypeOK, Present
<1>3. IsArray(Own.ids, FINGER_COUNT, FingerIds) /\ IsArray(Own.tpls, FINGER_COUNT, SUBSET Fingers)
  BY <1>2 DEF IsFile
<1>4. {} \in SUBSET Fingers /\ 0 \in FingerIds
  BY SlotsAre
<1>5. /\ DOMAIN Own.ids \subseteq FileSlots /\ DOMAIN Own.tpls \subseteq FileSlots
  BY <1>3, ArrayEntries, SlotsAre DEF FileSlots
<1>6. \A k : FileId(k) \in FingerIds
  BY <1>3, <1>4, ArrayEntries, SlotsAre DEF FileId
<1>7. \A k : FileTpl(k) \in SUBSET Fingers
  BY <1>3, <1>4, ArrayEntries, SlotsAre DEF FileTpl
<1>. QED  BY <1>2, <1>5, <1>6, <1>7

\* Only the own file is written, and it is a file afterwards.
OwnAlone ==
    /\ Present \subseteq Present' /\ Present' \subseteq Present \cup {OwnName}
    /\ \A n \in Others : mnt'[n] = mnt[n]
    /\ \A n \in Present' : IsFile(mnt[n]')

\* An untouched disk reads the same.
LEMMA SameFile ==
    ASSUME TypeOK, UNCHANGED mnt
    PROVE  /\ OwnAlone /\ Own' = Own
           /\ \A k : FileId(k)' = FileId(k) /\ FileTpl(k)' = FileTpl(k)
<1>1. Own' = Own
  BY DEF Own, Present
<1>2. OwnAlone
  BY DEF OwnAlone, TypeOK, Present, Others
<1>. QED  BY <1>1, <1>2 DEF FileId, FileTpl

\* Opening creates the own file if there is none; it reads the same.
LEMMA OpenDoes ==
    ASSUME TypeOK,
           mnt' = [n \in Present \cup {OwnName} |-> IF n \in Present THEN mnt[n] ELSE EmptyFile]
    PROVE  /\ OwnAlone /\ OwnName \in Present' /\ Own' = Own
           /\ \A k : FileId(k)' = FileId(k) /\ FileTpl(k)' = FileTpl(k)
<1>1. Present' = Present \cup {OwnName} /\ OwnName \in Present'
  BY DEF Present
<1>2. \A n \in Present : mnt'[n] = mnt[n]
  BY DEF Present
<1>3. Own' = Own
  BY <1>1 DEF Own
<1>4. IsFile(Own)
  BY OwnTyped
<1>5. mnt'[OwnName] = Own
  BY <1>1, <1>3 DEF Own
<1>6. OwnAlone
  BY <1>1, <1>2, <1>4, <1>5 DEF OwnAlone, TypeOK, Present, Others
<1>. QED  BY <1>1, <1>3, <1>6 DEF FileId, FileTpl

\* A write replaces one array of the file.
LEMMA WriteDoes ==
    ASSUME TypeOK, OwnName \in Present, NEW file, IsFile(file),
           DOMAIN mnt' = DOMAIN mnt, mnt'[OwnName] = file,
           \A n \in Present : n # OwnName => mnt'[n] = mnt[n]
    PROVE  /\ OwnAlone /\ OwnName \in Present' /\ Own' = file /\ Own = mnt[OwnName]
<1>1. Present' = Present
  BY DEF Present
<1>2. Own' = file /\ Own = mnt[OwnName]
  BY <1>1 DEF Own
<1>3. OwnAlone
  BY <1>1 DEF OwnAlone, TypeOK, Present, Others
<1>. QED  BY <1>1, <1>2, <1>3

\* Writing the number changes neither IDs nor templates.
LEMMA NumDoes ==
    ASSUME TypeOK, OwnName \in Present, SaveNum
    PROVE  /\ OwnAlone /\ OwnName \in Present'
           /\ Own'.ids = Own.ids /\ Own'.tpls = Own.tpls
           /\ \A k : FileId(k)' = FileId(k) /\ FileTpl(k)' = FileTpl(k)
<1> DEFINE old == mnt[OwnName]
           new == Written(old.num, 0, num, 0)
           file == [num |-> new, ids |-> old.ids, tpls |-> old.tpls]
<1>1. IsFile(old)
  BY DEF TypeOK, Present
<1>2. IsArray(new, 1, Int)
  <2>1. PICK m \in 0 .. 1 : old.num \in [0 .. (m - 1) -> Int]
    BY <1>1 DEF IsFile, IsArray
  <2>2. DOMAIN new = 0 .. (1 - 1) /\ \A i \in DOMAIN new : new[i] \in Int
    BY <2>1 DEF Written, TypeOK
  <2>3. new \in [0 .. (1 - 1) -> Int]
    BY <2>2 DEF Written
  <2>. QED  BY <2>3 DEF IsArray
<1>3. IsFile(file)
  BY <1>1, <1>2 DEF IsFile
<1>4. /\ DOMAIN mnt' = DOMAIN mnt /\ \A n \in Present : n # OwnName => mnt'[n] = mnt[n]
      /\ mnt'[OwnName] = [old EXCEPT !.num = new]
  BY DEF SaveNum, Present
<1>5. [old EXCEPT !.num = new] = file
  BY <1>1 DEF IsFile
<1> HIDE DEF file
<1>6. OwnAlone /\ OwnName \in Present' /\ Own' = file /\ Own = old
  BY <1>3, <1>4, <1>5, WriteDoes
<1>7. Own'.ids = Own.ids /\ Own'.tpls = Own.tpls
  BY <1>6 DEF file
<1>. QED  BY <1>6, <1>7 DEF FileId, FileTpl

\* Writing the ID changes the ID of one slot.
LEMMA IdDoes ==
    ASSUME TypeOK, OwnName \in Present, SaveId
    PROVE  /\ OwnAlone /\ OwnName \in Present'
           /\ DOMAIN Own'.ids = DOMAIN Own.ids \cup 0 .. saving.slot /\ Own'.tpls = Own.tpls
           /\ \A k : FileId(k)' = IF k = saving.slot THEN id[saving.slot] ELSE FileId(k)
           /\ \A k : FileTpl(k)' = FileTpl(k)
<1> DEFINE old == mnt[OwnName]
           s   == saving.slot
           new == Written(old.ids, s, id[s], 0)
           file == [num |-> old.num, ids |-> new, tpls |-> old.tpls]
<1>1. IsFile(old)
  BY DEF TypeOK, Present
<1>2. /\ IsArray(new, FINGER_COUNT, FingerIds) /\ DOMAIN new = DOMAIN old.ids \cup 0 .. s
      /\ \A m : Read(new, m, 0) = IF m = s THEN id[s] ELSE Read(old.ids, m, 0)
  <2>1. IsArray(old.ids, FINGER_COUNT, FingerIds) /\ s \in FileSlots
    BY <1>1 DEF IsFile, TypeOK
  <2>2. id[s] \in FingerIds /\ 0 \in FingerIds
    BY <2>1, SlotsAre DEF TypeOK
  <2>4. IsArray(new, FINGER_COUNT, FingerIds)
    BY <2>1, <2>2, WrittenIsArray
  <2>6. DOMAIN new = DOMAIN old.ids \cup 0 .. s
    BY DEF Written
  <2>7. Read(new, s, 0) = id[s]
    BY <2>1, WrittenReads
  <2>8. \A m : m # s => Read(new, m, 0) = Read(old.ids, m, 0)
    BY <2>1, WrittenReads
  <2> HIDE DEF new
  <2>. QED  BY <2>4, <2>6, <2>7, <2>8
<1>3. IsFile(file)
  BY <1>1, <1>2 DEF IsFile
<1>4. /\ DOMAIN mnt' = DOMAIN mnt /\ \A n \in Present : n # OwnName => mnt'[n] = mnt[n]
      /\ mnt'[OwnName] = [old EXCEPT !.ids = new]
  BY DEF SaveId, Present
<1>5. [old EXCEPT !.ids = new] = file
  BY <1>1 DEF IsFile
<1> HIDE DEF file
<1>6. OwnAlone /\ OwnName \in Present' /\ Own' = file /\ Own = old
  BY <1>3, <1>4, <1>5, WriteDoes
<1>7. Own'.ids = new /\ Own'.tpls = Own.tpls
  BY <1>6 DEF file
<1> HIDE DEF new
<1>. QED  BY <1>2, <1>6, <1>7 DEF FileId, FileTpl

\* Writing the areas pads the IDs and changes none.
LEMMA AreaDoes ==
    ASSUME TypeOK, OwnName \in Present, SaveArea
    PROVE  /\ OwnAlone /\ OwnName \in Present'
           /\ DOMAIN Own'.ids = FileSlots /\ Own'.tpls = Own.tpls
           /\ \A k : FileId(k)' = FileId(k) /\ FileTpl(k)' = FileTpl(k)
<1> DEFINE old == mnt[OwnName]
           new == [m \in FileSlots |-> IF m \in DOMAIN old.ids THEN old.ids[m] ELSE 0]
           file == [num |-> old.num, ids |-> new, tpls |-> old.tpls]
<1>1. IsFile(old)
  BY DEF TypeOK, Present
<1>2. IsArray(new, FINGER_COUNT, FingerIds) /\ DOMAIN new = FileSlots
  <2>1. IsArray(old.ids, FINGER_COUNT, FingerIds)
    BY <1>1 DEF IsFile
  <2>2. \A m \in DOMAIN old.ids : old.ids[m] \in FingerIds
    BY <2>1, SlotsAre, ArrayEntries
  <2>3. new \in [0 .. (FINGER_COUNT - 1) -> FingerIds]
    BY <2>2, SlotsAre DEF FileSlots
  <2>. QED  BY <2>3, SlotsAre DEF IsArray
<1>3. IsFile(file)
  BY <1>1, <1>2 DEF IsFile
<1>4. /\ DOMAIN mnt' = DOMAIN mnt /\ \A n \in Present : n # OwnName => mnt'[n] = mnt[n]
      /\ mnt'[OwnName] = [old EXCEPT !.ids = new]
  BY DEF SaveArea, Present
<1>5. [old EXCEPT !.ids = new] = file
  BY <1>1 DEF IsFile
<1> HIDE DEF file
<1>6. OwnAlone /\ OwnName \in Present' /\ Own' = file /\ Own = old
  BY <1>3, <1>4, <1>5, WriteDoes
<1>7. Own'.ids = new /\ Own'.tpls = Own.tpls
  BY <1>6 DEF file
<1>8. \A k : Read(new, k, 0) = Read(old.ids, k, 0)
  <2>1. DOMAIN Own.ids \subseteq FileSlots
    BY OwnTyped
  <2>. QED  BY <1>6, <2>1 DEF Read
<1> HIDE DEF new
<1>. QED  BY <1>2, <1>6, <1>7, <1>8 DEF FileId, FileTpl

\* Writing the templates changes those of one slot.
LEMMA TplDoes ==
    ASSUME TypeOK, OwnName \in Present, SaveTpl
    PROVE  /\ OwnAlone /\ OwnName \in Present'
           /\ Own'.ids = Own.ids /\ DOMAIN Own'.tpls = DOMAIN Own.tpls \cup 0 .. saving.slot
           /\ \A k : FileTpl(k)' = IF k = saving.slot THEN tpl[saving.slot] ELSE FileTpl(k)
           /\ \A k : FileId(k)' = FileId(k)
<1> DEFINE old == mnt[OwnName]
           s   == saving.slot
           new == Written(old.tpls, s, tpl[s], {})
           file == [num |-> old.num, ids |-> old.ids, tpls |-> new]
<1>1. IsFile(old)
  BY DEF TypeOK, Present
<1>2. /\ IsArray(new, FINGER_COUNT, SUBSET Fingers) /\ DOMAIN new = DOMAIN old.tpls \cup 0 .. s
      /\ \A m : Read(new, m, {}) = IF m = s THEN tpl[s] ELSE Read(old.tpls, m, {})
  <2>1. IsArray(old.tpls, FINGER_COUNT, SUBSET Fingers) /\ s \in FileSlots
    BY <1>1 DEF IsFile, TypeOK
  <2>2. tpl[s] \in SUBSET Fingers /\ {} \in SUBSET Fingers
    BY <2>1, SlotsAre DEF TypeOK
  <2>4. IsArray(new, FINGER_COUNT, SUBSET Fingers)
    BY <2>1, <2>2, WrittenIsArray
  <2>6. DOMAIN new = DOMAIN old.tpls \cup 0 .. s
    BY DEF Written
  <2>7. Read(new, s, {}) = tpl[s]
    BY <2>1, WrittenReads
  <2>8. \A m : m # s => Read(new, m, {}) = Read(old.tpls, m, {})
    BY <2>1, WrittenReads
  <2> HIDE DEF new
  <2>. QED  BY <2>4, <2>6, <2>7, <2>8
<1>3. IsFile(file)
  BY <1>1, <1>2 DEF IsFile
<1>4. /\ DOMAIN mnt' = DOMAIN mnt /\ \A n \in Present : n # OwnName => mnt'[n] = mnt[n]
      /\ mnt'[OwnName] = [old EXCEPT !.tpls = new]
  BY DEF SaveTpl, Present
<1>5. [old EXCEPT !.tpls = new] = file
  BY <1>1 DEF IsFile
<1> HIDE DEF file
<1>6. OwnAlone /\ OwnName \in Present' /\ Own' = file /\ Own = old
  BY <1>3, <1>4, <1>5, WriteDoes
<1>7. Own'.tpls = new /\ Own'.ids = Own.ids
  BY <1>6 DEF file
<1> HIDE DEF new
<1>. QED  BY <1>2, <1>6, <1>7 DEF FileId, FileTpl

-----------------------------------------------------------------------------
(***************************************************************************)
(* Types.                                                                  *)
(***************************************************************************)
LEMMA IdleTyped ==
    Idle \in [slot : FileSlots, next : {"none", "open", "num", "id", "area", "tpl"},
              for : {"none", "enrol", "delete", "renew"}, was : SUBSET Fingers]
BY SlotsAre DEF Idle

\* The table of a process that begins.
LEMMA FreshTyped ==
    /\ [j \in Slots |-> 0] \in [Slots -> FingerIds]
    /\ [j \in Slots |-> {}] \in [Slots -> SUBSET Fingers]
    /\ 0 \in 0 .. (ENROLL_COUNT - 1)
BY SlotsAre

\* The table after a load.
LEMMA LoadedTyped ==
    ASSUME TypeOK, NEW opened \in SUBSET Present
    PROVE  /\ LoadedNum(opened) \in Int
           /\ [j \in Slots |-> Loaded(opened, j, [n \in Present |-> mnt[n].ids], id[j])]
                \in [Slots -> FingerIds]
           /\ [j \in Slots |-> Loaded(opened, j, [n \in Present |-> mnt[n].tpls], tpl[j])]
                \in [Slots -> SUBSET Fingers]
<1>1. \A n \in Present : IsFile(mnt[n])
  BY DEF TypeOK, Present
<1>2. LoadedNum(opened) \in Int
  <2> DEFINE counted == {n \in opened : mnt[n].num # <<>>}
  <2>1. CASE counted = {}
    BY <2>1 DEF LoadedNum, TypeOK
  <2>2. CASE counted # {}
    <3>1. counted \in SUBSET Nat
      BY TemplateStoreAssumption DEF TypeOK, Present
    <3>2. Lowest(counted) \in counted
      BY <2>2, <3>1, LowestIs
    <3>3. PICK first : first = Lowest(counted)
      OBVIOUS
    <3>4. IsArray(mnt[first].num, 1, Int) /\ mnt[first].num # <<>>
      BY <1>1, <3>2, <3>3 DEF IsFile
    <3>5. mnt[first].num[0] \in Int
      BY <3>4, NotEmptyArray
    <3>6. Capped(mnt[first].num[0]) \in Int
      BY <3>5, SlotsAre DEF Capped
    <3>7. LoadedNum(opened) = Capped(mnt[first].num[0])
      BY <2>2, <3>3 DEF LoadedNum, Lowest
    <3>. QED  BY <3>6, <3>7
  <2>. QED  BY <2>1, <2>2
<1>3. ASSUME NEW S, NEW j, NEW old \in S, NEW part,
             \A n \in Present : \A k \in DOMAIN part[n] : part[n][k] \in S
      PROVE  Loaded(opened, j, part, old) \in S
  <2>1. PICK source : source = {n \in Source(j) \cap opened :
                                  j % FINGER_COUNT_SUPPORT \in DOMAIN part[n]}
    OBVIOUS
  <2>2. source # {} => (CHOOSE n \in source : TRUE) \in source
    OBVIOUS
  <2>. QED  BY <1>3, <2>1, <2>2 DEF Loaded
<1>4. ASSUME NEW j \in Slots
      PROVE  Loaded(opened, j, [n \in Present |-> mnt[n].ids], id[j]) \in FingerIds
  <2> DEFINE part == [n \in Present |-> mnt[n].ids]
  <2>1. ASSUME NEW n \in Present, NEW k \in DOMAIN part[n] PROVE part[n][k] \in FingerIds
    BY <1>1, ArrayEntries, SlotsAre DEF IsFile
  <2>2. id[j] \in FingerIds
    BY DEF TypeOK
  <2> HIDE DEF part
  <2>3. Loaded(opened, j, part, id[j]) \in FingerIds
    BY <1>3, <2>1, <2>2
  <2>. QED  BY <2>3 DEF part
<1>5. ASSUME NEW j \in Slots
      PROVE  Loaded(opened, j, [n \in Present |-> mnt[n].tpls], tpl[j]) \in SUBSET Fingers
  <2> DEFINE part == [n \in Present |-> mnt[n].tpls]
  <2>1. ASSUME NEW n \in Present, NEW k \in DOMAIN part[n] PROVE part[n][k] \in SUBSET Fingers
    BY <1>1, ArrayEntries, SlotsAre DEF IsFile
  <2>2. tpl[j] \in SUBSET Fingers
    BY DEF TypeOK
  <2> HIDE DEF part
  <2>3. Loaded(opened, j, part, tpl[j]) \in SUBSET Fingers
    BY <1>3, <2>1, <2>2
  <2>. QED  BY <2>3 DEF part
<1>. QED  BY <1>2, <1>4, <1>5

\* What the actions choose of the slots and the IDs.
LEMMA Chosen ==
    ASSUME TypeOK
    PROVE  /\ FreeSlots # {} => Lowest(FreeSlots) \in FreeSlots
           /\ \A j \in FreeSlots : j \in FileSlots /\ Lowest(FreeSlots) <= j
           /\ FreeIds # {} => Lowest(FreeIds) \in FreeIds
           /\ \A i \in FreeIds : i \in FingerIds \ {0} /\ Lowest(FreeIds) <= i
           /\ \A f : /\ Matches(f) # {} => Lowest(Matches(f)) \in Matches(f)
                     /\ \A j \in Matches(f) : j \in Slots /\ id[j] # 0
           /\ \A fid : {j \in FileSlots : id[j] = fid} # {}
                => Lowest({j \in FileSlots : id[j] = fid}) \in {j \in FileSlots : id[j] = fid}
<1>1. FreeSlots \in SUBSET Nat /\ FreeIds \in SUBSET Nat
  BY SlotsAre DEF FreeSlots, FreeIds
<1>2. \A f : Matches(f) \in SUBSET Nat
  BY SlotsAre DEF Matches
<1>3. \A fid : {j \in FileSlots : id[j] = fid} \in SUBSET Nat
  BY SlotsAre
<1>4. /\ FreeSlots # {} => Lowest(FreeSlots) \in FreeSlots
      /\ \A j \in FreeSlots : Lowest(FreeSlots) <= j
  BY <1>1, LowestIs
<1>5. /\ FreeIds # {} => Lowest(FreeIds) \in FreeIds
      /\ \A i \in FreeIds : Lowest(FreeIds) <= i
  BY <1>1, LowestIs
<1>6. \A f : Matches(f) # {} => Lowest(Matches(f)) \in Matches(f)
  BY <1>2, LowestIs
<1>7. \A fid : {j \in FileSlots : id[j] = fid} # {}
                => Lowest({j \in FileSlots : id[j] = fid}) \in {j \in FileSlots : id[j] = fid}
  BY <1>3, LowestIs
<1>8. /\ \A j \in FreeSlots : j \in FileSlots
      /\ \A i \in FreeIds : i \in FingerIds \ {0}
      /\ \A f : \A j \in Matches(f) : j \in Slots /\ id[j] # 0
  BY DEF FreeSlots, FreeIds, Matches
<1>. QED  BY <1>4, <1>5, <1>6, <1>7, <1>8

\* The disk keeps its type when only the own file changes.
LEMMA DiskTyped ==
    ASSUME TypeOK, OwnAlone
    PROVE  DOMAIN mnt' \subseteq Names /\ \A n \in DOMAIN mnt' : IsFile(mnt[n]')
BY TemplateStoreAssumption DEF OwnAlone, TypeOK, Present

\* A process starts anew.
LEMMA FreshKeepsType ==
    ASSUME TypeOK, Fresh, UNCHANGED <<mnt, unopened, unread, under, kept, gone>>,
           counts' \in [ops : 0 .. MaxOps, cuts : 0 .. MaxCuts],
           torn' \in Nat, touched' \subseteq Fingers
    PROVE  TypeOK'
BY IdleTyped, FreshTyped DEF Fresh, TypeOK

\* An operation stays in its bound.
LEMMA OpCounts ==
    ASSUME TypeOK, Op
    PROVE  counts' \in [ops : 0 .. MaxOps, cuts : 0 .. MaxCuts]
BY TemplateStoreAssumption DEF TypeOK, Op

\* Every step keeps the types.
LEMMA TypeStep ==
    ASSUME TypeOK, Writes, [Next]_vars
    PROVE  TypeOK'
<1>1. ASSUME NEW opened \in SUBSET Present, VerifyStart(opened) PROVE TypeOK'
  <2>1. num' \in Int /\ id' \in [Slots -> FingerIds] /\ tpl' \in [Slots -> SUBSET Fingers]
    BY <1>1, LoadedTyped DEF VerifyStart, TypeOK
  <2>2. mode' \in {"START", "KEY", "VERIFY", "ENROLL"}
    BY <1>1 DEF VerifyStart
  <2>3. /\ UNCHANGED <<mnt, cur, saving, counts, unopened, torn, touched, under, kept, gone>>
        /\ unread' \in Nat
    BY <1>1 DEF VerifyStart, TypeOK
  <2>. QED  BY <2>1, <2>2, <2>3 DEF TypeOK
<1>2. CASE Verify
  <2>1. Fresh /\ UNCHANGED <<mnt, unopened, unread, torn, touched, under, kept, gone>>
    BY <1>2 DEF Verify, history
  <2>2. counts' \in [ops : 0 .. MaxOps, cuts : 0 .. MaxCuts]
    BY <1>2, OpCounts DEF Verify
  <2>3. torn' \in Nat /\ touched' \subseteq Fingers
    BY <2>1 DEF TypeOK
  <2>. QED  BY <2>1, <2>2, <2>3, FreshKeepsType
<1>3. CASE EnrollStart
  <2>1. counts' \in [ops : 0 .. MaxOps, cuts : 0 .. MaxCuts]
    BY <1>3, OpCounts DEF EnrollStart
  <2>2. tpl' \in [Slots -> SUBSET Fingers]
    BY <1>3 DEF EnrollStart, Erased, TypeOK
  <2>3. cur' \in 0 .. (ENROLL_COUNT - 1)
    BY <1>3, FreshTyped DEF EnrollStart
  <2>. QED  BY <1>3, <2>1, <2>2, <2>3 DEF EnrollStart, TypeOK
<1>4. CASE Renew
  <2>1. counts' \in [ops : 0 .. MaxOps, cuts : 0 .. MaxCuts]
    BY <1>4, OpCounts DEF Renew
  <2>2. PICK f \in Fingers :
          LET j     == Lowest(Matches(f))
              Found == {m \in FileSlots : id[m] = id[j]}
              idx   == Lowest(Found)
          IN  /\ Matches(f) # {} /\ Found # {}
              /\ \E lost \in {{}} \cup {{g} : g \in tpl[idx]} :
                   /\ lost # {} => idx # j /\ (lost # tpl[idx] \/ ENROLL_COUNT = 1)
                   /\ tpl' = [tpl EXCEPT ![idx] = (@ \ lost) \cup {f}]
                   /\ Save(idx, "renew", tpl'[idx])
    BY <1>4 DEF Renew
  <2> DEFINE j     == Lowest(Matches(f))
             Found == {m \in FileSlots : id[m] = id[j]}
  <2>3. PICK idx : idx = Lowest(Found)
    OBVIOUS
  <2>4. PICK lost \in {{}} \cup {{g} : g \in tpl[idx]} :
          /\ tpl' = [tpl EXCEPT ![idx] = (@ \ lost) \cup {f}]
          /\ Save(idx, "renew", tpl'[idx])
    BY <2>2, <2>3
  <2>5. idx \in FileSlots /\ idx \in Slots
    BY <2>2, <2>3, Chosen, SlotsAre
  <2>6. tpl' \in [Slots -> SUBSET Fingers]
    BY <2>4, <2>5 DEF TypeOK
  <2>7. saving' \in [slot : FileSlots, next : {"none", "open", "num", "id", "area", "tpl"},
                     for : {"none", "enrol", "delete", "renew"}, was : SUBSET Fingers]
    BY <2>4, <2>5, <2>6 DEF Save
  <2>8. UNCHANGED <<mnt, mode, num, id, cur, unopened, unread, torn, touched, under, kept, gone>>
    BY <1>4 DEF Renew, history
  <2>. QED  BY <2>1, <2>6, <2>7, <2>8 DEF TypeOK
<1>5. ASSUME NEW f \in Fingers, EnrollFinger(f) PROVE TypeOK'
  <2> DEFINE idx == Lowest(FreeSlots)
             fid == Lowest(FreeIds)
  <2>1. FreeSlots # {} /\ FreeIds # {}
    BY <1>5 DEF EnrollFinger
  <2>2. idx \in FileSlots /\ idx \in Slots /\ fid \in FingerIds
    BY <2>1, Chosen, SlotsAre DEF FreeSlots, FreeIds
  <2> HIDE DEF idx, fid
  <2>3. /\ tpl' = [tpl EXCEPT ![idx] = @ \cup {f}]
        /\ cur' = NextTouch(cur) /\ touched' = touched \cup {f}
        /\ UNCHANGED <<mnt, counts, unopened, unread, torn, kept>>
    BY <1>5 DEF EnrollFinger, idx
  <2>4. tpl' \in [Slots -> SUBSET Fingers] /\ touched' \subseteq Fingers
    BY <2>2, <2>3 DEF TypeOK
  <2>5. cur' \in 0 .. (ENROLL_COUNT - 1)
    BY <2>3, SlotsAre DEF NextTouch, TypeOK
  <2>6. CASE cur + 1 = ENROLL_COUNT
    <3>1. /\ UpdateTemplate(idx, fid) /\ under' = [under EXCEPT ![fid] = touched']
          /\ gone' = gone \ touched' /\ mode' = "KEY"
      BY <1>5, <2>6 DEF EnrollFinger, idx, fid
    <3>2. id' \in [Slots -> FingerIds] /\ num' \in Int
      BY <2>2, <3>1 DEF UpdateTemplate, TypeOK
    <3>3. saving' \in [slot : FileSlots, next : {"none", "open", "num", "id", "area", "tpl"},
                       for : {"none", "enrol", "delete", "renew"}, was : SUBSET Fingers]
      BY <2>2, <2>4, <3>1 DEF UpdateTemplate, Save
    <3>4. under' \in [FingerIds -> SUBSET Fingers] /\ gone' \subseteq Fingers
      BY <2>2, <2>4, <3>1 DEF TypeOK
    <3>. QED  BY <2>3, <2>4, <2>5, <3>1, <3>2, <3>3, <3>4 DEF TypeOK
  <2>7. CASE cur + 1 # ENROLL_COUNT
    <3>1. UNCHANGED <<id, num, saving, under, gone, mode>>
      BY <1>5, <2>7 DEF EnrollFinger
    <3>. QED  BY <2>3, <2>4, <2>5, <3>1 DEF TypeOK
  <2>. QED  BY <2>6, <2>7
<1>6. ASSUME NEW fid \in FingerIds \ {0}, Remove(fid) PROVE TypeOK'
  <2> DEFINE Found == {j \in FileSlots : id[j] = fid}
             idx   == Lowest(Found)
  <2>1. counts' \in [ops : 0 .. MaxOps, cuts : 0 .. MaxCuts]
    BY <1>6, OpCounts DEF Remove
  <2>2. kept' \subseteq Fingers /\ mode' = "KEY"
    BY <1>6 DEF Remove, TypeOK
  <2>3. UNCHANGED <<mnt, cur, unopened, unread, torn, touched, under, gone>>
    BY <1>6 DEF Remove
  <2>4. CASE Found = {}
    <3>1. UNCHANGED <<num, id, tpl, saving>>
      BY <1>6, <2>4 DEF Remove
    <3>. QED  BY <2>1, <2>2, <2>3, <3>1 DEF TypeOK
  <2>5. CASE Found # {}
    <3>1. idx \in FileSlots /\ idx \in Slots
      BY <2>5, Chosen, SlotsAre
    <3> HIDE DEF idx
    <3>2. num' = num - 1 /\ id' = [id EXCEPT ![idx] = 0] /\ tpl' = Erased(idx)
          /\ Save(idx, "delete", tpl[idx])
      BY <1>6, <2>5 DEF Remove, idx
    <3>3. num' \in Int /\ id' \in [Slots -> FingerIds] /\ tpl' \in [Slots -> SUBSET Fingers]
      BY <3>1, <3>2, SlotsAre DEF TypeOK, Erased
    <3>4. saving' \in [slot : FileSlots, next : {"none", "open", "num", "id", "area", "tpl"},
                       for : {"none", "enrol", "delete", "renew"}, was : SUBSET Fingers]
      BY <3>1, <3>2 DEF Save, TypeOK
    <3>. QED  BY <2>1, <2>2, <2>3, <3>3, <3>4 DEF TypeOK
  <2>. QED  BY <2>4, <2>5
<1>7. CASE SaveOpen
  <2>1. UNCHANGED <<mode, num, id, tpl, cur, counts, unread, torn, touched, under, kept, gone>>
    BY <1>7 DEF SaveOpen, memory
  <2>2. OwnAlone
    BY <1>7, OpenDoes, SameFile DEF SaveOpen
  <2>3. /\ saving' \in [slot : FileSlots, next : {"none", "open", "num", "id", "area", "tpl"},
                        for : {"none", "enrol", "delete", "renew"}, was : SUBSET Fingers]
        /\ unopened' \in Nat
    BY <1>7, IdleTyped DEF SaveOpen, TypeOK
  <2>. QED  BY <2>1, <2>2, <2>3, DiskTyped DEF TypeOK
<1>8. CASE SaveNum
  <2>1. UNCHANGED <<mode, num, id, tpl, cur, counts, unopened, unread, torn, touched, under, kept, gone>>
    BY <1>8 DEF SaveNum, memory, history
  <2>2. OwnAlone
    BY <1>8, NumDoes DEF SaveNum, Writes
  <2>3. saving' \in [slot : FileSlots, next : {"none", "open", "num", "id", "area", "tpl"},
                     for : {"none", "enrol", "delete", "renew"}, was : SUBSET Fingers]
    BY <1>8 DEF SaveNum, TypeOK
  <2>. QED  BY <2>1, <2>2, <2>3, DiskTyped DEF TypeOK
<1>9. CASE SaveId
  <2>1. UNCHANGED <<mode, num, id, tpl, cur, counts, unopened, unread, torn, touched, under, kept, gone>>
    BY <1>9 DEF SaveId, memory, history
  <2>2. OwnAlone
    BY <1>9, IdDoes DEF SaveId, Writes
  <2>3. saving' \in [slot : FileSlots, next : {"none", "open", "num", "id", "area", "tpl"},
                     for : {"none", "enrol", "delete", "renew"}, was : SUBSET Fingers]
    BY <1>9 DEF SaveId, TypeOK
  <2>. QED  BY <2>1, <2>2, <2>3, DiskTyped DEF TypeOK
<1>10. CASE SaveArea
  <2>1. UNCHANGED <<mode, num, id, tpl, cur, counts, unopened, unread, torn, touched, under, kept, gone>>
    BY <1>10 DEF SaveArea, memory, history
  <2>2. OwnAlone
    BY <1>10, AreaDoes DEF SaveArea, Writes
  <2>3. saving' \in [slot : FileSlots, next : {"none", "open", "num", "id", "area", "tpl"},
                     for : {"none", "enrol", "delete", "renew"}, was : SUBSET Fingers]
    BY <1>10 DEF SaveArea, TypeOK
  <2>. QED  BY <2>1, <2>2, <2>3, DiskTyped DEF TypeOK
<1>11. CASE SaveTpl
  <2>1. UNCHANGED <<mode, num, id, tpl, cur, counts, unopened, unread, torn, touched, under>>
    BY <1>11 DEF SaveTpl, memory
  <2>2. OwnAlone
    BY <1>11, TplDoes DEF SaveTpl, Writes
  <2>3. saving' = Idle /\ kept' \subseteq Fingers /\ gone' \subseteq Fingers
    BY <1>11 DEF SaveTpl, TypeOK
  <2>. QED  BY <2>1, <2>2, <2>3, IdleTyped, DiskTyped DEF TypeOK
<1>12. CASE PowerCut
  <2>1. Fresh /\ UNCHANGED <<mnt, unopened, unread, under, kept, gone>>
    BY <1>12 DEF PowerCut
  <2>2. counts' \in [ops : 0 .. MaxOps, cuts : 0 .. MaxCuts]
    BY <1>12, TemplateStoreAssumption DEF PowerCut, TypeOK
  <2>3. torn' \in Nat /\ touched' \subseteq Fingers
    BY <1>12 DEF PowerCut, TypeOK
  <2>. QED  BY <2>1, <2>2, <2>3, FreshKeepsType
<1>13. CASE UNCHANGED vars
  BY <1>13 DEF vars, memory, history, TypeOK
<1>. QED
  BY <1>1, <1>2, <1>3, <1>4, <1>5, <1>6, <1>7, <1>8, <1>9, <1>10, <1>11, <1>12, <1>13 DEF Next

-----------------------------------------------------------------------------
(***************************************************************************)
(* The files of other persons.                                             *)
(***************************************************************************)

\* No action touches them.
LEMMA OwnAloneStep ==
    ASSUME TypeOK, Writes, [Next]_vars
    PROVE  OwnAlone
<1>1. CASE SaveOpen
  BY <1>1, OpenDoes, SameFile DEF SaveOpen
<1>2. CASE SaveNum
  BY <1>2, NumDoes DEF SaveNum, Writes
<1>3. CASE SaveId
  BY <1>3, IdDoes DEF SaveId, Writes
<1>4. CASE SaveArea
  BY <1>4, AreaDoes DEF SaveArea, Writes
<1>5. CASE SaveTpl
  BY <1>5, TplDoes DEF SaveTpl, Writes
<1>6. CASE UNCHANGED mnt
  BY <1>6, SameFile
<1>7. \/ SaveOpen \/ SaveNum \/ SaveId \/ SaveArea \/ SaveTpl
      \/ UNCHANGED mnt
  BY DEF Next, vars, VerifyStart, Verify, EnrollStart, Renew, EnrollFinger, Remove, PowerCut
<1>. QED  BY <1>1, <1>2, <1>3, <1>4, <1>5, <1>6, <1>7

\* Other persons' files stay as they are when only the own file changes.
LEMMA CompleteStep ==
    ASSUME Complete, OwnAlone
    PROVE  Complete' /\ Others' = Others
<1>1. Others' = Others
  BY DEF OwnAlone, Others
<1>2. IsFiniteSet(Present')
  <2>1. IsFiniteSet(Present \cup {OwnName})
    BY FS_AddElement DEF Complete
  <2>. QED  BY <2>1, FS_Subset DEF OwnAlone
<1>3. \A n \in Others' :
        /\ DOMAIN mnt'[n].ids = FileSlots
        /\ \A k \in FileSlots : mnt'[n].ids[k] # 0 => k \in DOMAIN mnt'[n].tpls
  BY <1>1 DEF OwnAlone, Complete
<1>. QED  BY <1>1, <1>2, <1>3 DEF Complete

\* The places of the files: each name has its own, and there are as many as
\* files.
LEMMA FilePlaces ==
    ASSUME TypeOK, IsFiniteSet(Present), NEW n \in Present
    PROVE  /\ FileIdx(n) \in Nat /\ FileIdx(n) < Cardinality(Present)
           /\ \A m \in Present : FileIdx(m) = FileIdx(n) => m = n
<1> DEFINE before(m) == {i \in Present : i < m}
<1>1. Present \subseteq Nat
  BY TemplateStoreAssumption DEF TypeOK, Present
<1>2. \A m \in Present : IsFiniteSet(before(m)) /\ Cardinality(before(m)) \in Nat
  BY FS_Subset, FS_CardinalityType
<1>3. ASSUME NEW S, NEW T, IsFiniteSet(T), S \subseteq T, S # T
      PROVE  Cardinality(S) < Cardinality(T)
  <2>1. S \in SUBSET T /\ IsFiniteSet(S) /\ Cardinality(S) \in Nat /\ Cardinality(T) \in Nat
    BY <1>3, FS_Subset, FS_CardinalityType
  <2>2. Cardinality(S) <= Cardinality(T) /\ Cardinality(S) # Cardinality(T)
    BY <1>3, <2>1, FS_Subset
  <2>. QED  BY <2>1, <2>2
<1>4. Cardinality(before(n)) < Cardinality(Present)
  <2>1. before(n) \subseteq Present /\ n \notin before(n)
    BY <1>1
  <2>2. before(n) # Present
    BY <2>1
  <2> HIDE DEF before
  <2>. QED  BY <1>3, <2>1, <2>2
<1>5. ASSUME NEW l \in Present, NEW m \in Present, l < m
      PROVE  Cardinality(before(l)) < Cardinality(before(m))
  <2>1. before(l) \subseteq before(m) /\ l \in before(m) /\ l \notin before(l)
    <3>1. l \in Nat /\ m \in Nat
      BY <1>1
    <3>2. ASSUME NEW i \in Present, i < l PROVE i < m
      <4>1. i \in Nat
        BY <1>1
      <4>. QED  BY <1>5, <3>1, <3>2, <4>1
    <3>3. ~(l < l)
      BY <3>1
    <3>. QED  BY <1>5, <3>2, <3>3
  <2>2. before(l) # before(m)
    BY <2>1
  <2>3. IsFiniteSet(before(m))
    BY <1>2
  <2> HIDE DEF before
  <2>. QED  BY <1>3, <2>1, <2>2, <2>3
<1>6. ASSUME NEW m \in Present, Cardinality(before(m)) = Cardinality(before(n)) PROVE m = n
  <2>1. Cardinality(before(m)) \in Nat /\ Cardinality(before(n)) \in Nat
    BY <1>2
  <2>2. ~(m < n) /\ ~(n < m)
    <3>1. ASSUME m < n PROVE FALSE
      <4>1. Cardinality(before(m)) < Cardinality(before(n))
        BY <1>5, <3>1
      <4>. QED  BY <1>6, <2>1, <4>1
    <3>2. ASSUME n < m PROVE FALSE
      <4>1. Cardinality(before(n)) < Cardinality(before(m))
        BY <1>5, <3>2
      <4>. QED  BY <1>6, <2>1, <4>1
    <3>. QED  BY <3>1, <3>2
  <2>3. m \in Nat /\ n \in Nat
    BY <1>1
  <2>. QED  BY <2>2, <2>3
<1>7. \A m : FileIdx(m) = Cardinality(before(m))
  BY DEF FileIdx
<1>8. Cardinality(before(n)) \in Nat
  BY <1>2
<1> HIDE DEF before
<1>. QED  BY <1>4, <1>6, <1>7, <1>8

\* A load puts each slot of a file where the file's place says.
LEMMA LoadedFrom ==
    ASSUME TypeOK, IsFiniteSet(Present), Cardinality(Present) <= PERSON_COUNT,
           NEW n \in Present, NEW k \in 0 .. (FINGER_COUNT_SUPPORT - 1)
    PROVE  \E j \in Slots :
             /\ Source(j) = {n}
             /\ j % FINGER_COUNT_SUPPORT = k
<1> DEFINE q == FileIdx(n)
           d == FINGER_COUNT_SUPPORT
           j == q * d + k
<1>1. q \in Nat /\ q < Cardinality(Present) /\ \A m \in Present : FileIdx(m) = q => m = n
  BY FilePlaces
<1>2. Cardinality(Present) \in Nat /\ d \in Nat \ {0} /\ PERSON_COUNT \in Nat
  BY FS_CardinalityType, SlotsAre
<1> HIDE DEF q
<1>3. q < PERSON_COUNT
  BY <1>1, <1>2
<1>4. j \div d = q /\ j % d = k
  BY <1>1, <1>2, DivMod
<1>5. j \in 0 .. (d * PERSON_COUNT - 1)
  BY <1>1, <1>2, <1>3, DivRange
<1>6. j \in Slots
  BY <1>5 DEF Slots
<1>7. Source(j) = {n}
  BY <1>1, <1>4 DEF Source, q
<1>. QED  BY <1>4, <1>6, <1>7

\* What a load reads into a slot whose file it opened, and into the others.
LEMMA LoadedOne ==
    ASSUME NEW opened \in SUBSET Present, NEW j, NEW part, NEW old, NEW n \in opened,
           Source(j) = {n}
    PROVE  Loaded(opened, j, part, old) = Read(part[n], j % FINGER_COUNT_SUPPORT, old)
<1>1. PICK k : k = j % FINGER_COUNT_SUPPORT
  OBVIOUS
<1>2. CASE k \in DOMAIN part[n]
  <2>1. {m \in Source(j) \cap opened : k \in DOMAIN part[m]} = {n}
    BY <1>2
  <2>. QED  BY <1>1, <1>2, <2>1 DEF Loaded, Read
<1>3. CASE k \notin DOMAIN part[n]
  <2>1. {m \in Source(j) \cap opened : k \in DOMAIN part[m]} = {}
    BY <1>3
  <2>. QED  BY <1>1, <1>3, <2>1 DEF Loaded, Read
<1>. QED  BY <1>2, <1>3

\* A slot whose file did not open, or that has none, stays as it is.
LEMMA LoadedNone ==
    ASSUME NEW opened \in SUBSET Present, NEW j, NEW part, NEW old,
           Source(j) \cap opened = {}
    PROVE  Loaded(opened, j, part, old) = old
BY DEF Loaded

\* VerifyStart knows every finger of another person's file that it opened.
LEMMA LoadKnowsOthers ==
    ASSUME TypeOK, Complete, NEW opened \in SUBSET Present, VerifyStart(opened)
    PROVE  OthersLoaded(opened)'
<1>1. UNCHANGED mnt
  BY DEF VerifyStart
<1>2. Present' = Present /\ Others' = Others /\ OthersSlots' = OthersSlots
  BY <1>1 DEF Present, Others, OthersSlots
<1>3. ASSUME NEW n \in Others, n \in opened, NEW k \in 0 .. (FINGER_COUNT_SUPPORT - 1),
             mnt[n].ids[k] # 0, NEW f \in mnt[n].tpls[k]
      PROVE  \E j \in Slots : id'[j] = mnt[n].ids[k] /\ id'[j] # 0 /\ f \in tpl'[j]
  <2>1. n \in Present /\ Cardinality(Present) <= PERSON_COUNT
    <3>1. Cardinality(Present) \in Nat /\ PERSON_COUNT \in Nat
      BY FS_CardinalityType, SlotsAre DEF Complete
    <3>2. ~(Cardinality(Present) > PERSON_COUNT)
      BY <1>3 DEF VerifyStart
    <3>. QED  BY <3>1, <3>2 DEF Others
  <2>2. PICK j \in Slots : Source(j) = {n} /\ j % FINGER_COUNT_SUPPORT = k
    BY <2>1, LoadedFrom DEF Complete
  <2>3. k \in DOMAIN mnt[n].ids /\ k \in DOMAIN mnt[n].tpls
    <3>1. k \in FileSlots
      BY SlotsAre DEF LoadedSlots
    <3>. QED  BY <1>3, <3>1 DEF Complete
  <2>4. /\ id' = [i \in Slots |-> Loaded(opened, i, [m \in Present |-> mnt[m].ids], id[i])]
        /\ tpl' = [i \in Slots |-> Loaded(opened, i, [m \in Present |-> mnt[m].tpls], tpl[i])]
    BY DEF VerifyStart
  <2>5. ASSUME NEW part, NEW old PROVE Loaded(opened, j, part, old) = Read(part[n], k, old)
    <3>1. Loaded(opened, j, part, old) = Read(part[n], j % FINGER_COUNT_SUPPORT, old)
      BY <1>3, <2>2, LoadedOne
    <3>. QED  BY <2>2, <3>1
  <2>6. Loaded(opened, j, [m \in Present |-> mnt[m].ids], id[j]) = mnt[n].ids[k]
    BY <2>1, <2>3, <2>5 DEF Read
  <2>7. Loaded(opened, j, [m \in Present |-> mnt[m].tpls], tpl[j]) = mnt[n].tpls[k]
    BY <2>1, <2>3, <2>5 DEF Read
  <2>. QED  BY <1>3, <2>4, <2>6, <2>7
<1>4. ASSUME NEW s \in OthersSlots, s[1] \in opened, NEW f \in mnt[s[1]].tpls[s[2]]
      PROVE  \E j \in Matches(f)' : id'[j] = mnt[s[1]].ids[s[2]]
  <2>1. s[1] \in Others /\ s[2] \in 0 .. (FINGER_COUNT_SUPPORT - 1) /\ mnt[s[1]].ids[s[2]] # 0
    BY DEF OthersSlots
  <2>2. PICK j \in Slots : id'[j] = mnt[s[1]].ids[s[2]] /\ id'[j] # 0 /\ f \in tpl'[j]
    BY <1>3, <1>4, <2>1
  <2>3. j \in Matches(f)'
    BY <2>2 DEF Matches
  <2>. QED  BY <2>2, <2>3
<1>. QED  BY <1>1, <1>2, <1>4 DEF OthersLoaded

-----------------------------------------------------------------------------
(***************************************************************************)
(* Phases and writes.                                                      *)
(***************************************************************************)

\* What the actions that change the table change of it.
LEMMA RenewDoes ==
    ASSUME TypeOK, Renew
    PROVE  \E f \in Fingers, i \in Slots, idx \in FileSlots, lost \in SUBSET Fingers :
             /\ id[i] # 0 /\ f \in tpl[i] /\ id[idx] = id[i]
             /\ lost # {} => idx # i
             /\ tpl' = [tpl EXCEPT ![idx] = (@ \ lost) \cup {f}]
             /\ saving' = [slot |-> idx, next |-> "open", for |-> "renew", was |-> tpl'[idx]]
             /\ saving = Idle /\ mode = "VERIFY"
             /\ UNCHANGED <<mnt, mode, num, id, cur, unopened, unread, torn, touched, under, kept, gone>>
<1>1. PICK f \in Fingers :
        LET j     == Lowest(Matches(f))
            Found == {m \in FileSlots : id[m] = id[j]}
            idx   == Lowest(Found)
        IN  /\ Matches(f) # {} /\ Found # {}
            /\ \E lost \in {{}} \cup {{g} : g \in tpl[idx]} :
                 /\ lost # {} => idx # j /\ (lost # tpl[idx] \/ ENROLL_COUNT = 1)
                 /\ tpl' = [tpl EXCEPT ![idx] = (@ \ lost) \cup {f}]
                 /\ Save(idx, "renew", tpl'[idx])
  BY DEF Renew
<1>2. PICK i : i = Lowest(Matches(f))
  OBVIOUS
<1> DEFINE Found == {m \in FileSlots : id[m] = id[i]}
<1>3. PICK idx : idx = Lowest(Found)
  OBVIOUS
<1>4. PICK lost \in {{}} \cup {{g} : g \in tpl[idx]} :
        /\ lost # {} => idx # i
        /\ tpl' = [tpl EXCEPT ![idx] = (@ \ lost) \cup {f}]
        /\ Save(idx, "renew", tpl'[idx])
  BY <1>1, <1>2, <1>3
<1>5. i \in Matches(f)
  BY <1>1, <1>2, Chosen
<1>6. idx \in Found
  BY <1>1, <1>2, <1>3, Chosen
<1>7. lost \in SUBSET Fingers
  <2>1. idx \in Slots
    BY <1>6, SlotsAre
  <2>. QED  BY <2>1 DEF TypeOK
<1>8. i \in Slots /\ id[i] # 0 /\ f \in tpl[i] /\ idx \in FileSlots /\ id[idx] = id[i]
  BY <1>5, <1>6 DEF Matches
<1>9. /\ saving = Idle /\ mode = "VERIFY"
      /\ UNCHANGED <<mnt, mode, num, id, cur, unopened, unread, torn, touched, under, kept, gone>>
  BY DEF Renew, Op, history
<1>10. saving' = [slot |-> idx, next |-> "open", for |-> "renew", was |-> tpl'[idx]]
  BY <1>4 DEF Save
<1>. QED  BY <1>4, <1>7, <1>8, <1>9, <1>10

\* A deletion empties a slot with that ID and begins its save, or finds none.
LEMMA RemoveDoes ==
    ASSUME TypeOK, NEW fid \in FingerIds \ {0}, Remove(fid)
    PROVE  /\ saving = Idle /\ mode # "START" /\ mode' = "KEY"
           /\ UNCHANGED <<mnt, cur, unopened, unread, torn, touched, under, gone>>
           /\ \/ UNCHANGED <<num, id, tpl, saving>>
              \/ \E idx \in FileSlots :
                   /\ id[idx] = fid
                   /\ id' = [id EXCEPT ![idx] = 0]
                   /\ tpl' = [tpl EXCEPT ![idx] = {}]
                   /\ saving' = [slot |-> idx, next |-> "open", for |-> "delete",
                                 was |-> tpl[idx]]
<1> DEFINE Found == {j \in FileSlots : id[j] = fid}
<1>1. PICK idx : idx = Lowest(Found)
  OBVIOUS
<1>2. Found # {} => idx \in Found
  BY <1>1, Chosen
<1>3. Found # {} => /\ id' = [id EXCEPT ![idx] = 0] /\ tpl' = [tpl EXCEPT ![idx] = {}]
                    /\ saving' = [slot |-> idx, next |-> "open", for |-> "delete",
                                  was |-> tpl[idx]]
  BY <1>1 DEF Remove, Erased, Save
<1>4. Found = {} => UNCHANGED <<num, id, tpl, saving>>
  BY DEF Remove
<1>5. /\ saving = Idle /\ mode # "START" /\ mode' = "KEY"
      /\ UNCHANGED <<mnt, cur, unopened, unread, torn, touched, under, gone>>
  BY DEF Remove, Op
<1>. QED  BY <1>2, <1>3, <1>4, <1>5

\* A touch goes into the slot enrolled, and is not known; the last one puts
\* the ID to it.
LEMMA TouchDoes ==
    ASSUME TypeOK, NEW f \in Fingers, EnrollFinger(f)
    PROVE  \E idx \in FreeSlots, fid \in FreeIds :
             /\ idx = Lowest(FreeSlots) /\ fid = Lowest(FreeIds)
             /\ mode = "ENROLL" /\ saving = Idle /\ ~Known(f)
             /\ tpl' = [tpl EXCEPT ![idx] = @ \cup {f}]
             /\ touched' = touched \cup {f}
             /\ UNCHANGED <<mnt, unopened, unread, torn, kept>>
             /\ \/ /\ id' = [id EXCEPT ![idx] = fid]
                   /\ saving' = [slot |-> idx, next |-> "open", for |-> "enrol",
                                 was |-> tpl'[idx]]
                   /\ under' = [under EXCEPT ![fid] = touched']
                   /\ gone' = gone \ touched'
                   /\ mode' = "KEY"
                \/ UNCHANGED <<id, num, saving, under, gone, mode>>
<1>1. PICK idx, fid : idx = Lowest(FreeSlots) /\ fid = Lowest(FreeIds)
  OBVIOUS
<1>2. idx \in FreeSlots /\ fid \in FreeIds
  BY <1>1, Chosen DEF EnrollFinger
<1>3. /\ mode = "ENROLL" /\ saving = Idle /\ ~Known(f)
      /\ tpl' = [tpl EXCEPT ![idx] = @ \cup {f}]
      /\ touched' = touched \cup {f}
      /\ UNCHANGED <<mnt, unopened, unread, torn, kept>>
  BY <1>1 DEF EnrollFinger
<1>4. CASE cur + 1 = ENROLL_COUNT
  <2>1. /\ UpdateTemplate(idx, fid) /\ under' = [under EXCEPT ![fid] = touched']
        /\ gone' = gone \ touched' /\ mode' = "KEY"
    BY <1>1, <1>4 DEF EnrollFinger
  <2>2. /\ id' = [id EXCEPT ![idx] = fid]
        /\ saving' = [slot |-> idx, next |-> "open", for |-> "enrol", was |-> tpl'[idx]]
    BY <2>1 DEF UpdateTemplate, Save
  <2>. QED  BY <1>1, <1>2, <1>3, <2>1, <2>2
<1>5. CASE cur + 1 # ENROLL_COUNT
  <2>1. UNCHANGED <<id, num, saving, under, gone, mode>>
    BY <1>1, <1>5 DEF EnrollFinger
  <2>. QED  BY <1>1, <1>2, <1>3, <2>1
<1>. QED  BY <1>4, <1>5

\* What holds of every save's next write.
LEMMA SavesDo ==
    ASSUME TypeOK, Phases, SaveOpen \/ SaveNum \/ SaveId \/ SaveArea \/ SaveTpl
    PROVE  /\ saving.next # "none" /\ mode \notin {"START", "ENROLL"}
           /\ UNCHANGED <<mode, num, id, tpl, cur, touched, under>>
           /\ saving'.next = "none" => saving' = Idle
           /\ saving'.next # "none" =>
                /\ saving'.slot = saving.slot
                /\ saving'.for = saving.for /\ saving'.was = saving.was
<1>1. saving.next # "none" /\ UNCHANGED <<mode, num, id, tpl, cur, touched, under>>
  BY DEF SaveOpen, SaveNum, SaveId, SaveArea, SaveTpl, memory, history
<1>2. mode \notin {"START", "ENROLL"}
  BY <1>1 DEF Phases, Idle
<1>3. \/ saving' = Idle
      \/ \E next \in {"num", "id", "area", "tpl"} : saving' = [saving EXCEPT !.next = next]
  BY DEF SaveOpen, SaveNum, SaveId, SaveArea, SaveTpl
<1>4. Idle.next = "none"
  BY DEF Idle
<1>. QED  BY <1>1, <1>2, <1>3, <1>4 DEF TypeOK

\* No enrolment is under way when a process begins.
LEMMA FreshPhases ==
    ASSUME Fresh
    PROVE  Phases'
<1>1. mode' = "START" /\ saving' = Idle /\ \A j \in Slots : id'[j] = 0 /\ tpl'[j] = {}
  BY DEF Fresh
<1>. QED  BY <1>1 DEF Phases

\* Every step keeps Phases.
LEMMA PhasesStep ==
    ASSUME TypeOK, Phases, [Next]_vars
    PROVE  Phases'
<1>1. ASSUME NEW opened \in SUBSET Present, VerifyStart(opened) PROVE Phases'
  <2>1. mode' \notin {"START", "ENROLL"} /\ saving' = Idle
    BY <1>1 DEF VerifyStart
  <2>. QED  BY <2>1 DEF Phases
<1>2. CASE Verify
  BY <1>2, FreshPhases DEF Verify
<1>3. CASE EnrollStart
  <2>1. /\ mode' = "ENROLL" /\ saving' = Idle /\ id' = id /\ touched' = {}
        /\ FreeSlots # {} /\ tpl' = [tpl EXCEPT ![Lowest(FreeSlots)] = {}]
    BY <1>3 DEF EnrollStart, Op, Erased
  <2>2. FreeSlots' = FreeSlots
    BY <2>1 DEF FreeSlots
  <2>3. Lowest(FreeSlots) \in Slots
    BY <2>1, Chosen, SlotsAre
  <2>4. tpl'[Lowest(FreeSlots')] = touched'
    BY <2>1, <2>2, <2>3 DEF TypeOK
  <2>. QED  BY <2>1, <2>2, <2>4 DEF Phases, Lowest
<1>4. CASE Renew
  <2>1. mode' = "VERIFY" /\ saving'.next = "open"
    BY <1>4, RenewDoes
  <2>. QED  BY <2>1 DEF Phases
<1>5. ASSUME NEW f \in Fingers, EnrollFinger(f) PROVE Phases'
  <2>1. PICK idx \in FreeSlots, fid \in FreeIds :
             /\ idx = Lowest(FreeSlots) /\ fid = Lowest(FreeIds)
             /\ mode = "ENROLL" /\ saving = Idle /\ ~Known(f)
             /\ tpl' = [tpl EXCEPT ![idx] = @ \cup {f}]
             /\ touched' = touched \cup {f}
             /\ \/ /\ saving' = [slot |-> idx, next |-> "open", for |-> "enrol",
                                 was |-> tpl'[idx]]
                   /\ mode' = "KEY"
                \/ UNCHANGED <<id, num, saving, under, gone, mode>>
    BY <1>5, TouchDoes
  <2>2. CASE mode' = "KEY" /\ saving'.next = "open"
    BY <2>2 DEF Phases
  <2>3. CASE UNCHANGED <<id, num, saving, under, gone, mode>>
    <3>1. FreeSlots' = FreeSlots /\ FreeSlots # {}
      BY <2>1, <2>3 DEF FreeSlots
    <3>2. idx \in Slots /\ idx \in FileSlots /\ id[idx] = 0
      BY <2>1, SlotsAre DEF FreeSlots
    <3>3. tpl[idx] = touched /\ \A g \in touched : ~Known(g)
      BY <2>1 DEF Phases
    <3>4. tpl'[idx] = touched'
      BY <2>1, <3>2, <3>3 DEF TypeOK
    <3>5. ASSUME NEW g \in touched', Known(g)' PROVE FALSE
      <4>1. PICK j \in FileSlots : id[j] # 0 /\ g \in tpl'[j]
        BY <2>3, <3>5 DEF Known
      <4>2. tpl'[j] = tpl[j]
        BY <2>1, <3>2, <4>1 DEF TypeOK
      <4>3. Known(g)
        BY <4>1, <4>2 DEF Known
      <4>4. ~Known(g)
        BY <2>1, <3>3, <3>5
      <4>. QED  BY <4>3, <4>4
    <3>6. tpl'[Lowest(FreeSlots')] = touched'
      BY <2>1, <3>1, <3>4
    <3>7. mode' = "ENROLL" /\ saving' = Idle
      BY <2>1, <2>3
    <3>. QED  BY <3>1, <3>5, <3>6, <3>7 DEF Phases, Lowest
  <2>. QED  BY <2>1, <2>2, <2>3
<1>6. ASSUME NEW fid \in FingerIds \ {0}, Remove(fid) PROVE Phases'
  <2>1. mode' = "KEY" /\ (saving' = Idle \/ saving'.next = "open")
    BY <1>6, RemoveDoes
  <2>. QED  BY <2>1 DEF Phases
<1>7. CASE SaveOpen \/ SaveNum \/ SaveId \/ SaveArea \/ SaveTpl
  <2>1. mode' \notin {"START", "ENROLL"} /\ (saving'.next = "none" => saving' = Idle)
    BY <1>7, SavesDo
  <2>. QED  BY <2>1 DEF Phases
<1>8. CASE PowerCut
  BY <1>8, FreshPhases DEF PowerCut
<1>9. CASE UNCHANGED vars
  BY <1>9 DEF vars, memory, history, Phases, FreeSlots, Known, Lowest
<1>. QED  BY <1>1, <1>2, <1>3, <1>4, <1>5, <1>6, <1>7, <1>8, <1>9 DEF Next

\* A save that begins, and what is no save at all.
LEMMA OpWrites ==
    ASSUME TypeOK, Writes, UNCHANGED mnt, saving'.next \in {"none", "open"},
           saving'.next # "none" /\ id'[saving'.slot] = 0 => tpl'[saving'.slot] = {},
           saving'.for = "delete" => id'[saving'.slot] = 0
    PROVE  Writes'
<1>1. Own' = Own
  BY SameFile
<1>. QED  BY <1>1 DEF Writes

\* Every step keeps Writes.
LEMMA WritesStep ==
    ASSUME TypeOK, Phases, Writes, [Next]_vars
    PROVE  Writes'
<1> Idle.next = "none" /\ Idle.for = "none"
  BY DEF Idle
<1>1. CASE (\E opened \in SUBSET Present : VerifyStart(opened)) \/ Verify \/ EnrollStart \/ PowerCut
  <2>1. UNCHANGED mnt /\ saving' = Idle
    BY <1>1 DEF VerifyStart, Verify, EnrollStart, Op, PowerCut, Fresh
  <2>. QED  BY <2>1, OpWrites
<1>2. CASE Renew
  <2>1. PICK i \in Slots, idx \in FileSlots :
             /\ id[i] # 0 /\ id[idx] = id[i] /\ saving'.slot = idx /\ saving'.next = "open"
             /\ saving'.for = "renew" /\ UNCHANGED <<mnt, id>>
    BY <1>2, RenewDoes
  <2>. QED  BY <2>1, OpWrites
<1>3. ASSUME NEW f \in Fingers, EnrollFinger(f) PROVE Writes'
  <2>1. PICK idx \in FreeSlots, fid \in FreeIds :
             /\ UNCHANGED mnt /\ saving = Idle
             /\ \/ /\ id' = [id EXCEPT ![idx] = fid]
                   /\ saving' = [slot |-> idx, next |-> "open", for |-> "enrol",
                                 was |-> tpl'[idx]]
                \/ UNCHANGED saving
    BY <1>3, TouchDoes
  <2>2. CASE UNCHANGED saving
    BY <2>1, <2>2, OpWrites
  <2>3. CASE /\ id' = [id EXCEPT ![idx] = fid]
             /\ saving' = [slot |-> idx, next |-> "open", for |-> "enrol", was |-> tpl'[idx]]
    <3>1. idx \in Slots /\ fid # 0
      BY <2>1, SlotsAre DEF FreeSlots, FreeIds
    <3>2. id'[saving'.slot] # 0
      BY <2>3, <3>1 DEF TypeOK
    <3>. QED  BY <2>1, <2>3, <3>2, OpWrites
  <2>. QED  BY <2>1, <2>2, <2>3
<1>4. ASSUME NEW fid \in FingerIds \ {0}, Remove(fid) PROVE Writes'
  <2>1. UNCHANGED mnt /\ saving = Idle
    BY <1>4, RemoveDoes
  <2>2. CASE UNCHANGED saving
    BY <2>1, <2>2, OpWrites
  <2>3. CASE saving' # saving
    <3>1. PICK idx \in FileSlots :
             /\ id' = [id EXCEPT ![idx] = 0] /\ tpl' = [tpl EXCEPT ![idx] = {}]
             /\ saving' = [slot |-> idx, next |-> "open", for |-> "delete", was |-> tpl[idx]]
      BY <1>4, <2>3, RemoveDoes
    <3>2. id'[saving'.slot] = 0 /\ tpl'[saving'.slot] = {}
      BY <3>1, SlotsAre DEF TypeOK
    <3>. QED  BY <2>1, <3>1, <3>2, OpWrites
  <2>. QED  BY <2>2, <2>3
<1>5. CASE SaveOpen
  <2>1. saving.next = "open" /\ UNCHANGED <<id, tpl>>
    BY <1>5, SavesDo DEF SaveOpen
  <2>2. CASE saving' = Idle /\ UNCHANGED mnt
    BY <2>2, OpWrites
  <2>3. CASE /\ mnt' = [n \in Present \cup {OwnName} |-> IF n \in Present THEN mnt[n] ELSE EmptyFile]
             /\ saving' = [saving EXCEPT !.next = "num"]
    <3>1. OwnName \in Present' /\ Own' = Own
      BY <2>3, OpenDoes
    <3>2. saving'.next = "num" /\ saving'.slot = saving.slot /\ saving'.for = saving.for
      BY <2>3 DEF TypeOK
    <3>. QED  BY <2>1, <3>1, <3>2 DEF Writes
  <2>. QED  BY <1>5, <2>2, <2>3 DEF SaveOpen
<1>6. CASE SaveNum
  <2>1. saving.next = "num" /\ UNCHANGED <<id, tpl>>
    BY <1>6, SavesDo DEF SaveNum
  <2>2. saving'.next = "id" /\ saving'.slot = saving.slot /\ saving'.for = saving.for
    BY <1>6 DEF SaveNum, TypeOK
  <2>3. OwnName \in Present' /\ Own'.ids = Own.ids /\ Own'.tpls = Own.tpls
    BY <1>6, <2>1, NumDoes DEF Writes
  <2>. QED  BY <2>1, <2>2, <2>3 DEF Writes
<1>7. CASE SaveId
  <2>1. saving.next = "id" /\ UNCHANGED <<id, tpl>>
    BY <1>7, SavesDo DEF SaveId
  <2>2. /\ saving'.next = "area" /\ saving'.slot = saving.slot /\ saving'.for = saving.for
        /\ saving.slot \in FileSlots
    BY <1>7 DEF SaveId, TypeOK
  <2>3. /\ OwnName \in Present' /\ Own'.tpls = Own.tpls
        /\ DOMAIN Own'.ids = DOMAIN Own.ids \cup 0 .. saving.slot
        /\ \A k : k = saving.slot => FileId(k)' = id[k]
    BY <1>7, <2>1, IdDoes DEF Writes
  <2>4. DOMAIN Own.ids = FileSlots => DOMAIN Own'.ids = FileSlots
    <3>1. 0 .. saving.slot \subseteq FileSlots
      BY <2>2, SlotsAre DEF FileSlots
    <3>. QED  BY <2>3, <3>1
  <2>5. \A k : k = saving'.slot => FileId(k)' = id'[k]
    BY <2>1, <2>2, <2>3
  <2>. QED  BY <2>1, <2>2, <2>3, <2>4, <2>5 DEF Writes, FileId
<1>8. CASE SaveArea
  <2>1. saving.next = "area" /\ UNCHANGED <<id, tpl>>
    BY <1>8, SavesDo DEF SaveArea
  <2>2. saving'.next = "tpl" /\ saving'.slot = saving.slot /\ saving'.for = saving.for
    BY <1>8 DEF SaveArea, TypeOK
  <2>3. OwnName \in Present' /\ DOMAIN Own'.ids = FileSlots /\ \A k : FileId(k)' = FileId(k)
    BY <1>8, <2>1, AreaDoes DEF Writes
  <2>4. \A k : k = saving'.slot => FileId(k)' = id'[k]
    BY <2>1, <2>2, <2>3 DEF Writes
  <2>. QED  BY <2>1, <2>2, <2>3, <2>4 DEF Writes, FileId
<1>9. CASE SaveTpl
  <2>1. saving.next = "tpl" /\ saving' = Idle
    BY <1>9 DEF SaveTpl
  <2>2. Own'.ids = Own.ids /\ DOMAIN Own.ids = FileSlots
    BY <1>9, <2>1, TplDoes DEF Writes
  <2>. QED  BY <2>1, <2>2 DEF Writes
<1>10. CASE UNCHANGED vars
  BY <1>10 DEF vars, memory, history, Writes, FileId, Own, Present, Read
<1>. QED  BY <1>1, <1>2, <1>3, <1>4, <1>5, <1>6, <1>7, <1>8, <1>9, <1>10 DEF Next

-----------------------------------------------------------------------------
(***************************************************************************)
(* Whatever other files there are.                                         *)
(***************************************************************************)
LEMMA InitAny ==
    ASSUME Init
    PROVE  AnyInv /\ Own = EmptyFile
<1>1. PICK disk \in InitialMnt : mnt = disk
  BY DEF Init
<1>2. /\ IsFiniteSet(Present) /\ Present \subseteq Names /\ OwnName \notin Present
      /\ \A n \in Present :
           /\ IsFile(mnt[n]) /\ DOMAIN mnt[n].ids = FileSlots
           /\ \A k \in FileSlots : mnt[n].ids[k] # 0 => k \in DOMAIN mnt[n].tpls
  BY <1>1, InitialMntAssumption DEF Present
<1>3. Own = EmptyFile
  BY <1>2 DEF Own
<1>4. /\ num = 0 /\ mode = "START" /\ saving = Idle /\ cur = 0
      /\ id = [j \in Slots |-> 0] /\ tpl = [j \in Slots |-> {}]
      /\ under = [i \in FingerIds |-> {}] /\ counts = [ops |-> 0, cuts |-> 0]
      /\ unopened = 0 /\ unread = 0 /\ torn = 0 /\ touched = {} /\ kept = {} /\ gone = {}
  BY DEF Init
<1>5. TypeOK
  <2>1. DOMAIN mnt \subseteq Names /\ \A n \in DOMAIN mnt : IsFile(mnt[n])
    BY <1>2 DEF Present
  <2>2. counts \in [ops : 0 .. MaxOps, cuts : 0 .. MaxCuts]
    BY <1>4, TemplateStoreAssumption
  <2>3. under \in [FingerIds -> SUBSET Fingers]
    BY <1>4
  <2>4. saving \in [slot : FileSlots, next : {"none", "open", "num", "id", "area", "tpl"},
                    for : {"none", "enrol", "delete", "renew"}, was : SUBSET Fingers]
    BY <1>4, IdleTyped
  <2>5. /\ id \in [Slots -> FingerIds] /\ tpl \in [Slots -> SUBSET Fingers]
        /\ cur \in 0 .. (ENROLL_COUNT - 1)
    BY <1>4, FreshTyped
  <2>. QED  BY <1>4, <2>1, <2>2, <2>3, <2>4, <2>5 DEF TypeOK
<1>6. Phases
  BY <1>4 DEF Phases
<1>7. Writes
  <2>1. DOMAIN Own.tpls = {}
    BY <1>3 DEF EmptyFile
  <2>2. saving.next = "none" /\ saving.for = "none"
    BY <1>4 DEF Idle
  <2>. QED  BY <2>1, <2>2 DEF Writes
<1>8. Complete
  BY <1>2 DEF Complete, Others
<1>. QED  BY <1>3, <1>5, <1>6, <1>7, <1>8 DEF AnyInv

\* Every step keeps what holds with any files, and other persons' files.
LEMMA StepAny ==
    ASSUME AnyInv, [Next]_vars
    PROVE  AnyInv' /\ OwnAlone /\ Others' = Others
<1>1. TypeOK' /\ OwnAlone /\ Phases' /\ Writes'
  BY TypeStep, OwnAloneStep, PhasesStep, WritesStep DEF AnyInv
<1>2. Complete' /\ Others' = Others
  BY <1>1, CompleteStep DEF AnyInv
<1>. QED  BY <1>1, <1>2 DEF AnyInv

\* The table and the files have their shape in every reachable state: no write
\* that a power cut ends leaves fingerprint.bin as something the loader
\* (chips_load_fingerprints_from_file) could not read.
THEOREM TypeCorrect == Spec => []TypeOK
<1>1. Init => AnyInv
  BY InitAny
<1>2. AnyInv /\ [Next]_vars => AnyInv'
  BY StepAny
<1>3. AnyInv => TypeOK
  BY DEF AnyInv
<1>. QED  BY <1>1, <1>2, <1>3, PTL DEF Spec

\* Every load that starts the scanner knows the fingers of each file of another
\* person that it could open, under the IDs of that file
\* (chips_load_fingerprints), whatever this device saved to its own before and
\* whichever other files failed to open.
THEOREM OthersAlwaysKnown == Spec => OthersKnown
<1>1. Init => AnyInv
  BY InitAny
<1>2. AnyInv /\ [Next]_vars => AnyInv'
  BY StepAny
<1>3. AnyInv /\ [Next]_vars
        => [\A opened \in SUBSET Present :
              VerifyStart(opened) /\ mode' = "VERIFY" => OthersLoaded(opened)']_vars
  BY LoadKnowsOthers DEF AnyInv
<1>. QED  BY <1>1, <1>2, <1>3, PTL DEF Spec, OthersKnown

-----------------------------------------------------------------------------
(***************************************************************************)
(* A device without other files.                                           *)
(***************************************************************************)

\* A step that leaves alone what the slots match and what the file says.
LEMMA QuietStep ==
    ASSUME TypeOK, Sound, UNCHANGED <<mnt, saving, unopened, unread, torn, under, gone>>,
           mode' = "START" <=> mode = "START",
           id' = id, \A j \in FileSlots : Has(j)' = Has(j)
    PROVE  Sound'
<1>1. /\ Own' = Own /\ \A k : FileId(k)' = FileId(k) /\ FileTpl(k)' = FileTpl(k)
      /\ \A k : Would(k)' = Would(k)
  BY SameFile DEF Would
<1>2. /\ \A k : Settled(k)' = Settled(k)
      /\ Failures' = Failures /\ OneTorn' = OneTorn
  BY DEF Settled, Failures, OneTorn
<1>3. LoadedSlots \subseteq FileSlots
  BY SlotsAre
<1>4. InPlace'
  BY <1>1 DEF Sound, InPlace
<1>5. FileAgrees'
  BY <1>1, <1>2, <1>3 DEF Sound, FileAgrees
<1>6. NothingLeft'
  BY <1>1, <1>2 DEF Sound, NothingLeft
<1>7. WasHeld'
  BY <1>2 DEF Sound, WasHeld
<1>8. HasDistinct'
  BY <1>2 DEF Sound, HasDistinct
<1>9. WouldDistinct'
  BY <1>1, <1>2 DEF Sound, WouldDistinct
<1>10. HasUnder'
  BY <1>2 DEF Sound, HasUnder
<1>11. WouldUnder'
  BY <1>1, <1>2 DEF Sound, WouldUnder
<1>12. TornKnown'
  BY <1>1, <1>2 DEF Sound, TornKnown
<1>13. NoneTorn'
  BY <1>1, <1>2 DEF Sound, NoneTorn
<1>. QED
  BY <1>4, <1>5, <1>6, <1>7, <1>8, <1>9, <1>10, <1>11, <1>12, <1>13 DEF Sound

\* A process starts anew: what it would load is what the last one knew.
LEMMA FreshStep ==
    ASSUME TypeOK, Phases, Sound, Fresh, UNCHANGED <<mnt, unopened, unread, under, kept, gone>>,
           torn' = IF saving = Idle THEN torn ELSE torn + 1
    PROVE  Sound'
<1>1. /\ Own' = Own /\ \A k : FileId(k)' = FileId(k) /\ FileTpl(k)' = FileTpl(k)
      /\ \A k : Would(k)' = Would(k)
  BY SameFile DEF Would
<1>2. /\ mode' = "START" /\ \A j \in Slots : id'[j] = 0
      /\ \A j \in FileSlots : Has(j)' = {}
      /\ saving'.next = "none" /\ \A k : Settled(k)'
  BY SlotsAre DEF Fresh, Has, Settled, Idle
<1>3. \/ torn' = torn /\ \A k : Settled(k)
      \/ torn' = torn + 1 /\ saving.next # "none"
  BY DEF Phases, Settled, Idle
<1>4. /\ Failures' \in Nat /\ Failures \in Nat /\ Failures <= Failures'
      /\ Failures' = 0 => Failures = 0 /\ \A k : Settled(k)
      /\ Failures' <= 1 => Failures = 0 \/ \A k : Settled(k)
      /\ OneTorn' => OneTorn /\ (Failures = 0 \/ \A k : Settled(k))
  BY <1>3 DEF Failures, OneTorn, TypeOK
<1>5. InPlace'
  BY <1>1, <1>2 DEF Sound, InPlace
<1>6. FileAgrees' /\ TornKnown'
  BY <1>2 DEF FileAgrees, TornKnown
<1>7. NothingLeft'
  BY <1>1, <1>2, <1>4 DEF Sound, NothingLeft
<1>8. WasHeld'
  BY <1>2 DEF WasHeld
<1>9. HasDistinct' /\ HasUnder'
  BY <1>2 DEF HasDistinct, HasUnder
<1>10. WouldDistinct'
  <2>1. SUFFICES ASSUME OneTorn, Failures = 0 \/ \A k : Settled(k), NEW j \in LoadedSlots
                 PROVE  /\ Would(j) \cap gone = {}
                        /\ \A i \in LoadedSlots \ {j} : Would(i) \cap Would(j) = {}
    BY <1>1, <1>4 DEF WouldDistinct
  <2>2. CASE mode = "START"
    BY <2>1, <2>2 DEF Sound, WouldDistinct
  <2>3. CASE mode # "START"
    <3>1. LoadedSlots \subseteq FileSlots
      BY SlotsAre
    <3>2. \A k \in LoadedSlots : Settled(k) => Would(k) = Has(k)
      BY <2>1, <2>3 DEF Sound, FileAgrees, OneTorn
    <3>3. \A k \in LoadedSlots : ~Settled(k) =>
            /\ Would(k) \subseteq saving.was /\ k = saving.slot /\ saving.next # "none"
      BY <2>1 DEF Sound, NothingLeft, Would, Settled
    <3>4. saving.next # "none" =>
            /\ saving.was \cap gone = {}
            /\ \A k \in FileSlots \ {saving.slot} : saving.was \cap Has(k) = {}
      BY <2>1 DEF Sound, WasHeld
    <3>5. \A k \in FileSlots :
            /\ Has(k) \cap gone = {}
            /\ \A i \in FileSlots \ {k} : Has(i) \cap Has(k) = {}
      BY <2>1 DEF Sound, HasDistinct
    <3>6. Would(j) \cap gone = {}
      BY <3>1, <3>2, <3>3, <3>4, <3>5
    <3>7. ASSUME NEW i \in LoadedSlots \ {j} PROVE Would(i) \cap Would(j) = {}
      <4>1. i \in FileSlots /\ j \in FileSlots /\ i # j
        BY <3>1
      <4>2. CASE Settled(i) /\ Settled(j)
        BY <3>2, <3>5, <4>1, <4>2
      <4>3. CASE ~Settled(i)
        <5>1. Settled(j) /\ i = saving.slot /\ Would(i) \subseteq saving.was
          BY <3>3, <4>1, <4>3 DEF Settled
        <5>2. Would(j) = Has(j) /\ saving.was \cap Has(j) = {}
          BY <3>2, <3>3, <3>4, <4>1, <4>3, <5>1
        <5>. QED  BY <5>1, <5>2
      <4>4. CASE ~Settled(j)
        <5>1. Settled(i) /\ j = saving.slot /\ Would(j) \subseteq saving.was
          BY <3>3, <4>1, <4>4 DEF Settled
        <5>2. Would(i) = Has(i) /\ saving.was \cap Has(i) = {}
          BY <3>2, <3>3, <3>4, <4>1, <4>4, <5>1
        <5>. QED  BY <5>1, <5>2
      <4>. QED  BY <4>2, <4>3, <4>4
    <3>. QED  BY <3>6, <3>7
  <2>. QED  BY <2>2, <2>3
<1>11. WouldUnder'
  <2>1. \A k : under'[k + 1] = under[k + 1]
    OBVIOUS
  <2>2. Failures' <= 1 => Failures <= 1
    BY <1>4
  <2>. QED  BY <1>1, <1>2, <1>4, <2>1, <2>2 DEF Sound, WouldUnder
<1>12. NoneTorn'
  BY <1>1, <1>2, <1>4 DEF Sound, NoneTorn
<1>. QED
  BY <1>5, <1>6, <1>7, <1>8, <1>9, <1>10, <1>11, <1>12 DEF Sound

\* With no other file, a load is a load of the own file's first slots, or of
\* nothing.
LEMMA LoadAlone ==
    ASSUME TypeOK, Others = {}, VerifyStart(Present)
    PROVE  /\ \A k \in LoadedSlots :
                /\ id'[k] = Read(Own.ids, k, id[k])
                /\ tpl'[k] = Read(Own.tpls, k, tpl[k])
           /\ \A j \in Slots \ LoadedSlots : id'[j] = id[j] /\ tpl'[j] = tpl[j]
<1>1. LoadedSlots \subseteq Slots /\ Slots \subseteq Nat
  BY SlotsAre
<1>2. /\ id' = [j \in Slots |-> Loaded(Present, j, [n \in Present |-> mnt[n].ids], id[j])]
      /\ tpl' = [j \in Slots |-> Loaded(Present, j, [n \in Present |-> mnt[n].tpls], tpl[j])]
  BY DEF VerifyStart
<1>3. CASE Present = {}
  <2>1. Own.ids = <<>> /\ Own.tpls = <<>>
    BY <1>3 DEF Own, EmptyFile
  <2>2. \A k, zero : Read(<<>>, k, zero) = zero
    BY DEF Read
  <2>3. \A j : Source(j) \cap Present = {}
    BY <1>3
  <2>. QED  BY <1>1, <1>2, <2>1, <2>2, <2>3, LoadedNone
<1>4. CASE Present # {}
  <2>1. Present = {OwnName} /\ OwnName \in Nat
    BY <1>4, TemplateStoreAssumption DEF Others
  <2>2. FileIdx(OwnName) = 0
    <3>1. {m \in Present : m < OwnName} = {}
      BY <2>1
    <3>. QED  BY <3>1, FS_EmptySet DEF FileIdx
  <2>3. Own = mnt[OwnName]
    BY <2>1 DEF Own
  <2>4. ASSUME NEW k \in LoadedSlots
        PROVE  /\ id'[k] = Read(Own.ids, k, id[k])
               /\ tpl'[k] = Read(Own.tpls, k, tpl[k])
    <3>1. k \div FINGER_COUNT_SUPPORT = 0 /\ k % FINGER_COUNT_SUPPORT = k
      <4>1. k \in Nat /\ k < FINGER_COUNT_SUPPORT /\ FINGER_COUNT_SUPPORT \in Nat \ {0}
        BY SlotsAre DEF LoadedSlots
      <4>. QED  BY <4>1, DivZero
    <3>2. Source(k) = {OwnName} /\ OwnName \in Present
      BY <2>1, <2>2, <3>1 DEF Source
    <3>3. \A part, old : Loaded(Present, k, part, old) = Read(part[OwnName], k, old)
      BY <3>1, <3>2, LoadedOne
    <3>. QED  BY <1>1, <1>2, <2>3, <3>2, <3>3
  <2>5. ASSUME NEW j \in Slots \ LoadedSlots PROVE id'[j] = id[j] /\ tpl'[j] = tpl[j]
    <3>1. j \div FINGER_COUNT_SUPPORT # 0
      <4>1. j \in Nat /\ ~(j < FINGER_COUNT_SUPPORT) /\ FINGER_COUNT_SUPPORT \in Nat \ {0}
        BY <1>1, SlotsAre DEF LoadedSlots
      <4>. QED  BY <4>1, DivZero
    <3>2. Source(j) = {}
      BY <2>1, <2>2, <3>1 DEF Source
    <3>. QED  BY <1>2, <3>2, LoadedNone
  <2>. QED  BY <2>4, <2>5
<1>. QED  BY <1>3, <1>4

\* A load that opens nothing leaves the table as it is.
LEMMA LoadNothing ==
    ASSUME TypeOK, VerifyStart({})
    PROVE  id' = id /\ tpl' = tpl
<1>1. {} \in SUBSET Present /\ \A j : Source(j) \cap {} = {}
  OBVIOUS
<1>2. \A j, part, old : Loaded({}, j, part, old) = old
  BY <1>1, LoadedNone
<1>3. id' = [j \in Slots |-> id[j]] /\ tpl' = [j \in Slots |-> tpl[j]]
  BY <1>2 DEF VerifyStart
<1>. QED  BY <1>3 DEF TypeOK

\* What a slot matches after a load: what the file says when it says all of it.
LEMMA LoadHas ==
    ASSUME TypeOK, Writes, Others = {}, VerifyStart(Present), NEW k \in LoadedSlots
    PROVE  /\ id'[k] \in {id[k], FileId(k)}
           /\ FileId(k) # 0 => id'[k] = FileId(k)
           /\ id[k] = 0 => id'[k] = FileId(k)
           /\ k \in DOMAIN Own.tpls => id'[k] = FileId(k) /\ tpl'[k] = FileTpl(k)
           /\ k \notin DOMAIN Own.tpls => tpl'[k] = tpl[k] /\ FileTpl(k) = {}
<1>1. id'[k] = Read(Own.ids, k, id[k]) /\ tpl'[k] = Read(Own.tpls, k, tpl[k])
  BY LoadAlone
<1>2. k \in DOMAIN Own.tpls => k \in DOMAIN Own.ids
  BY SlotsAre DEF Writes
<1>. QED  BY <1>1, <1>2 DEF Read, FileId, FileTpl

\* A load keeps Sound: the process knows what the one before it did.
LEMMA LoadStep ==
    ASSUME TypeOK, Phases, Writes, Sound, Others = {}, VerifyStart(Present)
    PROVE  Sound'
<1>1. /\ saving = Idle /\ saving' = saving /\ mode' # "START" /\ mode \in {"START", "KEY"}
      /\ UNCHANGED <<mnt, unopened, unread, torn, under, gone>>
  BY DEF VerifyStart
<1>2. /\ Own' = Own /\ \A k : FileId(k)' = FileId(k) /\ FileTpl(k)' = FileTpl(k)
      /\ \A k : Would(k)' = Would(k)
  BY <1>1, SameFile DEF Would
<1>3. /\ \A k : Settled(k) /\ Settled(k)'
      /\ Failures' = Failures /\ OneTorn' = OneTorn /\ saving.next = "none"
  BY <1>1 DEF Settled, Failures, OneTorn, Idle
<1>4. LoadedSlots \subseteq FileSlots /\ FileSlots \subseteq Slots
  BY SlotsAre
<1>5. \A j \in Slots \ LoadedSlots : id'[j] = id[j] /\ tpl'[j] = tpl[j]
  BY LoadAlone
<1>6. \A j \in FileSlots \ LoadedSlots : Has(j)' = Has(j)
  BY <1>4, <1>5 DEF Has
<1>7. InPlace'
  <2>1. \A k \in LoadedSlots : id'[k] \in {id[k], FileId(k)}
    BY LoadHas
  <2>2. \A j \in Slots : id'[j] # 0 => j \in FileSlots /\ id'[j] = j + 1
    BY <1>4, <1>5, <2>1 DEF Sound, InPlace
  <2>. QED  BY <1>2, <2>2 DEF Sound, InPlace
\* A process that has loaded nothing comes to know what the file says.
<1>8. mode = "START" =>
        \A k \in LoadedSlots : id'[k] = FileId(k) /\ Has(k)' = Would(k)
  <2>1. SUFFICES ASSUME mode = "START", NEW k \in LoadedSlots
                 PROVE  id'[k] = FileId(k) /\ Has(k)' = Would(k)
    OBVIOUS
  <2>2. id[k] = 0 /\ tpl[k] = {}
    BY <1>4, <2>1 DEF Phases
  <2>3. id'[k] = FileId(k) /\ tpl'[k] = FileTpl(k)
    BY <2>2, LoadHas
  <2>. QED  BY <2>3 DEF Has, Would
\* One that has loaded before learns nothing new.
<1>9. mode # "START" /\ unopened = 0 /\ unread = 0 =>
        \A k \in LoadedSlots : id'[k] = id[k] /\ Has(k)' = Has(k)
  <2>1. SUFFICES ASSUME mode # "START", unopened = 0, unread = 0, NEW k \in LoadedSlots
                 PROVE  id'[k] = id[k] /\ Has(k)' = Has(k)
    OBVIOUS
  <2>2. FileId(k) = id[k] /\ Would(k) = Has(k)
    BY <1>3, <2>1 DEF Sound, FileAgrees
  <2>3. id'[k] = id[k]
    BY <2>2, LoadHas
  <2>4. tpl'[k] = tpl[k] \/ tpl'[k] = FileTpl(k)
    BY LoadHas
  <2>. QED  BY <2>2, <2>3, <2>4 DEF Has, Would
<1>10. FileAgrees'
  <2>1. SUFFICES ASSUME unopened = 0, unread = 0, NEW k \in LoadedSlots
                 PROVE  FileId(k) = id'[k] /\ Would(k) = Has(k)'
    BY <1>1, <1>2 DEF FileAgrees
  <2>2. CASE mode = "START"
    BY <1>8, <2>2
  <2>3. CASE mode # "START"
    BY <1>3, <1>9, <2>1, <2>3 DEF Sound, FileAgrees
  <2>. QED  BY <2>2, <2>3
<1>11. NothingLeft' /\ NoneTorn'
  BY <1>1, <1>2, <1>3 DEF Sound, NothingLeft, NoneTorn
<1>12. WasHeld' /\ WouldDistinct'
  BY <1>1, <1>3 DEF WasHeld, WouldDistinct
<1>13. HasDistinct'
  <2>1. SUFFICES ASSUME OneTorn, NEW j \in FileSlots
                 PROVE  /\ Has(j)' \cap gone = {}
                        /\ \A i \in FileSlots \ {j} : Has(i)' \cap Has(j)' = {}
    BY <1>1, <1>3 DEF HasDistinct
  <2>2. CASE mode = "START"
    <3>1. \A i \in FileSlots \ LoadedSlots : Has(i)' = {}
      BY <1>4, <1>6, <2>2 DEF Phases, Has
    <3>2. \A i \in LoadedSlots : Has(i)' = Would(i)
      BY <1>8, <2>2
    <3>3. \A k \in LoadedSlots :
            /\ Would(k) \cap gone = {}
            /\ \A i \in LoadedSlots \ {k} : Would(i) \cap Would(k) = {}
      BY <2>1, <2>2 DEF Sound, WouldDistinct
    <3>. QED  BY <3>1, <3>2, <3>3
  <2>3. CASE mode # "START"
    <3>1. \A i \in FileSlots : Has(i)' = Has(i)
      BY <1>6, <1>9, <2>1, <2>3 DEF OneTorn
    <3>. QED  BY <2>1, <3>1 DEF Sound, HasDistinct
  <2>. QED  BY <2>2, <2>3
<1>14. HasUnder'
  <2>1. SUFFICES ASSUME Failures <= 1, NEW j \in FileSlots
                 PROVE  Has(j)' \subseteq under[j + 1]
    BY <1>1, <1>3 DEF HasUnder
  <2>2. Has(j) \subseteq under[j + 1]
    BY <2>1 DEF Sound, HasUnder
  <2>3. CASE j \notin LoadedSlots
    BY <1>6, <2>2, <2>3
  <2>4. CASE j \in LoadedSlots
    <3>1. Would(j) \subseteq under[j + 1]
      BY <1>3, <2>1, <2>4 DEF Sound, WouldUnder
    <3>2. CASE mode = "START"
      BY <1>8, <2>4, <3>1, <3>2
    <3>3. CASE mode # "START" /\ j \in DOMAIN Own.tpls
      <4>1. Has(j)' = Would(j)
        BY <2>4, <3>3, LoadHas DEF Has, Would
      <4>. QED  BY <3>1, <4>1
    <3>4. CASE mode # "START" /\ j \notin DOMAIN Own.tpls
      <4>1. tpl'[j] = tpl[j] /\ (id'[j] # 0 => id[j] # 0)
        <5>1. tpl'[j] = tpl[j] /\ id'[j] \in {id[j], FileId(j)}
          BY <2>4, <3>4, LoadHas
        <5>2. FileId(j) # 0 => id[j] # 0
          BY <1>3, <2>1, <2>4, <3>4 DEF Sound, TornKnown
        <5>. QED  BY <5>1, <5>2
      <4>. QED  BY <2>2, <4>1 DEF Has
    <3>. QED  BY <3>2, <3>3, <3>4
  <2>. QED  BY <2>3, <2>4
<1>15. WouldUnder'
  BY <1>1, <1>2, <1>3 DEF Sound, WouldUnder
<1>16. TornKnown'
  <2>1. \A k \in LoadedSlots : FileId(k) # 0 => id'[k] # 0
    BY LoadHas
  <2>. QED  BY <1>2, <2>1 DEF TornKnown
<1>. QED
  BY <1>7, <1>10, <1>11, <1>12, <1>13, <1>14, <1>15, <1>16 DEF Sound

\* A save begins: of its slot, memory and file part.
LEMMA SaveBegins ==
    ASSUME TypeOK, Sound, saving = Idle, mode # "START", mode' # "START",
           UNCHANGED <<mnt, unopened, unread, torn>>,
           NEW s \in FileSlots, saving'.slot = s, saving'.next = "open",
           \A j \in FileSlots \ {s} :
             id'[j] = id[j] /\ Has(j)' = Has(j) /\ under'[j + 1] = under[j + 1],
           \A j \in Slots : id'[j] # 0 => j \in FileSlots /\ id'[j] = j + 1,
           WasHeld', HasDistinct', HasUnder',
           Failures = 0 /\ s \in LoadedSlots =>
             FileTpl(s) \subseteq saving'.was /\ Would(s) \subseteq under'[s + 1]
    PROVE  Sound'
<1>1. /\ Own' = Own /\ \A k : FileId(k)' = FileId(k) /\ FileTpl(k)' = FileTpl(k)
      /\ \A k : Would(k)' = Would(k)
  BY SameFile DEF Would
<1>2. /\ \A k : Settled(k) /\ (Settled(k)' <=> k # s)
      /\ Failures' = Failures /\ OneTorn' = OneTorn
  BY DEF Settled, Failures, OneTorn, Idle
<1>3. LoadedSlots \subseteq FileSlots
  BY SlotsAre
<1>4. InPlace'
  BY <1>1 DEF Sound, InPlace
<1>5. FileAgrees'
  BY <1>1, <1>2, <1>3 DEF Sound, FileAgrees
<1>6. NothingLeft'
  BY <1>1, <1>2 DEF Sound, NothingLeft
<1>7. WouldDistinct'
  BY DEF WouldDistinct
<1>8. WouldUnder'
  <2>1. SUFFICES ASSUME Failures <= 1, NEW k \in LoadedSlots, Failures = 0 \/ k # s
                 PROVE  Would(k) \subseteq under'[k + 1]
    BY <1>1, <1>2 DEF WouldUnder
  <2>2. Would(k) \subseteq under[k + 1]
    BY <1>2, <2>1 DEF Sound, WouldUnder
  <2>. QED  BY <1>3, <2>1, <2>2
<1>9. TornKnown'
  BY <1>1, <1>2, <1>3 DEF Sound, TornKnown
<1>10. NoneTorn'
  BY <1>1, <1>2 DEF Sound, NoneTorn
<1>. QED
  BY <1>4, <1>5, <1>6, <1>7, <1>8, <1>9, <1>10 DEF Sound

\* Before a save, the file agrees with the memory; so it does of the slot whose
\* save begins.
LEMMA BeforeSave ==
    ASSUME Sound, saving = Idle, mode # "START", Failures = 0, TypeOK,
           NEW k \in LoadedSlots
    PROVE  /\ FileId(k) = id[k] /\ Would(k) = Has(k)
           /\ FileId(k) = 0 => FileTpl(k) = {}
<1>1. Settled(k) /\ unopened = 0 /\ unread = 0
  BY DEF Settled, Idle, Failures, TypeOK
<1>. QED  BY <1>1 DEF Sound, FileAgrees, NothingLeft

\* So does the beginning of an enrolment.
LEMMA EnrollStartStep ==
    ASSUME TypeOK, Sound, EnrollStart
    PROVE  Sound'
<1>1. /\ UNCHANGED <<mnt, saving, unopened, unread, torn, under, gone>> /\ id' = id
      /\ mode # "START" /\ mode' # "START"
  BY DEF EnrollStart, Op
<1>2. PICK s \in FreeSlots : tpl' = [tpl EXCEPT ![s] = {}]
  BY Chosen DEF EnrollStart, Erased
<1>3. \A j \in FileSlots : Has(j)' = Has(j)
  BY <1>1, <1>2, SlotsAre DEF TypeOK, Has, FreeSlots
<1>. QED  BY <1>1, <1>3, QuietStep

\* So does a renewal.
LEMMA RenewStep ==
    ASSUME TypeOK, Sound, Renew
    PROVE  Sound'
<1>1. PICK f \in Fingers, i \in Slots, s \in FileSlots, lost \in SUBSET Fingers :
        /\ id[i] # 0 /\ f \in tpl[i] /\ id[s] = id[i]
        /\ lost # {} => s # i
        /\ tpl' = [tpl EXCEPT ![s] = (@ \ lost) \cup {f}]
        /\ saving' = [slot |-> s, next |-> "open", for |-> "renew", was |-> tpl'[s]]
        /\ saving = Idle /\ mode = "VERIFY"
        /\ UNCHANGED <<mnt, mode, num, id, cur, unopened, unread, torn, touched, under, kept, gone>>
  BY RenewDoes
<1>2. i = s
  <2>1. s \in Slots /\ i \in Nat /\ s \in Nat
    BY SlotsAre
  <2>2. id[i] = i + 1 /\ id[s] = s + 1
    BY <1>1, <2>1 DEF Sound, InPlace
  <2>. QED  BY <1>1, <2>1, <2>2
<1>3. tpl' = tpl
  <2>1. \A j \in Slots : tpl'[j] = tpl[j]
    BY <1>1, <1>2 DEF TypeOK
  <2>. QED  BY <1>1, <2>1 DEF TypeOK
<1>4. \A j \in FileSlots : Has(j)' = Has(j)
  BY <1>1, <1>3 DEF Has
<1>5. Failures' = Failures /\ OneTorn' = OneTorn
  BY <1>1 DEF Failures, OneTorn
<1>6. saving'.slot = s /\ saving'.next = "open" /\ saving'.was = Has(s)
  BY <1>1, <1>3 DEF Has
<1>7. HasDistinct' /\ HasUnder'
  BY <1>1, <1>4, <1>5 DEF Sound, HasDistinct, HasUnder
<1>8. WasHeld'
  <2>1. OneTorn => /\ Has(s) \cap gone = {}
                   /\ \A j \in FileSlots \ {s} : Has(s) \cap Has(j) = {}
    BY DEF Sound, HasDistinct
  <2>2. Failures = 0 => Has(s) \subseteq under[s + 1]
    BY DEF Sound, HasUnder
  <2>. QED  BY <1>1, <1>4, <1>5, <1>6, <2>1, <2>2 DEF WasHeld
<1>9. Failures = 0 /\ s \in LoadedSlots =>
        FileTpl(s) \subseteq saving'.was /\ Would(s) \subseteq under'[s + 1]
  <2>1. SUFFICES ASSUME Failures = 0, s \in LoadedSlots
                 PROVE  FileTpl(s) \subseteq Has(s) /\ Would(s) \subseteq under[s + 1]
    BY <1>1, <1>6
  <2>2. FileId(s) = id[s] /\ Would(s) = Has(s)
    BY <1>1, <2>1, BeforeSave
  <2>3. Has(s) \subseteq under[s + 1]
    BY <2>1 DEF Sound, HasUnder
  <2>. QED  BY <1>1, <2>2, <2>3 DEF Would
<1>10. \A j \in FileSlots \ {s} :
         id'[j] = id[j] /\ Has(j)' = Has(j) /\ under'[j + 1] = under[j + 1]
  BY <1>1, <1>4
<1>11. \A j \in Slots : id'[j] # 0 => j \in FileSlots /\ id'[j] = j + 1
  BY <1>1 DEF Sound, InPlace
<1>12. mode # "START" /\ mode' # "START"
  BY <1>1
<1>. QED
  BY <1>1, <1>6, <1>7, <1>8, <1>9, <1>10, <1>11, <1>12, SaveBegins

\* So does a deletion.
LEMMA RemoveStep ==
    ASSUME TypeOK, Sound, NEW fid \in FingerIds \ {0}, Remove(fid)
    PROVE  Sound'
<1>1. /\ saving = Idle /\ mode # "START" /\ mode' = "KEY"
      /\ UNCHANGED <<mnt, unopened, unread, torn, under, gone>>
      /\ \/ UNCHANGED <<num, id, tpl, saving>>
         \/ \E s \in FileSlots :
              /\ id[s] = fid
              /\ id' = [id EXCEPT ![s] = 0]
              /\ tpl' = [tpl EXCEPT ![s] = {}]
              /\ saving' = [slot |-> s, next |-> "open", for |-> "delete", was |-> tpl[s]]
  BY RemoveDoes
<1>2. CASE UNCHANGED <<num, id, tpl, saving>>
  <2>1. \A j \in FileSlots : Has(j)' = Has(j)
    BY <1>2 DEF Has
  <2>. QED  BY <1>1, <1>2, <2>1, QuietStep
<1>3. ASSUME NEW s \in FileSlots, id[s] = fid,
             id' = [id EXCEPT ![s] = 0], tpl' = [tpl EXCEPT ![s] = {}],
             saving' = [slot |-> s, next |-> "open", for |-> "delete", was |-> tpl[s]]
      PROVE  Sound'
  <2>1. FileSlots \subseteq Slots
    BY SlotsAre
  <2>2. \A j \in Slots \ {s} : id'[j] = id[j] /\ tpl'[j] = tpl[j]
    BY <1>3, <2>1 DEF TypeOK
  <2>3. id'[s] = 0 /\ Has(s)' = {}
    BY <1>3, <2>1 DEF TypeOK, Has
  <2>4. \A j \in FileSlots \ {s} : Has(j)' = Has(j)
    BY <2>1, <2>2 DEF Has
  <2>5. Failures' = Failures /\ OneTorn' = OneTorn
    BY <1>1 DEF Failures, OneTorn
  <2>6. saving'.slot = s /\ saving'.next = "open" /\ saving'.was = Has(s)
    BY <1>3 DEF Has
  <2>7. HasDistinct'
    BY <1>1, <2>3, <2>4, <2>5 DEF Sound, HasDistinct
  <2>8. HasUnder'
    BY <1>1, <2>3, <2>4, <2>5 DEF Sound, HasUnder
  <2>9. WasHeld'
    <3>1. OneTorn => /\ Has(s) \cap gone = {}
                     /\ \A j \in FileSlots \ {s} : Has(s) \cap Has(j) = {}
      BY DEF Sound, HasDistinct
    <3>2. Failures = 0 => Has(s) \subseteq under[s + 1]
      BY DEF Sound, HasUnder
    <3>. QED  BY <1>1, <2>4, <2>5, <2>6, <3>1, <3>2 DEF WasHeld
  <2>10. Failures = 0 /\ s \in LoadedSlots =>
           FileTpl(s) \subseteq saving'.was /\ Would(s) \subseteq under'[s + 1]
    <3>1. SUFFICES ASSUME Failures = 0, s \in LoadedSlots
                   PROVE  FileTpl(s) \subseteq Has(s) /\ Would(s) \subseteq under[s + 1]
      BY <1>1, <2>6
    <3>2. FileId(s) = id[s] /\ Would(s) = Has(s)
      BY <1>1, <3>1, BeforeSave
    <3>3. Has(s) \subseteq under[s + 1]
      BY <3>1 DEF Sound, HasUnder
    <3>. QED  BY <1>3, <3>2, <3>3 DEF Would
  <2>11. \A j \in FileSlots \ {s} :
           id'[j] = id[j] /\ Has(j)' = Has(j) /\ under'[j + 1] = under[j + 1]
    BY <1>1, <2>1, <2>2, <2>4
  <2>12. \A j \in Slots : id'[j] # 0 => j \in FileSlots /\ id'[j] = j + 1
    BY <2>2, <2>3 DEF Sound, InPlace
  <2>13. mode' # "START"
    BY <1>1
  <2>. QED
    BY <1>1, <2>6, <2>7, <2>8, <2>9, <2>10, <2>11, <2>12, <2>13, SaveBegins
<1>. QED  BY <1>1, <1>2, <1>3

\* chips_get_fid finds the ID that belongs to the slot chips_get_finger_idx
\* finds.
LEMMA SameChoice ==
    ASSUME TypeOK, InPlace, NEW s \in FreeSlots, NEW fid \in FreeIds,
           s = Lowest(FreeSlots), fid = Lowest(FreeIds)
    PROVE  fid = s + 1
<1>1. s \in FileSlots /\ id[s] = 0 /\ fid \in FingerIds \ {0}
  BY DEF FreeSlots, FreeIds
<1>2. s \in Nat /\ fid \in Nat /\ \A j \in FileSlots : j \in Nat /\ j \in Slots
  BY <1>1, SlotsAre
<1>3. fid <= s + 1
  <2>1. \A j \in FileSlots : id[j] # s + 1
    BY <1>1, <1>2 DEF InPlace
  <2>2. s + 1 \in FreeIds
    BY <1>1, <2>1, SlotsAre DEF FreeIds
  <2>. QED  BY <2>2, Chosen
<1>4. s <= fid - 1
  <2>1. fid - 1 \in FileSlots
    BY <1>1, SlotsAre
  <2>2. id[fid - 1] # fid
    BY <2>1 DEF FreeIds
  <2>3. id[fid - 1] = 0
    BY <1>2, <2>1, <2>2 DEF InPlace
  <2>4. fid - 1 \in FreeSlots
    BY <2>1, <2>3 DEF FreeSlots
  <2>. QED  BY <2>4, Chosen
<1>. QED  BY <1>2, <1>3, <1>4

\* The last touch.
LEMMA EnrolledStep ==
    ASSUME TypeOK, Phases, Sound, mode = "ENROLL", saving = Idle,
           NEW f \in Fingers, ~Known(f),
           NEW s \in FreeSlots, s = Lowest(FreeSlots),
           tpl' = [tpl EXCEPT ![s] = @ \cup {f}], touched' = touched \cup {f},
           UNCHANGED <<mnt, unopened, unread, torn>>,
           id' = [id EXCEPT ![s] = s + 1],
           saving' = [slot |-> s, next |-> "open", for |-> "enrol", was |-> tpl'[s]],
           under' = [under EXCEPT ![s + 1] = touched'],
           gone' = gone \ touched', mode' = "KEY"
    PROVE  Sound'
<1>1. /\ s \in FileSlots /\ s \in Slots /\ id[s] = 0 /\ s + 1 \in FingerIds
      /\ FileSlots \subseteq Slots /\ FileSlots \subseteq Nat /\ s \in Nat
  BY SlotsAre DEF FreeSlots
<1>2. \A j \in Slots \ {s} : id'[j] = id[j] /\ tpl'[j] = tpl[j]
  BY <1>1 DEF TypeOK
<1>3. \A j \in FileSlots \ {s} : Has(j)' = Has(j)
  BY <1>1, <1>2 DEF Has
<1>4. tpl'[s] = touched' /\ id'[s] = s + 1
  <2>1. tpl[s] = touched
    BY DEF Phases
  <2>. QED  BY <1>1, <2>1 DEF TypeOK
<1>5. Has(s)' = touched'
  BY <1>1, <1>4 DEF Has
<1>6. \A j \in FileSlots \ {s} : touched' \cap Has(j) = {}
  <2>1. SUFFICES ASSUME NEW j \in FileSlots \ {s}, NEW g \in touched', g \in Has(j) PROVE FALSE
    OBVIOUS
  <2>2. ~Known(g)
    BY <2>1 DEF Phases
  <2>. QED  BY <2>1, <2>2 DEF Has, Known
<1>7. /\ under'[s + 1] = touched'
      /\ \A j \in FileSlots \ {s} : under'[j + 1] = under[j + 1]
  <2>1. \A j \in FileSlots \ {s} : j + 1 \in FingerIds /\ j + 1 # s + 1
    BY <1>1, SlotsAre
  <2>. QED  BY <1>1, <2>1 DEF TypeOK
<1>8. Failures' = Failures /\ OneTorn' = OneTorn
  BY DEF Failures, OneTorn
<1>9. saving'.slot = s /\ saving'.next = "open" /\ saving'.was = touched'
  BY <1>4
<1>10. HasDistinct'
  <2>1. SUFFICES ASSUME OneTorn, NEW j \in FileSlots
                 PROVE  /\ Has(j)' \cap gone' = {}
                        /\ \A i \in FileSlots \ {j} : Has(i)' \cap Has(j)' = {}
    BY <1>8 DEF HasDistinct
  <2>2. \A k \in FileSlots :
          /\ Has(k) \cap gone = {}
          /\ \A i \in FileSlots \ {k} : Has(i) \cap Has(k) = {}
    BY <2>1 DEF Sound, HasDistinct
  <2>3. gone' \subseteq gone /\ touched' \cap gone' = {}
    OBVIOUS
  <2>4. CASE j = s
    <3>1. \A i \in FileSlots \ {j} : Has(i)' \cap Has(j)' = {}
      BY <1>3, <1>5, <1>6, <2>4
    <3>. QED  BY <1>5, <2>3, <2>4, <3>1
  <2>5. CASE j # s
    <3>1. Has(j)' = Has(j)
      BY <1>3, <2>5
    <3>2. ASSUME NEW i \in FileSlots \ {j} PROVE Has(i)' \cap Has(j)' = {}
      <4>1. CASE i = s
        BY <1>5, <1>6, <2>5, <3>1, <4>1
      <4>2. CASE i # s
        BY <1>3, <2>2, <3>1, <4>2
      <4>. QED  BY <4>1, <4>2
    <3>. QED  BY <2>2, <2>3, <3>1, <3>2
  <2>. QED  BY <2>4, <2>5
<1>11. HasUnder'
  BY <1>3, <1>5, <1>7, <1>8 DEF Sound, HasUnder
<1>12. WasHeld'
  <2>1. touched' \cap gone' = {}
    OBVIOUS
  <2>. QED  BY <1>3, <1>6, <1>7, <1>9, <2>1 DEF WasHeld
<1>13. Failures = 0 /\ s \in LoadedSlots =>
         FileTpl(s) \subseteq saving'.was /\ Would(s) \subseteq under'[s + 1]
  <2>1. SUFFICES ASSUME Failures = 0, s \in LoadedSlots
                 PROVE  FileTpl(s) = {} /\ Would(s) = {}
    OBVIOUS
  <2>2. FileId(s) = id[s] /\ (FileId(s) = 0 => FileTpl(s) = {})
    BY <2>1, BeforeSave
  <2>. QED  BY <1>1, <2>2 DEF Would
<1>14. \A j \in FileSlots \ {s} :
         id'[j] = id[j] /\ Has(j)' = Has(j) /\ under'[j + 1] = under[j + 1]
  BY <1>1, <1>2, <1>3, <1>7
<1>15. \A j \in Slots : id'[j] # 0 => j \in FileSlots /\ id'[j] = j + 1
  BY <1>1, <1>2, <1>4 DEF Sound, InPlace
<1>. QED
  BY <1>1, <1>9, <1>10, <1>11, <1>12, <1>13, <1>14, <1>15, SaveBegins

\* So does a touch, the last of an enrolment included.
LEMMA TouchStep ==
    ASSUME TypeOK, Phases, Sound, NEW f \in Fingers, EnrollFinger(f)
    PROVE  Sound'
<1>1. PICK s \in FreeSlots, fid \in FreeIds :
        /\ s = Lowest(FreeSlots) /\ fid = Lowest(FreeIds)
        /\ mode = "ENROLL" /\ saving = Idle /\ ~Known(f)
        /\ tpl' = [tpl EXCEPT ![s] = @ \cup {f}]
        /\ touched' = touched \cup {f}
        /\ UNCHANGED <<mnt, unopened, unread, torn, kept>>
        /\ \/ /\ id' = [id EXCEPT ![s] = fid]
              /\ saving' = [slot |-> s, next |-> "open", for |-> "enrol", was |-> tpl'[s]]
              /\ under' = [under EXCEPT ![fid] = touched']
              /\ gone' = gone \ touched'
              /\ mode' = "KEY"
           \/ UNCHANGED <<id, num, saving, under, gone, mode>>
  BY TouchDoes
<1>2. fid = s + 1
  BY <1>1, SameChoice DEF Sound
<1>3. CASE UNCHANGED <<id, num, saving, under, gone, mode>>
  <2>1. \A j \in FileSlots : Has(j)' = Has(j)
    <3>1. id[s] = 0 /\ s \in Slots /\ FileSlots \subseteq Slots
      BY SlotsAre DEF FreeSlots
    <3>2. \A j \in Slots \ {s} : tpl'[j] = tpl[j]
      BY <1>1, <3>1 DEF TypeOK
    <3>. QED  BY <1>3, <3>1, <3>2 DEF Has
  <2>. QED  BY <1>1, <1>3, <2>1, QuietStep
<1>4. CASE /\ id' = [id EXCEPT ![s] = fid]
           /\ saving' = [slot |-> s, next |-> "open", for |-> "enrol", was |-> tpl'[s]]
           /\ under' = [under EXCEPT ![fid] = touched']
           /\ gone' = gone \ touched'
           /\ mode' = "KEY"
  BY <1>1, <1>2, <1>4, EnrolledStep
<1>. QED  BY <1>1, <1>3, <1>4

\* A file that cannot be opened, at a save or at a process' first load: from
\* then on file and memory may differ.
LEMMA MishapStep ==
    ASSUME TypeOK, Phases, Sound, saving.next \in {"none", "open"},
           UNCHANGED <<mnt, id, tpl, torn, under, gone>>, saving' = Idle,
           \/ unopened' = unopened + 1 /\ unread' = unread
           \/ unopened' = unopened /\ unread' = unread + 1
    PROVE  Sound'
<1>1. /\ Own' = Own /\ \A k : FileId(k)' = FileId(k) /\ FileTpl(k)' = FileTpl(k)
      /\ \A k : Would(k)' = Would(k) /\ Has(k)' = Has(k)
  BY SameFile DEF Would, Has
<1>2. /\ ~(unopened' = 0 /\ unread' = 0) /\ Failures' # 0 /\ ~OneTorn'
      /\ saving'.next = "none"
      /\ Failures' <= 1 => Failures = 0 /\ Failures <= 1
  BY DEF Failures, OneTorn, Idle, TypeOK
<1>3. InPlace'
  BY <1>1 DEF Sound, InPlace
<1>4. /\ FileAgrees' /\ NothingLeft' /\ WasHeld' /\ HasDistinct' /\ WouldDistinct'
      /\ NoneTorn'
  BY <1>2 DEF FileAgrees, NothingLeft, WasHeld, HasDistinct, WouldDistinct, NoneTorn
<1>5. HasUnder' /\ WouldUnder'
  BY <1>1, <1>2 DEF Sound, HasUnder, WouldUnder
<1>6. TornKnown'
  BY <1>1, <1>2 DEF Sound, TornKnown, NoneTorn, Settled
<1>. QED  BY <1>3, <1>4, <1>5, <1>6 DEF Sound

\* The writes before the templates: of what is known of the file, they change
\* no more than the ID of the slot being saved.
LEMMA WriteStep ==
    ASSUME TypeOK, Phases, Sound, mode # "START", saving.next # "none",
           UNCHANGED <<mode, id, tpl, unopened, unread, torn, under, gone>>,
           saving'.slot = saving.slot, saving'.was = saving.was,
           saving'.next \notin {"none", "open"},
           NEW s \in FileSlots, s = saving.slot,
           DOMAIN Own'.tpls = DOMAIN Own.tpls,
           \A k : FileTpl(k)' = FileTpl(k),
           \A k : k # s => FileId(k)' = FileId(k),
           FileId(s)' = FileId(s) \/ FileId(s)' = id[s]
    PROVE  Sound'
<1>1. /\ \A k : Settled(k) <=> k # s
      /\ \A k : Settled(k)' <=> k # s
      /\ Failures' = Failures /\ OneTorn' = OneTorn
  BY DEF Settled, Failures, OneTorn
<1>2. /\ \A k : Has(k)' = Has(k)
      /\ \A k : k # s => Would(k)' = Would(k)
      /\ Would(s)' \subseteq FileTpl(s)
  BY DEF Has, Would
<1>3. s \in Slots
  BY SlotsAre
<1>4. InPlace'
  <2>1. FileId(s)' \in {0, s + 1}
    BY <1>3 DEF Sound, InPlace
  <2>. QED  BY <2>1 DEF Sound, InPlace
<1>5. FileAgrees'
  BY <1>1, <1>2 DEF Sound, FileAgrees
<1>6. NothingLeft'
  BY <1>1 DEF Sound, NothingLeft
<1>7. WasHeld'
  BY <1>1, <1>2 DEF Sound, WasHeld
<1>8. HasDistinct' /\ HasUnder'
  BY <1>1, <1>2 DEF Sound, HasDistinct, HasUnder
<1>9. WouldDistinct'
  BY DEF WouldDistinct
<1>10. WouldUnder'
  <2>1. SUFFICES ASSUME Failures <= 1, NEW k \in LoadedSlots, Failures = 0 \/ k # s
                 PROVE  Would(k)' \subseteq under[k + 1]
    BY <1>1 DEF WouldUnder
  <2>2. CASE k # s
    BY <1>1, <1>2, <2>1, <2>2 DEF Sound, WouldUnder
  <2>3. CASE k = s
    <3>1. FileTpl(s) \subseteq saving.was
      BY <1>1, <2>1, <2>3 DEF Sound, NothingLeft
    <3>2. saving.was \subseteq under[s + 1]
      BY <2>1, <2>3 DEF Sound, WasHeld
    <3>. QED  BY <1>2, <2>3, <3>1, <3>2
  <2>. QED  BY <2>2, <2>3
<1>11. TornKnown'
  BY <1>1 DEF Sound, TornKnown
<1>12. NoneTorn'
  BY <1>1 DEF Sound, NoneTorn
<1>. QED
  BY <1>4, <1>5, <1>6, <1>7, <1>8, <1>9, <1>10, <1>11, <1>12 DEF Sound

\* The last write: the file says of the slot what the memory does.
LEMMA TplStep ==
    ASSUME TypeOK, Phases, Writes, Sound, SaveTpl
    PROVE  Sound'
<1>1. /\ saving.next = "tpl" /\ mode # "START" /\ saving' = Idle
      /\ UNCHANGED <<mode, id, tpl, unopened, unread, torn, under>>
      /\ gone' = IF saving.for = "delete" THEN gone \cup saving.was ELSE gone
  BY SavesDo DEF SaveTpl
<1>2. PICK s \in FileSlots : s = saving.slot
  BY DEF TypeOK
<1>3. /\ DOMAIN Own'.tpls = DOMAIN Own.tpls \cup 0 .. s
      /\ \A k : FileTpl(k)' = IF k = s THEN tpl[s] ELSE FileTpl(k)
      /\ \A k : FileId(k)' = FileId(k)
  BY <1>1, <1>2, TplDoes DEF Writes
<1>4. FileId(s) = id[s] /\ (id[s] = 0 => tpl[s] = {}) /\ (saving.for = "delete" => id[s] = 0)
  BY <1>1, <1>2 DEF Writes
<1>5. /\ \A k : Settled(k) <=> k # s
      /\ \A k : Settled(k)'
      /\ Failures' = Failures /\ OneTorn' = OneTorn /\ saving'.next = "none"
  BY <1>1, <1>2 DEF Settled, Failures, OneTorn, Idle
<1>6. /\ \A k : Has(k)' = Has(k)
      /\ \A k : k # s => Would(k)' = Would(k)
      /\ Would(s)' = Has(s)
  BY <1>1, <1>3, <1>4 DEF Has, Would
<1>7. s \in DOMAIN Own'.tpls /\ DOMAIN Own.tpls \subseteq DOMAIN Own'.tpls
  <2>1. s \in 0 .. s
    BY SlotsAre
  <2>. QED  BY <1>3, <2>1
<1>8. InPlace'
  BY <1>1, <1>3 DEF Sound, InPlace
<1>9. FileAgrees'
  <2>1. SUFFICES ASSUME unopened = 0, unread = 0, NEW k \in LoadedSlots
                 PROVE  FileId(k) = id[k] /\ Would(k)' = Has(k)
    BY <1>1, <1>3, <1>6 DEF FileAgrees
  <2>2. CASE k = s
    BY <1>4, <1>6, <2>2
  <2>3. CASE k # s
    BY <1>1, <1>5, <1>6, <2>1, <2>3 DEF Sound, FileAgrees
  <2>. QED  BY <2>2, <2>3
<1>10. NothingLeft'
  <2>1. SUFFICES ASSUME Failures = 0, NEW k \in LoadedSlots, FileId(k) = 0
                 PROVE  FileTpl(k)' = {}
    BY <1>3, <1>5 DEF NothingLeft
  <2>2. CASE k = s
    BY <1>3, <1>4, <2>1, <2>2
  <2>3. CASE k # s
    BY <1>3, <1>5, <2>1, <2>3 DEF Sound, NothingLeft
  <2>. QED  BY <2>2, <2>3
<1>11. WasHeld' /\ WouldDistinct'
  BY <1>1, <1>5 DEF WasHeld, WouldDistinct
<1>12. HasDistinct'
  <2>1. SUFFICES ASSUME OneTorn, NEW j \in FileSlots
                 PROVE  /\ Has(j) \cap gone' = {}
                        /\ \A i \in FileSlots \ {j} : Has(i) \cap Has(j) = {}
    BY <1>5, <1>6 DEF HasDistinct
  <2>2. /\ Has(j) \cap gone = {}
        /\ \A i \in FileSlots \ {j} : Has(i) \cap Has(j) = {}
    BY <2>1 DEF Sound, HasDistinct
  <2>3. saving.for = "delete" => saving.was \cap Has(j) = {}
    <3>1. CASE j = s
      BY <1>4, <3>1 DEF Has
    <3>2. CASE j # s
      BY <1>1, <1>2, <2>1, <3>2 DEF Sound, WasHeld
    <3>. QED  BY <3>1, <3>2
  <2>. QED  BY <1>1, <2>2, <2>3
<1>13. HasUnder'
  BY <1>1, <1>5, <1>6 DEF Sound, HasUnder
<1>14. WouldUnder'
  <2>1. SUFFICES ASSUME Failures <= 1, NEW k \in LoadedSlots
                 PROVE  Would(k)' \subseteq under[k + 1]
    BY <1>1, <1>5 DEF WouldUnder
  <2>2. CASE k = s
    BY <1>6, <2>1, <2>2 DEF Sound, HasUnder
  <2>3. CASE k # s
    BY <1>5, <1>6, <2>1, <2>3 DEF Sound, WouldUnder
  <2>. QED  BY <2>2, <2>3
<1>15. TornKnown'
  <2>1. SUFFICES ASSUME Failures <= 1, NEW k \in LoadedSlots, FileId(k) # 0,
                        k \notin DOMAIN Own'.tpls
                 PROVE  id[k] # 0
    BY <1>1, <1>3, <1>5 DEF TornKnown
  <2>2. k # s /\ k \notin DOMAIN Own.tpls
    BY <1>7, <2>1
  <2>. QED  BY <1>1, <1>5, <2>1, <2>2 DEF Sound, TornKnown
<1>16. NoneTorn'
  <2>1. SUFFICES ASSUME Failures = 0, NEW k \in LoadedSlots, FileId(k) # 0
                 PROVE  k \in DOMAIN Own'.tpls
    BY <1>3, <1>5 DEF NoneTorn
  <2>2. CASE k = s
    BY <1>7, <2>2
  <2>3. CASE k # s
    BY <1>5, <1>7, <2>1, <2>3 DEF Sound, NoneTorn
  <2>. QED  BY <2>2, <2>3
<1>. QED
  BY <1>8, <1>9, <1>10, <1>11, <1>12, <1>13, <1>14, <1>15, <1>16 DEF Sound

\* So do the writes of a save before its last.
LEMMA SaveStep ==
    ASSUME TypeOK, Phases, Writes, Sound, SaveOpen \/ SaveNum \/ SaveId \/ SaveArea
    PROVE  Sound'
<1>1. /\ saving.next # "none" /\ mode # "START"
      /\ UNCHANGED <<mode, id, tpl, unread, torn, under, gone>>
  BY SavesDo DEF SaveOpen, SaveNum, SaveId, SaveArea, history
<1>2. PICK s \in FileSlots : s = saving.slot
  BY DEF TypeOK
<1>3. CASE SaveOpen /\ unopened' # unopened
  <2>1. /\ saving.next = "open" /\ UNCHANGED mnt /\ unopened' = unopened + 1
        /\ saving' = Idle /\ UNCHANGED <<id, tpl, unread>>
    BY <1>3 DEF SaveOpen, memory
  <2>. QED  BY <1>1, <2>1, MishapStep
<1>4. CASE unopened' = unopened
  <2>1. /\ saving'.slot = saving.slot /\ saving'.was = saving.was
        /\ saving'.next \notin {"none", "open"}
    BY <1>4 DEF SaveOpen, SaveNum, SaveId, SaveArea, TypeOK
  <2>2. /\ DOMAIN Own'.tpls = DOMAIN Own.tpls
        /\ \A k : FileTpl(k)' = FileTpl(k)
        /\ \A k : k # s => FileId(k)' = FileId(k)
        /\ FileId(s)' = FileId(s) \/ FileId(s)' = id[s]
    <3>1. CASE SaveOpen
      <4>1. mnt' = [n \in Present \cup {OwnName} |-> IF n \in Present THEN mnt[n] ELSE EmptyFile]
        BY <1>4, <3>1 DEF SaveOpen, TypeOK
      <4>. QED  BY <4>1, OpenDoes
    <3>2. CASE SaveNum
      BY <3>2, NumDoes DEF SaveNum, Writes
    <3>3. CASE SaveId
      <4>1. OwnName \in Present
        BY <3>3 DEF SaveId, Writes
      <4>. QED  BY <1>2, <3>3, <4>1, IdDoes
    <3>4. CASE SaveArea
      BY <3>4, AreaDoes DEF SaveArea, Writes
    <3>. QED  BY <3>1, <3>2, <3>3, <3>4
  <2>. QED  BY <1>1, <1>2, <1>4, <2>1, <2>2, WriteStep
<1>5. unopened' = unopened \/ SaveOpen
  BY DEF SaveNum, SaveId, SaveArea, history
<1>. QED  BY <1>3, <1>4, <1>5

\* Every step keeps Sound.
LEMMA SoundStep ==
    ASSUME TypeOK, Phases, Writes, Sound, Others = {}, [Next]_vars
    PROVE  Sound'
<1>1. ASSUME NEW opened \in SUBSET Present, VerifyStart(opened) PROVE Sound'
  <2>1. saving = Idle /\ saving' = Idle /\ UNCHANGED <<mnt, unopened, torn, under, gone>>
    BY <1>1 DEF VerifyStart
  <2>2. saving.next = "none"
    BY <2>1 DEF Idle
  <2>3. opened = Present \/ opened = {}
    BY DEF Others
  <2>4. CASE opened = Present
    BY <1>1, <2>4, LoadStep
  <2>5. CASE opened = {} /\ opened # Present /\ mode = "START"
    <3>1. id' = id /\ tpl' = tpl /\ unread' = unread + 1
      BY <1>1, <2>5, LoadNothing DEF VerifyStart
    <3>. QED  BY <2>1, <2>2, <3>1, MishapStep
  <2>6. CASE opened = {} /\ mode # "START"
    <3>1. id' = id /\ tpl' = tpl
      BY <1>1, <2>6, LoadNothing
    <3>2. unread' = unread /\ mode' # "START"
      BY <1>1, <2>6 DEF VerifyStart
    <3>3. \A j \in FileSlots : Has(j)' = Has(j)
      BY <3>1 DEF Has
    <3>. QED  BY <2>1, <2>6, <3>1, <3>2, <3>3, QuietStep
  <2>. QED  BY <2>3, <2>4, <2>5, <2>6
<1>2. CASE Verify
  <2>1. /\ Fresh /\ UNCHANGED <<mnt, unopened, unread, under, kept, gone>> /\ torn' = torn
        /\ saving = Idle
    BY <1>2 DEF Verify, Op, history
  <2>. QED  BY <2>1, FreshStep
<1>3. CASE PowerCut
  BY <1>3, FreshStep DEF PowerCut
<1>4. CASE EnrollStart
  BY <1>4, EnrollStartStep
<1>5. CASE Renew
  BY <1>5, RenewStep
<1>6. CASE \E f \in Fingers : EnrollFinger(f)
  BY <1>6, TouchStep
<1>7. CASE \E fid \in FingerIds \ {0} : Remove(fid)
  BY <1>7, RemoveStep
<1>8. CASE SaveOpen \/ SaveNum \/ SaveId \/ SaveArea
  BY <1>8, SaveStep
<1>9. CASE SaveTpl
  BY <1>9, TplStep
<1>10. CASE UNCHANGED vars
  <2>1. /\ UNCHANGED <<mnt, saving, unopened, unread, torn, under, gone>> /\ id' = id /\ mode' = mode
        /\ \A j \in FileSlots : Has(j)' = Has(j)
    BY <1>10 DEF vars, memory, history, Has
  <2>. QED  BY <2>1, QuietStep
<1>. QED  BY <1>1, <1>2, <1>3, <1>4, <1>5, <1>6, <1>7, <1>8, <1>9, <1>10 DEF Next

\* The invariant holds at first.
LEMMA InitHolds ==
    ASSUME Init
    PROVE  IInv
<1>1. AnyInv /\ Own = EmptyFile
  BY InitAny
<1>2. \A k : FileId(k) = 0 /\ FileTpl(k) = {} /\ Would(k) = {}
  BY <1>1 DEF FileId, FileTpl, Would, Read, EmptyFile
<1>3. /\ mode = "START" /\ saving.next = "none" /\ \A j \in Slots : id[j] = 0
      /\ \A j \in FileSlots : Has(j) = {}
  BY SlotsAre DEF Init, Idle, Has
<1>4. InPlace /\ NothingLeft /\ WouldDistinct /\ WouldUnder /\ NoneTorn
  BY <1>2, <1>3 DEF InPlace, NothingLeft, WouldDistinct, WouldUnder, NoneTorn, Settled
<1>5. FileAgrees /\ WasHeld /\ HasDistinct /\ HasUnder /\ TornKnown
  BY <1>3 DEF FileAgrees, WasHeld, HasDistinct, HasUnder, TornKnown
<1>. QED  BY <1>1, <1>4, <1>5 DEF IInv, Alone, Sound

\* Every step keeps it.
LEMMA StepHolds ==
    ASSUME IInv, [Next]_vars
    PROVE  IInv'
<1>1. AnyInv' /\ Others' = Others
  BY StepAny DEF IInv
<1>2. Others = {} => Sound'
  BY SoundStep DEF IInv, AnyInv, Alone
<1>. QED  BY <1>1, <1>2 DEF IInv, Alone

\* It implies IdOfFinger.
LEMMA IdOfFingerHolds ==
    ASSUME IInv
    PROVE  IdOfFinger
<1>1. SUFFICES ASSUME Others = {}, unopened + unread + torn <= 1, NEW j \in FileSlots, id[j] # 0
               PROVE  tpl[j] \subseteq under[id[j]]
  BY DEF IdOfFinger
<1>2. Has(j) = tpl[j] /\ Has(j) \subseteq under[j + 1]
  BY <1>1 DEF IInv, Alone, Sound, HasUnder, Has, Failures
<1>3. id[j] = j + 1
  BY <1>1, SlotsAre DEF IInv, Alone, Sound, InPlace
<1>. QED  BY <1>2, <1>3

\* The slots a finger matches are slots of the own file.
LEMMA MatchesHas ==
    ASSUME IInv, Others = {}, NEW f, NEW j \in Matches(f)
    PROVE  j \in FileSlots /\ f \in Has(j)
BY DEF Matches, IInv, Alone, Sound, InPlace, Has

\* It implies NoFingerTwice.
LEMMA NoFingerTwiceHolds ==
    ASSUME IInv
    PROVE  NoFingerTwice
<1>1. SUFFICES ASSUME Others = {}, unopened = 0, unread = 0, torn <= 1, NEW f \in Fingers
               PROVE  Cardinality(Matches(f)) <= 1
  BY DEF NoFingerTwice
<1>2. ASSUME NEW i \in Matches(f), NEW j \in Matches(f) PROVE i = j
  <2>1. i \in FileSlots /\ j \in FileSlots /\ f \in Has(i) /\ f \in Has(j)
    BY <1>1, MatchesHas
  <2>2. i # j => Has(i) \cap Has(j) = {}
    BY <1>1, <2>1 DEF IInv, Alone, Sound, HasDistinct, OneTorn
  <2>. QED  BY <2>1, <2>2
<1>3. CASE Matches(f) = {}
  BY <1>3, FS_EmptySet
<1>4. CASE Matches(f) # {}
  <2>1. PICK j : Matches(f) = {j}
    BY <1>2, <1>4
  <2>. QED  BY <2>1, FS_Singleton
<1>. QED  BY <1>3, <1>4

\* It implies DeletedGone.
LEMMA DeletedGoneHolds ==
    ASSUME IInv
    PROVE  DeletedGone
<1>1. SUFFICES ASSUME Others = {}, unopened = 0, unread = 0, torn <= 1, NEW f \in gone, NEW j \in Matches(f)
               PROVE  FALSE
  BY DEF DeletedGone
<1>2. j \in FileSlots /\ f \in Has(j)
  BY <1>1, MatchesHas
<1>. QED  BY <1>1, <1>2 DEF IInv, Alone, Sound, HasDistinct, OneTorn

\* On a device without other persons' files, an ID stands for fingers enrolled
\* under it and no others, whatever was enrolled, deleted, renewed and loaded
\* again, and although one of the saves (chips_save_fingerprints, five writes)
\* could not be opened or was cut off between two of its writes, or one process
\* could not open the file to load it.
THEOREM IdsOfFingers == Spec => []IdOfFinger
<1>1. Init => IInv
  BY InitHolds
<1>2. IInv /\ [Next]_vars => IInv'
  BY StepHolds
<1>3. IInv => IdOfFinger
  BY IdOfFingerHolds
<1>. QED  BY <1>1, <1>2, <1>3, PTL DEF Spec

\* No finger is known under two IDs on such a device, also after a save that
\* was cut off: a touch that matches is refused (NO_REPEAT_ENROLL), and what a
\* later process loads is known once, too.
THEOREM NoneTwice == Spec => []NoFingerTwice
<1>1. Init => IInv
  BY InitHolds
<1>2. IInv /\ [Next]_vars => IInv'
  BY StepHolds
<1>3. IInv => NoFingerTwice
  BY NoFingerTwiceHolds
<1>. QED  BY <1>1, <1>2, <1>3, PTL DEF Spec

\* A finger whose deletion (chips_delete_finger) was saved matches no slot, in
\* this process and every later one, until it is enrolled again; one save that
\* is cut off does not bring it back.
THEOREM DeletedStaysGone == Spec => []DeletedGone
<1>1. Init => IInv
  BY InitHolds
<1>2. IInv /\ [Next]_vars => IInv'
  BY StepHolds
<1>3. IInv => DeletedGone
  BY DeletedGoneHolds
<1>. QED  BY <1>1, <1>2, <1>3, PTL DEF Spec
=============================================================================
