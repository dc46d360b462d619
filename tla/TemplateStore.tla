--------------------------- MODULE TemplateStore ---------------------------
(***************************************************************************)
(* The fingerprints of mlx_fingerprint_test: the table in memory           *)
(* (g_fingernum, g_fingerid, g_template), the files under /mnt it is       *)
(* loaded from, and the one file, fingerprint.bin, it is saved to.         *)
(*                                                                         *)
(* The program as it is built loads and verifies.  Enrolling, deleting and *)
(* renewing are there too, in chips_api.c and behind chips_fingerprint.c's *)
(* enroll_start and remove, and are modelled with it: they write the       *)
(* format that is loaded.                                                  *)
(*                                                                         *)
(* A save is a sequence of writes into the file; power may fail between    *)
(* any two of them.  A template slot is the set of fingers its features    *)
(* were taken from: a feature matches the finger it is of and no other     *)
(* (libCSAlg is outside), and the order sort gives the features within a   *)
(* slot does not matter to a match.                                        *)
(***************************************************************************)
EXTENDS Integers, FiniteSets

CONSTANTS
    FINGER_COUNT,           \* slots of a file: 5
    FINGER_COUNT_SUPPORT,   \* slots loaded from each file: 2
    PERSON_COUNT,           \* files loaded at most: 5
    ENROLL_COUNT,           \* touches of an enrolment: 8
    Fingers,                \* the fingers there are
    Names,                  \* file names, as their places in alphasort's order
    OwnName,                \* fingerprint.bin
    InitialMnt,             \* what /mnt may hold at first
    MaxOps,                 \* bound: operations in a behaviour
    MaxCuts,                \* bound: power cuts in a behaviour
    MaxUnopened             \* bound: saves and first loads that fail in a behaviour

ASSUME TemplateStoreAssumption ==
    /\ {FINGER_COUNT, FINGER_COUNT_SUPPORT, PERSON_COUNT, ENROLL_COUNT} \subseteq Nat \ {0}
    /\ FINGER_COUNT_SUPPORT <= FINGER_COUNT
    /\ FINGER_COUNT <= FINGER_COUNT_SUPPORT * PERSON_COUNT
    /\ Names \subseteq Nat /\ OwnName \in Names
    /\ {MaxOps, MaxCuts, MaxUnopened} \subseteq Nat

Slots     == 0 .. (FINGER_COUNT_SUPPORT * PERSON_COUNT - 1)
FileSlots == 0 .. (FINGER_COUNT - 1)
FingerIds == 0 .. FINGER_COUNT      \* 0: no finger

\* What a file holds of an array of n entries, up to its end.
IsArray(array, n, S) ==
    \E m \in 0 .. n : array \in [0 .. (m - 1) -> S]

IsFile(file) ==
    /\ file = [num |-> file.num, ids |-> file.ids, tpls |-> file.tpls]
    /\ IsArray(file.num, 1, Int)
    /\ IsArray(file.ids, FINGER_COUNT, FingerIds)
    /\ IsArray(file.tpls, FINGER_COUNT, SUBSET Fingers)

\* configname copies other persons' files, each as a save left it that was not
\* cut off: all IDs, and the templates of those that stand for a finger.
ASSUME InitialMntAssumption ==
    \A disk \in InitialMnt :
        /\ IsFiniteSet(DOMAIN disk) /\ DOMAIN disk \subseteq Names \ {OwnName}
        /\ \A n \in DOMAIN disk :
             /\ IsFile(disk[n])
             /\ DOMAIN disk[n].ids = FileSlots
             /\ \A k \in FileSlots : disk[n].ids[k] # 0 => k \in DOMAIN disk[n].tpls

EmptyFile == [num |-> <<>>, ids |-> <<>>, tpls |-> <<>>]

\* A write at place k; what lies before it and was not there reads as zero.
Written(array, k, entry, zero) ==
    [m \in DOMAIN array \cup 0 .. k |->
        IF m = k THEN entry ELSE IF m \in DOMAIN array THEN array[m] ELSE zero]

VARIABLES
    mnt,        \* the files there are, by name
    mode,       \* listener.state; "START" until the listener's first load
    num,        \* g_fingernum
    id,         \* g_fingerid
    tpl,        \* g_template
    cur,        \* g_cur_enroll_idx
    saving,     \* the save under way: its slot, its next write, what it is for
    counts,     \* operations and power cuts so far
    unopened,   \* history: saves whose file could not be opened
    unread,     \* history: processes whose first load missed a file there was
    torn,       \* history: saves a power cut interrupted
    touched,    \* history: the fingers the enrolment under way has taken
    under,      \* history: per ID, the fingers last enrolled under it
    kept,       \* history: fingers whose enrolment was saved, and not deleted
    gone        \* history: fingers whose deletion was saved, and not enrolled again

memory == <<num, id, tpl, cur>>
history == <<unopened, unread, torn, touched, under, kept, gone>>
vars == <<mnt, mode, memory, saving, counts, history>>

Idle == [slot |-> 0, next |-> "none", for |-> "none", was |-> {}]

TypeOK ==
    /\ DOMAIN mnt \subseteq Names /\ \A n \in DOMAIN mnt : IsFile(mnt[n])
    /\ mode \in {"START", "KEY", "VERIFY", "ENROLL"}
    /\ num \in Int
    /\ id \in [Slots -> FingerIds]
    /\ tpl \in [Slots -> SUBSET Fingers]
    /\ cur \in 0 .. (ENROLL_COUNT - 1)
    /\ saving \in [slot : FileSlots, next : {"none", "open", "num", "id", "area", "tpl"},
                   for : {"none", "enrol", "delete", "renew"}, was : SUBSET Fingers]
    /\ counts \in [ops : 0 .. MaxOps, cuts : 0 .. MaxCuts]
    /\ unopened \in Nat /\ unread \in Nat /\ torn \in Nat
    /\ touched \subseteq Fingers
    /\ under \in [FingerIds -> SUBSET Fingers]
    /\ kept \subseteq Fingers /\ gone \subseteq Fingers

\* The memory of a process that has just started.
Fresh ==
    /\ mode' = "START"
    /\ num' = 0
    /\ id' = [j \in Slots |-> 0]
    /\ tpl' = [j \in Slots |-> {}]
    /\ cur' = 0
    /\ saving' = Idle

Init ==
    /\ mnt \in InitialMnt
    /\ mode = "START"
    /\ num = 0
    /\ id = [j \in Slots |-> 0]
    /\ tpl = [j \in Slots |-> {}]
    /\ cur = 0
    /\ saving = Idle
    /\ counts = [ops |-> 0, cuts |-> 0]
    /\ unopened = 0 /\ unread = 0 /\ torn = 0
    /\ touched = {}
    /\ under = [i \in FingerIds |-> {}]
    /\ kept = {}
    /\ gone = {}

-----------------------------------------------------------------------------
\* The files scandir finds, and the place of each among them.
Present == DOMAIN mnt
FileIdx(n) == Cardinality({m \in Present : m < n})

Capped(n) == IF n > FINGER_COUNT_SUPPORT THEN FINGER_COUNT_SUPPORT ELSE n

\* chips_load_fingerprints_from_file for every file, the last one first:
\* each that opens overwrites g_fingernum, so the first one's number remains.
LoadedNum(opened) ==
    LET counted == {n \in opened : mnt[n].num # <<>>}
    IN  IF counted = {} THEN num
        ELSE Capped(mnt[CHOOSE n \in counted : \A m \in counted : n <= m].num[0])

\* Slip: a file's slots lie in the table as far apart as in the file.
SourceSpread(j) == {n \in Present : FileIdx(n) = j \div FINGER_COUNT}

\* A slot of the table comes from one file, by the file's place among all that
\* scandir found; it stays as it is when that file does not open or ends before.
Source(j) == {n \in Present : FileIdx(n) = j \div FINGER_COUNT_SUPPORT}
Loaded(opened, j, part, old) ==
    LET k      == j % FINGER_COUNT_SUPPORT
        source == {n \in Source(j) \cap opened : k \in DOMAIN part[n]}
    IN  IF source = {} THEN old ELSE part[CHOOSE n \in source : TRUE][k]

\* fingerprint_verify_start: load the files that open - none when scandir
\* fails or finds more than PERSON_COUNT - and scan for a finger only when
\* chips_get_fingernum is not 0.
VerifyStart(opened) ==
    /\ mode \in {"START", "KEY"} /\ saving = Idle
    /\ Cardinality(Present) > PERSON_COUNT => opened = {}
    /\ num' = LoadedNum(opened)
    /\ id' = [j \in Slots |-> Loaded(opened, j, [n \in Present |-> mnt[n].ids], id[j])]
    /\ tpl' = [j \in Slots |-> Loaded(opened, j, [n \in Present |-> mnt[n].tpls], tpl[j])]
    /\ mode' = IF num' # 0 THEN "VERIFY" ELSE "KEY"
    /\ IF mode = "START" /\ opened # Present
       THEN unopened + unread < MaxUnopened /\ unread' = unread + 1
       ELSE UNCHANGED unread
    /\ UNCHANGED <<mnt, cur, saving, counts, unopened, torn, touched, under, kept, gone>>

Op == /\ saving = Idle
      /\ mode # "START"
      /\ counts.ops < MaxOps
      /\ counts' = [counts EXCEPT !.ops = @ + 1]

\* A touch while scanning: chips_verify, and whatever it returns the process
\* ends itself; main of syslcd starts it again at its next boot.
Verify ==
    /\ Op
    /\ mode = "VERIFY"
    /\ Fresh
    /\ UNCHANGED <<mnt, history>>

\* chips_get_finger_idx and chips_get_fid look at FINGER_COUNT slots.
FreeSlots == {j \in FileSlots : id[j] = 0}
Lowest(S) == CHOOSE j \in S : \A m \in S : j <= m
FreeIds   == {i \in FingerIds \ {0} : \A j \in FileSlots : id[j] # i}

\* Slips: the templates are not zeroed, the touches not counted from 0 again,
\* a touch not compared with what is enrolled.
ErasedNot(slot)   == tpl
NextTouchOn(n)    == n + 1
KnownUnchecked(f) == FALSE

\* memset of a slot's templates.
Erased(slot) == [tpl EXCEPT ![slot] = {}]

\* g_cur_enroll_idx after another touch.
NextTouch(n) == IF n + 1 = ENROLL_COUNT THEN 0 ELSE n + 1

\* NO_REPEAT_ENROLL: the touch matches what is enrolled.
Known(f) == \E j \in FileSlots : id[j] # 0 /\ f \in tpl[j]

\* fingerprint_enroll_start.
EnrollStart ==
    /\ Op
    /\ FreeSlots # {}
    /\ cur' = 0
    /\ tpl' = Erased(Lowest(FreeSlots))
    /\ mode' = "ENROLL"
    /\ touched' = {}
    /\ UNCHANGED <<mnt, num, id, saving, unopened, unread, torn, under, kept, gone>>

\* chips_save_fingerprints is called.
Save(slot, for, was) == saving' = [slot |-> slot, next |-> "open", for |-> for, was |-> was]

\* chips_update_template.
UpdateTemplate(idx, fid) ==
    /\ id' = [id EXCEPT ![idx] = fid]
    /\ num' = num + 1
    /\ Save(idx, "enrol", tpl'[idx])

\* A touch while enrolling: refused when the finger is known, or when it
\* lies where it lay before (and then only merged); the last one is followed
\* by chips_update_template.
EnrollFinger(f) ==
    /\ mode = "ENROLL" /\ saving = Idle
    /\ FreeSlots # {} /\ FreeIds # {}
    /\ ~Known(f)
    /\ LET idx  == Lowest(FreeSlots)
           fid  == Lowest(FreeIds)
           last == cur + 1 = ENROLL_COUNT
       IN  /\ tpl' = [tpl EXCEPT ![idx] = @ \cup {f}]
           /\ cur' = NextTouch(cur)
           /\ touched' = touched \cup {f}
           /\ IF last
              THEN /\ UpdateTemplate(idx, fid)
                   /\ under' = [under EXCEPT ![fid] = touched']
                   /\ gone' = gone \ touched'
                   /\ mode' = "KEY"
              ELSE UNCHANGED <<id, num, saving, under, gone, mode>>
    /\ UNCHANGED <<mnt, counts, unopened, unread, torn, kept>>

\* fingerprint_remove of one ID: chips_delete_finger.
Remove(fid) ==
    /\ Op
    /\ LET Found == {j \in FileSlots : id[j] = fid}
           idx   == Lowest(Found)
       IN  IF Found = {} THEN UNCHANGED <<num, id, tpl, saving>>
           ELSE /\ num' = num - 1
                /\ id' = [id EXCEPT ![idx] = 0]
                /\ tpl' = Erased(idx)
                /\ Save(idx, "delete", tpl[idx])
    /\ mode' = "KEY"
    /\ kept' = kept \ UNION {tpl[j] : j \in {k \in FileSlots : id[k] = fid}}
    /\ UNCHANGED <<mnt, cur, unopened, unread, torn, touched, under, gone>>

\* The slots chips_verify finds a finger in; it stops at the first.
Matches(f) == {j \in Slots : id[j] # 0 /\ f \in tpl[j]}

\* chips_renew_feature of the ID that a finger matched under: a feature of the
\* first slot with that ID gives way to one of the finger.  In the slot that
\* matched it is the finger's own; in another one with the same ID, which
\* another person's file may bring, it is any.
Renew ==
    /\ Op
    /\ mode = "VERIFY"
    /\ \E f \in Fingers :
         LET j     == Lowest(Matches(f))
             Found == {m \in FileSlots : id[m] = id[j]}
             idx   == Lowest(Found)
         IN  /\ Matches(f) # {} /\ Found # {}
             /\ \E lost \in {{}} \cup {{g} : g \in tpl[idx]} :
                  /\ lost # {} => idx # j /\ (lost # tpl[idx] \/ ENROLL_COUNT = 1)
                  /\ tpl' = [tpl EXCEPT ![idx] = (@ \ lost) \cup {f}]
                  /\ Save(idx, "renew", tpl'[idx])
    /\ UNCHANGED <<mnt, mode, num, id, cur, history>>

-----------------------------------------------------------------------------
\* chips_save_fingerprints: it opens the file, creating it when there is
\* none, and writes the number, the ID, width and height, and the templates
\* of one slot.
SaveOpen ==
    /\ saving.next = "open"
    /\ \/ /\ mnt' = [n \in Present \cup {OwnName} |-> IF n \in Present THEN mnt[n] ELSE EmptyFile]
          /\ saving' = [saving EXCEPT !.next = "num"]
          /\ UNCHANGED unopened
       \/ /\ unopened + unread < MaxUnopened
          /\ unopened' = unopened + 1    \* fopen fails: nobody is told
          /\ saving' = Idle
          /\ UNCHANGED mnt
    /\ UNCHANGED <<mode, memory, counts, unread, torn, touched, under, kept, gone>>

SaveNum ==
    /\ saving.next = "num"
    /\ mnt' = [mnt EXCEPT ![OwnName].num = Written(@, 0, num, 0)]
    /\ saving' = [saving EXCEPT !.next = "id"]
    /\ UNCHANGED <<mode, memory, counts, history>>

SaveId ==
    /\ saving.next = "id"
    /\ mnt' = [mnt EXCEPT ![OwnName].ids =
                 Written(@, saving.slot, id[saving.slot], 0)]
    /\ saving' = [saving EXCEPT !.next = "area"]
    /\ UNCHANGED <<mode, memory, counts, history>>

\* Widths and heights are never loaded; writing them fills up the IDs.
SaveArea ==
    /\ saving.next = "area"
    /\ mnt' = [mnt EXCEPT ![OwnName].ids =
                 [m \in FileSlots |-> IF m \in DOMAIN @ THEN @[m] ELSE 0]]
    /\ saving' = [saving EXCEPT !.next = "tpl"]
    /\ UNCHANGED <<mode, memory, counts, history>>

SaveTpl ==
    /\ saving.next = "tpl"
    /\ mnt' = [mnt EXCEPT ![OwnName].tpls =
                 Written(@, saving.slot, tpl[saving.slot], {})]
    /\ saving' = Idle
    /\ kept' = IF saving.for = "enrol" THEN kept \cup saving.was ELSE kept
    /\ gone' = IF saving.for = "delete" THEN gone \cup saving.was ELSE gone
    /\ UNCHANGED <<mode, memory, counts, unopened, unread, torn, touched, under>>

\* Power fails and returns; what was written stays.
PowerCut ==
    /\ counts.cuts < MaxCuts
    /\ counts' = [counts EXCEPT !.cuts = @ + 1]
    /\ torn' = IF saving = Idle THEN torn ELSE torn + 1
    /\ Fresh
    /\ touched' = {}
    /\ UNCHANGED <<mnt, unopened, unread, under, kept, gone>>

Next ==
    \/ \E opened \in SUBSET Present : VerifyStart(opened)
    \/ Verify \/ EnrollStart \/ Renew
    \/ \E f \in Fingers : EnrollFinger(f)
    \/ \E fid \in FingerIds \ {0} : Remove(fid)
    \/ SaveOpen \/ SaveNum \/ SaveId \/ SaveArea \/ SaveTpl
    \/ PowerCut

Spec == Init /\ [][Next]_vars

-----------------------------------------------------------------------------
\* The files of other persons, and their fingers that are loaded.
Others      == Present \ {OwnName}
OthersSlots == {s \in Others \X (0 .. FINGER_COUNT_SUPPORT - 1) : mnt[s[1]].ids[s[2]] # 0}

\* An ID never stands for somebody else's finger, although the save that
\* binds an ID to templates is five writes (chips_api.c:884-927), the ID
\* before the templates, and a load may find the file but not open it.  One
\* mishap does not break this; two do: a torn save that leaves a deleted
\* finger's templates in the file, or a load that leaves the table empty so
\* that an ID of the file is given again, and then a torn save that writes the
\* ID but not the templates.
IdOfFinger ==
    Others = {} /\ unopened + unread + torn <= 1 =>
        \A j \in FileSlots : id[j] # 0 => tpl[j] \subseteq under[id[j]]

\* No finger is known under two IDs, whatever was enrolled, deleted, cut off
\* by power and loaded again: a known finger is refused at each touch of an
\* enrolment.  (A deletion whose save could not be opened comes back, a process
\* whose load failed does not know what it enrols again, and the second torn
\* save can put an ID to templates the first one left.)
NoFingerTwice ==
    Others = {} /\ unopened = 0 /\ unread = 0 /\ torn <= 1 =>
        \A f \in Fingers : Cardinality(Matches(f)) <= 1

\* A finger whose deletion was saved is not verified any more, also not by a
\* later process, nor after one later save that power cuts off.  (A process
\* whose load failed can enrol and delete it while the file holds it still.)
DeletedGone ==
    Others = {} /\ unopened = 0 /\ unread = 0 /\ torn <= 1 =>
        \A f \in gone : Matches(f) = {}

\* Whenever the scanner starts, the fingers of each file of another person that
\* could be opened are known under the IDs of that file: a file that does not
\* open takes nothing from the others, and neither does what was enrolled,
\* deleted, renewed or cut off here before, which all goes to fingerprint.bin
\* and only moves the other files' places in the table.  (Until then a renewal
\* may push another person's feature out of the table.)
OthersLoaded(opened) ==
    \A s \in OthersSlots : s[1] \in opened =>
        \A f \in mnt[s[1]].tpls[s[2]] :
            \E j \in Matches(f) : id[j] = mnt[s[1]].ids[s[2]]

OthersKnown ==
    [][\A opened \in SUBSET Present :
          VerifyStart(opened) /\ mode' = "VERIFY" => OthersLoaded(opened)']_vars

\* chips_get_fingernum "returns the number of fingerprints in the present
\* list of fingerprints" (chips_api.c:1794-1796).
FingernumCounts == saving = Idle => num = Cardinality({j \in Slots : id[j] # 0})

\* What chips_update_template saved ("saves the fingerprint data to the
\* file", chips_api.c:1517), chips_load_fingerprints loads ("from the file
\* into memory", chips_api.c:825).
EnrolledKept ==
    unopened = 0 /\ unread = 0 /\ torn = 0 /\ mode = "VERIFY" => \A f \in kept : Matches(f) # {}
=============================================================================
