--------------------------- MODULE Device_proofs ---------------------------
(***************************************************************************)
(* Proofs about the running device, for every set of digits and buttons    *)
(* and every budget: which program may wait for which, who may touch the   *)
(* address, the store and the downloads at which point of the boot, and    *)
(* what follows from it.                                                   *)
(***************************************************************************)
EXTENDS Device, SequenceTheorems, TLAPS

boot == stack["main"]

(***************************************************************************)
(* The inductive invariant.                                                *)
(***************************************************************************)
BootPrograms ==
    {"main", "wanconnect", "instancemd", "configname", "synctime", "MD_Download", "SD_Download",
     "mlx_fingerprint_test", "WanPingOk", "DownloadPingOk", "PingFail", "MDCheck", "SDCheck",
     "Invalid"}

EventPrograms ==
    {"MD_Download", "SD_Download", "DownloadPingOk", "PingFail", "MDCheck", "SDCheck",
     "ButtonMD", "ButtonSD", "ButtonUser", "ButtonSOS", "Nothing", "UserValid", "UserInvalid",
     "PassValid", "PassInvalid", "Copies"}

Typed ==
    /\ stack \in [Threads -> Seq(Activation)]
    /\ \A t \in Threads : \A i \in 1 .. Len(stack[t]) : stack[t][i].at >= 1
    /\ DOMAIN panel = DOMAIN PanelReset /\ panel.gui \in Windows
    /\ {panel.red, panel.green} \subseteq {"off", "on"} /\ panel.college \in BOOLEAN
    /\ line \in Seq(ButtonFrame \cup EntryFrame)
    /\ globals \subseteq {"windown_selected", "data_mode_selected", "md", "sd"}
    /\ address \in {"missing", "empty", "written"}
    /\ files \in [Files -> [state : {"absent", "bad", "whole"}, writers : SUBSET Threads,
                         done : SUBSET BOOLEAN]]
    /\ store \in BOOLEAN /\ net \in BOOLEAN /\ registered \in BOOLEAN
    /\ idGiven \in BOOLEAN /\ buttonAsId \in BOOLEAN
    /\ counts \in [downloads : Nat, inputs : Nat, changes : Nat, cuts : Nat]
    /\ \E b \in Budgets : \A what \in DOMAIN b : counts[what] <= b[what]
    /\ spoiled \subseteq {"master", "session", "instancemd", "configname"}

\* The program prog may stand on the activation a: a ran it with the command
\* it has behind it, or a failed ping or a rejection keeps a where it is.
Calls(a, prog) ==
    \/ /\ a.prog = "main"
       /\ \/ a.at = 8 /\ prog = "wanconnect"
          \/ a.at = 10 /\ prog = "MD_Download"
          \/ a.at = 12 /\ prog = "SD_Download"
          \/ a.at = 14 /\ prog = "mlx_fingerprint_test"
    \/ /\ a.prog = "wanconnect"
       /\ \/ a.at = 2 /\ prog = "PingFail"
          \/ a.at = 3 /\ prog = "WanPingOk"
          \/ a.at = 4 /\ prog = "instancemd"
          \/ a.at = 5 /\ (prog = "configname" \/ prog = "PingFail")
          \/ a.at = 6 /\ prog = "WanPingOk"
          \/ a.at = 7 /\ prog = "synctime"
    \/ a.prog = "instancemd" /\ a.at = 2 /\ prog = "Invalid"
    \/ /\ a.prog \in {"MD_Download", "SD_Download"}
       /\ \/ a.at = 2 /\ prog \in {"PingFail", "MDCheck", "SDCheck"}
          \/ a.at = 3 /\ prog = "DownloadPingOk"
    \/ a.prog \in {"MDCheck", "SDCheck"} /\ a.at = 1 /\ prog = "PingFail"

\* main at the bottom, and each program on one that runs it.
BootStack ==
    /\ boot # <<>>
    /\ boot[1].prog = "main"
    /\ \A i \in 1 .. Len(boot) : boot[i].prog \in BootPrograms
    /\ \A i \in 1 .. Len(boot) - 1 : Calls(boot[i], boot[i + 1].prog)

EventStack == \A i \in 1 .. Len(stack["uart"]) : stack["uart"][i].prog \in EventPrograms

\* The activation a, on top of its stack or not, has instancemd behind it.
PastInstance(a, top) ==
    \/ a.prog = "main" /\ (a.at >= 9 \/ (a.at = 8 /\ top))
    \/ a.prog = "wanconnect" /\ (a.at >= 5 \/ (a.at = 4 /\ top))
    \/ a.prog = "instancemd" /\ a.at >= 5

Addressed == address = "written" \/ "instancemd" \in spoiled

AddressThen ==
    \A i \in 1 .. Len(boot) : PastInstance(boot[i], i = Len(boot)) => Addressed

\* a has configname behind it, or its last step only.
PastConfig(a, top) ==
    \/ a.prog = "main" /\ (a.at >= 9 \/ (a.at = 8 /\ top))
    \/ a.prog = "wanconnect" /\ (a.at >= 6 \/ (a.at = 5 /\ top))
    \/ a.prog = "configname" /\ a.at >= 8

\* The name of the college is on the panel when the store holds fingerprints:
\* both come from one configuration.
Named == panel.college \/ "configname" \in spoiled

CollegeThen ==
    /\ \A i \in 1 .. Len(boot) : PastConfig(boot[i], i = Len(boot)) => (store => Named)
    /\ \A i \in 1 .. Len(boot) :
         boot[i].prog = "configname" /\ boot[i].at = 7
             => (store => files["config"].state = "whole")
    \* A ping of wanconnect that failed after configname.
    /\ \A i \in 1 .. Len(boot) - 1 :
         boot[i].prog = "wanconnect" /\ boot[i].at = 5 /\ boot[i + 1].prog = "PingFail"
             => (store => Named)

\* a has a touch behind it.
PastTouch(a, top) ==
    \/ a.prog = "main" /\ (a.at >= 15 \/ (a.at = 14 /\ top))
    \/ a.prog = "mlx_fingerprint_test" /\ a.at >= 3

StoreThen == \A i \in 1 .. Len(boot) : PastTouch(boot[i], i = Len(boot)) => store

\* Only instancemd at its question has been turned away.
RejectedAsks ==
    \A i \in 1 .. Len(boot) :
        boot[i].reply = "false" => boot[i].prog = "instancemd" /\ boot[i].at = 2

\* A right user ID, or what was read as one, comes before each part of the
\* way to the pass code.
Auth == idGiven \/ buttonAsId

AuthOnLine == \A i \in 1 .. Len(line) : line[i].type = "password" => Auth

AuthOnStack ==
    \A i \in 1 .. Len(stack["uart"]) :
        stack["uart"][i].prog \in {"UserValid", "PassValid", "PassInvalid"} => Auth

\* The downloads main notes as done, the program of each, and where main is
\* when that program has returned.
Downloads == {"master", "session"}
Fetcher(file) == IF file = "master" THEN "MD_Download" ELSE "SD_Download"
Noted(file)   == IF file = "master" THEN "md" ELSE "sd"
Place(file)   == IF file = "master" THEN 10 ELSE 12

Blamed(what) == what \in spoiled

PastFetch(file, a, top) ==
    \/ a.prog = "main" /\ (a.at > Place(file) \/ (a.at = Place(file) /\ top))
    \/ a.prog = Fetcher(file) /\ a.at >= 7

NotedThen == \A file \in Downloads : Noted(file) \in globals => boot[1].at > Place(file)

\* Who writes a download is between its opening and its closing, and main is
\* never there without writing.
WritersAt ==
    \A file \in Downloads : \A t \in files[file].writers :
        Running(t) /\ Top(t).prog = Fetcher(file) /\ Top(t).at = 6

MainWrites ==
    \A file \in Downloads :
        Top("main").prog = Fetcher(file) /\ Top("main").at = 6 => "main" \in files[file].writers

NoCrcBlamed ==
    \A t \in Threads : \A i \in 1 .. Len(stack[t]) : \A file \in Downloads :
        stack[t][i].prog = Fetcher(file) /\ stack[t][i].at >= 5 /\ ~stack[t][i].crc
            => Blamed(file)

DoneBlamed == \A file \in Downloads : FALSE \in files[file].done => Blamed(file)

FetchedThen ==
    \A file \in Downloads : \A i \in 1 .. Len(boot) :
        PastFetch(file, boot[i], i = Len(boot)) =>
            (files[file].writers = {} /\ files[file].state # "whole" => Blamed(file))

Coherent ==
    /\ BootStack /\ EventStack
    /\ AddressThen /\ CollegeThen /\ StoreThen /\ RejectedAsks
    /\ AuthNeedsUserId /\ AuthOnLine /\ AuthOnStack
    /\ NotedThen /\ WritersAt /\ MainWrites /\ NoCrcBlamed /\ DoneBlamed /\ FetchedThen

IInv == Typed /\ Coherent

-----------------------------------------------------------------------------
(***************************************************************************)
(* The scripts: what the proofs use of them.                               *)
(***************************************************************************)

\* A message of prog never names the college, shows what the panel has, and
\* shows what follows a right user ID in three programs only.
Shown(prog, changes) ==
    /\ "college" \notin DOMAIN changes
    /\ "gui" \in DOMAIN changes =>
         /\ changes.gui \in Windows
         /\ changes.gui = "PASSWORD_INPUT" => prog \in {"UserValid", "PassInvalid"}
    /\ "red" \in DOMAIN changes => changes.red \in {"off", "on"}
    /\ "green" \in DOMAIN changes => changes.green \in {"off", "on"}
    /\ "line1" \in DOMAIN changes =>
         (changes.line1 = "Authentication Successful" => prog = "PassValid")

\* The places of the commands that matter: command c is the k-th of prog.
Known(prog, k, c) ==
    LET download == prog \in {"MD_Download", "SD_Download"}
    IN  /\ c.op = "show" => Shown(prog, c.changes)
        /\ (c.op = "reset") <=> (prog = "main" /\ k = 1)
        /\ (c.op = "set") <=> (prog = "main" /\ k \in {2, 3, 10, 12})
        /\ c.op = "set" =>
              \/ k = 2 /\ c.global = "windown_selected"
              \/ k = 3 /\ c.global = "data_mode_selected"
              \/ k = 10 /\ c.global = "md"
              \/ k = 12 /\ c.global = "sd"
        /\ (c.op = "run") <=>
              \/ prog = "main" /\ k \in {7, 9, 11, 13}
              \/ prog = "wanconnect" /\ k \in {3, 4, 6}
              \/ prog \in {"ButtonMD", "ButtonSD"} /\ k = 2
        /\ c.op = "run" =>
              \/ prog = "main" /\ k = 7 /\ c.prog = "wanconnect"
              \/ prog \in {"main", "ButtonMD"} /\ k \in {9, 2} /\ c.prog = "MD_Download"
              \/ prog \in {"main", "ButtonSD"} /\ k \in {11, 2} /\ c.prog = "SD_Download"
              \/ prog = "main" /\ k = 13 /\ c.prog = "mlx_fingerprint_test"
              \/ prog = "wanconnect" /\ k = 3 /\ c.prog = "instancemd"
              \/ prog = "wanconnect" /\ k = 4 /\ c.prog = "configname"
              \/ prog = "wanconnect" /\ k = 6 /\ c.prog = "synctime"
        /\ (c.op = "ping") <=> ((prog = "wanconnect" /\ k \in {2, 5}) \/ (download /\ k = 2))
        /\ (c.op = "read_address") <=> (download /\ k = 1)
        /\ (c.op = "ask_crc") <=> (download /\ k = 4)
        /\ (c.op = "open") <=> ((prog = "configname" /\ k = 3) \/ (download /\ k = 5))
        /\ (c.op = "close") <=> ((prog = "configname" /\ k = 4) \/ (download /\ k = 6))
        /\ c.op \in {"open", "close"} => c.file = FileOf(prog)
        /\ (c.op = "ask_config_crc") <=> (prog = "configname" /\ k = 1)
        /\ (c.op = "rm_downloads") <=> (prog = "configname" /\ k = 2)
        /\ (c.op = "rm_store") <=> (prog = "configname" /\ k = 5)
        /\ (c.op = "cp_store") <=> (prog = "configname" /\ k = 6)
        /\ (c.op = "college") <=> (prog = "configname" /\ k = 7)
        /\ (c.op = "truncate_address") <=> (prog = "instancemd" /\ k = 1)
        /\ (c.op = "ask_instance") <=> (prog = "instancemd" /\ k = 2)
        /\ (c.op = "write_address") <=> (prog = "instancemd" /\ k = 4)
        /\ (c.op = "touch") <=> (prog = "mlx_fingerprint_test" /\ k = 2)
        /\ (c.op = "copies") <=> (prog = "PassValid" /\ k = 4)

\* The programs there are.
LEMMA ProgramsAre == ProgramNames = BootPrograms \cup EventPrograms
BY DEF ProgramNames, Script, BootPrograms, EventPrograms

\* Where the programs end whose end matters.
LEMMA Lengths ==
    /\ Len(Script["main"]) = 14 /\ Len(Script["wanconnect"]) = 9
    /\ Len(Script["instancemd"]) = 4 /\ Len(Script["configname"]) = 7
    /\ Len(Script["MD_Download"]) = 7 /\ Len(Script["SD_Download"]) = 7
    /\ Len(Script["mlx_fingerprint_test"]) = 3
BY DEF Script, Main, Wanconnect, Instancemd, Configname, MDDownload, SDDownload, Fingerprint

\* Every script has a length.
LEMMA ScriptsAreSequences == \A prog \in ProgramNames : Len(Script[prog]) \in Nat
<1>1. /\ Len(Script["WanPingOk"]) \in Nat /\ Len(Script["DownloadPingOk"]) \in Nat
      /\ Len(Script["PingFail"]) \in Nat /\ Len(Script["MDCheck"]) \in Nat
      /\ Len(Script["SDCheck"]) \in Nat /\ Len(Script["Invalid"]) \in Nat
      /\ Len(Script["synctime"]) \in Nat /\ Len(Script["Nothing"]) \in Nat
  BY DEF Script, Synctime, WanPingOk, DownloadPingOk, PingFail, MDCheck, SDCheck, Invalid
<1>2. /\ Len(Script["ButtonMD"]) \in Nat /\ Len(Script["ButtonSD"]) \in Nat
      /\ Len(Script["ButtonUser"]) \in Nat /\ Len(Script["ButtonSOS"]) \in Nat
  BY DEF Script, ButtonMD, ButtonSD, ButtonUser, ButtonSOS
<1>3. /\ Len(Script["UserValid"]) \in Nat /\ Len(Script["UserInvalid"]) \in Nat
      /\ Len(Script["PassValid"]) \in Nat /\ Len(Script["PassInvalid"]) \in Nat
      /\ Len(Script["Copies"]) \in Nat
  BY DEF Script, UserValid, UserInvalid, PassValid, PassInvalid, Copies
<1>. QED  BY <1>1, <1>2, <1>3, Lengths, ProgramsAre DEF BootPrograms, EventPrograms

\* Each command of each script is at its place.
LEMMA CommandsKnown ==
    ASSUME NEW prog \in ProgramNames, NEW k \in 1 .. Len(Script[prog])
    PROVE  Known(prog, k, Script[prog][k])
<1>1. CASE prog = "main"
  <2>1. Script[prog] = Main /\ k \in 1 .. 14
    BY <1>1 DEF Script, Main
  <2>2. /\ Main[1].op = "reset" /\ Main[2].op = "set" /\ Main[2].global = "windown_selected"
        /\ Main[3].op = "set" /\ Main[3].global = "data_mode_selected"
        /\ Main[4].op = "show" /\ Main[5].op = "show" /\ Main[6].op = "show"
        /\ Main[7].op = "run" /\ Main[7].prog = "wanconnect" /\ Main[8].op = "show"
        /\ Main[9].op = "run" /\ Main[9].prog = "MD_Download" /\ Main[10].op = "set"
        /\ Main[10].global = "md" /\ Main[11].op = "run" /\ Main[11].prog = "SD_Download"
        /\ Main[12].op = "set" /\ Main[12].global = "sd" /\ Main[13].op = "run"
        /\ Main[13].prog = "mlx_fingerprint_test" /\ Main[14].op = "show"
    BY DEF Main, Do, Run, Set, Show
  <2>3. /\ Shown("main", Main[4].changes) /\ Shown("main", Main[5].changes)
        /\ Shown("main", Main[6].changes) /\ Shown("main", Main[8].changes)
        /\ Shown("main", Main[14].changes)
    BY DEF Shown, Windows, Main, Do, Run, Set, Show
  <2>4. Known("main", 1, Main[1]) /\ Known("main", 2, Main[2]) /\ Known("main", 3, Main[3])
    BY <2>2 DEF Known
  <2>5. Known("main", 4, Main[4]) /\ Known("main", 5, Main[5]) /\ Known("main", 6, Main[6])
    BY <2>2, <2>3 DEF Known
  <2>6. Known("main", 7, Main[7]) /\ Known("main", 8, Main[8]) /\ Known("main", 9, Main[9])
    BY <2>2, <2>3 DEF Known
  <2>7. Known("main", 10, Main[10]) /\ Known("main", 11, Main[11]) /\ Known("main", 12, Main[12])
    BY <2>2 DEF Known
  <2>8. Known("main", 13, Main[13]) /\ Known("main", 14, Main[14])
    BY <2>2, <2>3 DEF Known
  <2>. QED  BY <1>1, <2>1, <2>4, <2>5, <2>6, <2>7, <2>8
<1>2. CASE prog = "wanconnect"
  <2>1. Script[prog] = Wanconnect /\ k \in 1 .. 9
    BY <1>2 DEF Script, Wanconnect
  <2>2. /\ Wanconnect[1].op = "show" /\ Wanconnect[2].op = "ping"
        /\ Wanconnect[3].op = "run" /\ Wanconnect[3].prog = "instancemd"
        /\ Wanconnect[4].op = "run" /\ Wanconnect[4].prog = "configname"
        /\ Wanconnect[5].op = "ping" /\ Wanconnect[6].op = "run"
        /\ Wanconnect[6].prog = "synctime" /\ Wanconnect[7].op = "show"
        /\ Wanconnect[8].op = "show" /\ Wanconnect[9].op = "show"
    BY DEF Wanconnect, Do, Run, Show
  <2>3. /\ Shown("wanconnect", Wanconnect[1].changes)
        /\ Shown("wanconnect", Wanconnect[7].changes)
        /\ Shown("wanconnect", Wanconnect[8].changes)
        /\ Shown("wanconnect", Wanconnect[9].changes)
    BY DEF Shown, Windows, Wanconnect, Do, Run, Show
  <2>. QED  BY <1>2, <2>1, <2>2, <2>3 DEF Known
<1>3. CASE prog = "instancemd"
  <2>1. Script[prog] = Instancemd /\ k \in 1 .. 4
    BY <1>3 DEF Script, Instancemd
  <2>2. /\ Instancemd[1].op = "truncate_address" /\ Instancemd[2].op = "ask_instance"
        /\ Instancemd[3].op = "show" /\ Instancemd[4].op = "write_address"
    BY DEF Instancemd, Do, Show
  <2>3. /\ Shown("instancemd", Instancemd[3].changes)
    BY DEF Shown, Windows, Instancemd, Do, Show
  <2>. QED  BY <1>3, <2>1, <2>2, <2>3 DEF Known
<1>4. CASE prog = "configname"
  <2>1. Script[prog] = Configname /\ k \in 1 .. 7
    BY <1>4 DEF Script, Configname
  <2>2. /\ Configname[1].op = "ask_config_crc" /\ Configname[2].op = "rm_downloads"
        /\ Configname[3].op = "open" /\ Configname[3].file = "config"
        /\ Configname[4].op = "close" /\ Configname[4].file = "config"
        /\ Configname[5].op = "rm_store" /\ Configname[6].op = "cp_store"
        /\ Configname[7].op = "college"
    BY DEF Configname, Close, Do, Open
  <2>. QED  BY <1>4, <2>1, <2>2 DEF Known, FileOf
<1>5. CASE prog = "synctime"
  BY <1>5 DEF Script, Synctime
<1>6. CASE prog = "MD_Download"
  <2>1. Script[prog] = MDDownload /\ k \in 1 .. 7
    BY <1>6 DEF Script, MDDownload
  <2>2. /\ MDDownload[1].op = "read_address" /\ MDDownload[2].op = "ping"
        /\ MDDownload[3].op = "show" /\ MDDownload[4].op = "ask_crc"
        /\ MDDownload[5].op = "open" /\ MDDownload[5].file = "master"
        /\ MDDownload[6].op = "close" /\ MDDownload[6].file = "master"
        /\ MDDownload[7].op = "show"
    BY DEF MDDownload, Close, Do, Open, Show
  <2>3. /\ Shown("MD_Download", MDDownload[3].changes)
        /\ Shown("MD_Download", MDDownload[7].changes)
    BY DEF Shown, Windows, MDDownload, Close, Do, Open, Show
  <2>. QED  BY <1>6, <2>1, <2>2, <2>3 DEF Known, FileOf
<1>7. CASE prog = "SD_Download"
  <2>1. Script[prog] = SDDownload /\ k \in 1 .. 7
    BY <1>7 DEF Script, SDDownload
  <2>2. /\ SDDownload[1].op = "read_address" /\ SDDownload[2].op = "ping"
        /\ SDDownload[3].op = "show" /\ SDDownload[4].op = "ask_crc"
        /\ SDDownload[5].op = "open" /\ SDDownload[5].file = "session"
        /\ SDDownload[6].op = "close" /\ SDDownload[6].file = "session"
        /\ SDDownload[7].op = "show"
    BY DEF SDDownload, Close, Do, Open, Show
  <2>3. /\ Shown("SD_Download", SDDownload[3].changes)
        /\ Shown("SD_Download", SDDownload[7].changes)
    BY DEF Shown, Windows, SDDownload, Close, Do, Open, Show
  <2>. QED  BY <1>7, <2>1, <2>2, <2>3 DEF Known, FileOf
<1>8. CASE prog = "mlx_fingerprint_test"
  <2>1. Script[prog] = Fingerprint /\ k \in 1 .. 3
    BY <1>8 DEF Script, Fingerprint
  <2>2. /\ Fingerprint[1].op = "show" /\ Fingerprint[2].op = "touch"
        /\ Fingerprint[3].op = "show"
    BY DEF Fingerprint, Do, Show
  <2>3. /\ Shown("mlx_fingerprint_test", Fingerprint[1].changes)
        /\ Shown("mlx_fingerprint_test", Fingerprint[3].changes)
    BY DEF Shown, Windows, Fingerprint, Do, Show
  <2>. QED  BY <1>8, <2>1, <2>2, <2>3 DEF Known
<1>9. CASE prog = "WanPingOk"
  <2>1. Script[prog] = WanPingOk /\ k \in 1 .. 5
    BY <1>9 DEF Script, WanPingOk
  <2>2. \A j \in 1 .. 5 : WanPingOk[j].op = "show" /\ Shown("WanPingOk", WanPingOk[j].changes)
    <3>1. WanPingOk[1].op = "show" /\ Shown("WanPingOk", WanPingOk[1].changes)
      BY DEF Shown, Windows, WanPingOk, Show
    <3>2. WanPingOk[2].op = "show" /\ Shown("WanPingOk", WanPingOk[2].changes)
      BY DEF Shown, Windows, WanPingOk, Show
    <3>3. WanPingOk[3].op = "show" /\ Shown("WanPingOk", WanPingOk[3].changes)
      BY DEF Shown, Windows, WanPingOk, Show
    <3>4. WanPingOk[4].op = "show" /\ Shown("WanPingOk", WanPingOk[4].changes)
      BY DEF Shown, Windows, WanPingOk, Show
    <3>5. WanPingOk[5].op = "show" /\ Shown("WanPingOk", WanPingOk[5].changes)
      BY DEF Shown, Windows, WanPingOk, Show
    <3>. QED  BY <3>1, <3>2, <3>3, <3>4, <3>5
  <2>. QED  BY <1>9, <2>1, <2>2 DEF Known
<1>10. CASE prog = "DownloadPingOk"
  <2>1. Script[prog] = DownloadPingOk /\ k \in 1 .. 4
    BY <1>10 DEF Script, DownloadPingOk
  <2>2. \A j \in 1 .. 4 : DownloadPingOk[j].op = "show" /\ Shown("DownloadPingOk", DownloadPingOk[j].changes)
    <3>1. DownloadPingOk[1].op = "show" /\ Shown("DownloadPingOk", DownloadPingOk[1].changes)
      BY DEF Shown, Windows, DownloadPingOk, Show
    <3>2. DownloadPingOk[2].op = "show" /\ Shown("DownloadPingOk", DownloadPingOk[2].changes)
      BY DEF Shown, Windows, DownloadPingOk, Show
    <3>3. DownloadPingOk[3].op = "show" /\ Shown("DownloadPingOk", DownloadPingOk[3].changes)
      BY DEF Shown, Windows, DownloadPingOk, Show
    <3>4. DownloadPingOk[4].op = "show" /\ Shown("DownloadPingOk", DownloadPingOk[4].changes)
      BY DEF Shown, Windows, DownloadPingOk, Show
    <3>. QED  BY <3>1, <3>2, <3>3, <3>4
  <2>. QED  BY <1>10, <2>1, <2>2 DEF Known
<1>11. CASE prog = "PingFail"
  <2>1. Script[prog] = PingFail /\ k \in 1 .. 4
    BY <1>11 DEF Script, PingFail
  <2>2. \A j \in 1 .. 4 : PingFail[j].op = "show" /\ Shown("PingFail", PingFail[j].changes)
    <3>1. PingFail[1].op = "show" /\ Shown("PingFail", PingFail[1].changes)
      BY DEF Shown, Windows, PingFail, Show
    <3>2. PingFail[2].op = "show" /\ Shown("PingFail", PingFail[2].changes)
      BY DEF Shown, Windows, PingFail, Show
    <3>3. PingFail[3].op = "show" /\ Shown("PingFail", PingFail[3].changes)
      BY DEF Shown, Windows, PingFail, Show
    <3>4. PingFail[4].op = "show" /\ Shown("PingFail", PingFail[4].changes)
      BY DEF Shown, Windows, PingFail, Show
    <3>. QED  BY <3>1, <3>2, <3>3, <3>4
  <2>. QED  BY <1>11, <2>1, <2>2 DEF Known
<1>12. CASE prog = "MDCheck"
  <2>1. Script[prog] = MDCheck /\ k \in 1 .. 1
    BY <1>12 DEF Script, MDCheck
  <2>2. /\ MDCheck[1].op = "show"
    BY DEF MDCheck, Show
  <2>3. /\ Shown("MDCheck", MDCheck[1].changes)
    BY DEF Shown, Windows, MDCheck, Show
  <2>. QED  BY <1>12, <2>1, <2>2, <2>3 DEF Known
<1>13. CASE prog = "SDCheck"
  <2>1. Script[prog] = SDCheck /\ k \in 1 .. 1
    BY <1>13 DEF Script, SDCheck
  <2>2. /\ SDCheck[1].op = "show"
    BY DEF SDCheck, Show
  <2>3. /\ Shown("SDCheck", SDCheck[1].changes)
    BY DEF Shown, Windows, SDCheck, Show
  <2>. QED  BY <1>13, <2>1, <2>2, <2>3 DEF Known
<1>14. CASE prog = "Invalid"
  <2>1. Script[prog] = Invalid /\ k \in 1 .. 1
    BY <1>14 DEF Script, Invalid
  <2>2. /\ Invalid[1].op = "show"
    BY DEF Invalid, Show
  <2>3. /\ Shown("Invalid", Invalid[1].changes)
    BY DEF Shown, Windows, Invalid, Show
  <2>. QED  BY <1>14, <2>1, <2>2, <2>3 DEF Known
<1>15. CASE prog = "ButtonMD"
  <2>1. Script[prog] = ButtonMD /\ k \in 1 .. 2
    BY <1>15 DEF Script, ButtonMD
  <2>2. /\ ButtonMD[1].op = "show" /\ ButtonMD[2].op = "run"
        /\ ButtonMD[2].prog = "MD_Download"
    BY DEF ButtonMD, Run, Show
  <2>3. /\ Shown("ButtonMD", ButtonMD[1].changes)
    BY DEF Shown, Windows, ButtonMD, Run, Show
  <2>. QED  BY <1>15, <2>1, <2>2, <2>3 DEF Known
<1>16. CASE prog = "ButtonSD"
  <2>1. Script[prog] = ButtonSD /\ k \in 1 .. 2
    BY <1>16 DEF Script, ButtonSD
  <2>2. /\ ButtonSD[1].op = "show" /\ ButtonSD[2].op = "run"
        /\ ButtonSD[2].prog = "SD_Download"
    BY DEF ButtonSD, Run, Show
  <2>3. /\ Shown("ButtonSD", ButtonSD[1].changes)
    BY DEF Shown, Windows, ButtonSD, Run, Show
  <2>. QED  BY <1>16, <2>1, <2>2, <2>3 DEF Known
<1>17. CASE prog = "ButtonUser"
  <2>1. Script[prog] = ButtonUser /\ k \in 1 .. 2
    BY <1>17 DEF Script, ButtonUser
  <2>2. /\ ButtonUser[1].op = "show" /\ ButtonUser[2].op = "show"
    BY DEF ButtonUser, Show
  <2>3. /\ Shown("ButtonUser", ButtonUser[1].changes)
        /\ Shown("ButtonUser", ButtonUser[2].changes)
    BY DEF Shown, Windows, ButtonUser, Show
  <2>. QED  BY <1>17, <2>1, <2>2, <2>3 DEF Known
<1>18. CASE prog = "ButtonSOS"
  <2>1. Script[prog] = ButtonSOS /\ k \in 1 .. 1
    BY <1>18 DEF Script, ButtonSOS
  <2>2. /\ ButtonSOS[1].op = "show"
    BY DEF ButtonSOS, Show
  <2>3. /\ Shown("ButtonSOS", ButtonSOS[1].changes)
    BY DEF Shown, Windows, ButtonSOS, Show
  <2>. QED  BY <1>18, <2>1, <2>2, <2>3 DEF Known
<1>19. CASE prog = "Nothing"
  BY <1>19 DEF Script
<1>20. CASE prog = "UserValid"
  <2>1. Script[prog] = UserValid /\ k \in 1 .. 3
    BY <1>20 DEF Script, UserValid
  <2>2. /\ UserValid[1].op = "show" /\ UserValid[2].op = "show" /\ UserValid[3].op = "show"
    BY DEF UserValid, Show
  <2>3. /\ Shown("UserValid", UserValid[1].changes)
        /\ Shown("UserValid", UserValid[2].changes)
        /\ Shown("UserValid", UserValid[3].changes)
    BY DEF Shown, Windows, UserValid, Show
  <2>. QED  BY <1>20, <2>1, <2>2, <2>3 DEF Known
<1>21. CASE prog = "UserInvalid"
  <2>1. Script[prog] = UserInvalid /\ k \in 1 .. 3
    BY <1>21 DEF Script, UserInvalid
  <2>2. /\ UserInvalid[1].op = "show" /\ UserInvalid[2].op = "show"
        /\ UserInvalid[3].op = "show"
    BY DEF UserInvalid, Show
  <2>3. /\ Shown("UserInvalid", UserInvalid[1].changes)
        /\ Shown("UserInvalid", UserInvalid[2].changes)
        /\ Shown("UserInvalid", UserInvalid[3].changes)
    BY DEF Shown, Windows, UserInvalid, Show
  <2>. QED  BY <1>21, <2>1, <2>2, <2>3 DEF Known
<1>22. CASE prog = "PassValid"
  <2>1. Script[prog] = PassValid /\ k \in 1 .. 4
    BY <1>22 DEF Script, PassValid
  <2>2. /\ PassValid[1].op = "show" /\ PassValid[2].op = "show" /\ PassValid[3].op = "show"
        /\ PassValid[4].op = "copies"
    BY DEF PassValid, Do, Show
  <2>3. /\ Shown("PassValid", PassValid[1].changes)
        /\ Shown("PassValid", PassValid[2].changes)
        /\ Shown("PassValid", PassValid[3].changes)
    BY DEF Shown, Windows, PassValid, Do, Show
  <2>. QED  BY <1>22, <2>1, <2>2, <2>3 DEF Known
<1>23. CASE prog = "PassInvalid"
  <2>1. Script[prog] = PassInvalid /\ k \in 1 .. 3
    BY <1>23 DEF Script, PassInvalid
  <2>2. /\ PassInvalid[1].op = "show" /\ PassInvalid[2].op = "show"
        /\ PassInvalid[3].op = "show"
    BY DEF PassInvalid, Show
  <2>3. /\ Shown("PassInvalid", PassInvalid[1].changes)
        /\ Shown("PassInvalid", PassInvalid[2].changes)
        /\ Shown("PassInvalid", PassInvalid[3].changes)
    BY DEF Shown, Windows, PassInvalid, Show
  <2>. QED  BY <1>23, <2>1, <2>2, <2>3 DEF Known
<1>24. CASE prog = "Copies"
  <2>1. Script[prog] = Copies /\ k \in 1 .. 2
    BY <1>24 DEF Script, Copies
  <2>2. /\ Copies[1].op = "show" /\ Copies[2].op = "show"
    BY DEF Copies, Show
  <2>3. /\ Shown("Copies", Copies[1].changes) /\ Shown("Copies", Copies[2].changes)
    BY DEF Shown, Windows, Copies, Show
  <2>. QED  BY <1>24, <2>1, <2>2, <2>3 DEF Known
<1>. QED
  BY <1>1, <1>2, <1>3, <1>4, <1>5, <1>6, <1>7, <1>8, <1>9, <1>10, <1>11, <1>12, <1>13, <1>14,
     <1>15, <1>16, <1>17, <1>18, <1>19, <1>20, <1>21, <1>22, <1>23, <1>24, ProgramsAre
  DEF BootPrograms, EventPrograms

\* So is the command of a thread.
LEMMA CommandKnown ==
    ASSUME Typed, NEW t \in Threads, Running(t), ~AtEnd(t)
    PROVE  /\ Known(Top(t).prog, Top(t).at, Command(t))
           /\ Top(t) \in Activation
<1>1. stack[t] \in Seq(Activation) /\ stack[t] # <<>>
  BY DEF Typed, Running
<1>2. Len(stack[t]) \in Nat /\ Len(stack[t]) >= 1
  BY <1>1
<1>3. Top(t) \in Activation /\ Top(t).at >= 1
  BY <1>1, <1>2 DEF Typed, Top
<1>4. Top(t).prog \in ProgramNames /\ Top(t).at \in Nat
  BY <1>3 DEF Activation
<1>5. Len(Script[Top(t).prog]) \in Nat
  BY <1>4, ScriptsAreSequences
<1>6. Top(t).at \in 1 .. Len(Script[Top(t).prog])
  BY <1>3, <1>4, <1>5 DEF AtEnd, Running
<1>. QED  BY <1>3, <1>4, <1>6, CommandsKnown DEF Command

-----------------------------------------------------------------------------
(***************************************************************************)
(* The stacks.                                                             *)
(***************************************************************************)

\* The top of t's stack has become a, with the programs progs on it.
Grown(t, a, progs) ==
    /\ stack' \in [Threads -> Seq(Activation)]
    /\ Len(stack'[t]) = Len(stack[t]) + Len(progs)
    /\ \A i \in 1 .. Len(stack[t]) - 1 : stack'[t][i] = stack[t][i]
    /\ stack'[t][Len(stack[t])] = a
    /\ \A k \in 1 .. Len(progs) : stack'[t][Len(stack[t]) + k] = Start(progs[k])
    /\ \A u \in Threads : u # t => stack'[u] = stack[u]

\* The top of t's stack has gone.
Shrunk(t) ==
    /\ stack' \in [Threads -> Seq(Activation)]
    /\ Len(stack'[t]) = Len(stack[t]) - 1
    /\ \A i \in 1 .. Len(stack[t]) - 1 : stack'[t][i] = stack[t][i]
    /\ \A u \in Threads : u # t => stack'[u] = stack[u]

\* What is started is an activation.
LEMMA StartTyped ==
    ASSUME NEW prog \in ProgramNames
    PROVE  Start(prog) \in Activation
BY DeviceAssumption DEF Start, Activation

\* Goes and Dies, place by place.
LEMMA GoesGrows ==
    ASSUME Typed, NEW t \in Threads, Running(t), NEW a \in Activation,
           NEW progs \in Seq(ProgramNames), Goes(t, a, progs)
    PROVE  Grown(t, a, progs)
<1>. DEFINE n == Len(stack[t])
            base == Append(Below(t), a)
            more == [k \in 1 .. Len(progs) |-> Start(progs[k])]
<1>1. stack[t] \in Seq(Activation) /\ stack[t] # <<>> /\ n \in Nat /\ n >= 1
  BY DEF Typed, Running
<1>2. /\ Below(t) \in Seq(Activation) /\ Len(Below(t)) = n - 1
      /\ \A i \in 1 .. n - 1 : Below(t)[i] = stack[t][i]
  BY <1>1 DEF Below
<1>3. /\ base \in Seq(Activation) /\ Len(base) = n /\ base[n] = a
      /\ \A i \in 1 .. n - 1 : base[i] = stack[t][i]
  BY <1>1, <1>2
<1>4. /\ more \in Seq(Activation) /\ Len(more) = Len(progs)
      /\ \A k \in 1 .. Len(progs) : more[k] = Start(progs[k])
  BY StartTyped
<1>5. stack' = [stack EXCEPT ![t] = base \o more] /\ stack \in [Threads -> Seq(Activation)]
  BY DEF Goes, Typed
<1>. HIDE DEF base, more
<1>6. PICK whole : whole = base \o more
  OBVIOUS
<1>7. /\ whole \in Seq(Activation) /\ Len(whole) = n + Len(progs)
      /\ \A i \in 1 .. n + Len(progs) : whole[i] = IF i <= n THEN base[i] ELSE more[i - n]
  <2>1. /\ base \o more \in Seq(Activation)
        /\ Len(base \o more) = Len(base) + Len(more)
        /\ \A i \in 1 .. Len(base) + Len(more) :
             (base \o more)[i] = IF i <= Len(base) THEN base[i] ELSE more[i - Len(base)]
    BY <1>3, <1>4, ConcatProperties
  <2>. QED  BY <1>3, <1>4, <1>6, <2>1
<1>8. /\ \A i \in 1 .. n : whole[i] = base[i]
      /\ \A k \in 1 .. Len(progs) : whole[n + k] = more[k]
  <2>1. Len(progs) \in Nat
    OBVIOUS
  <2>2. ASSUME NEW k \in 1 .. Len(progs)
        PROVE  whole[n + k] = more[k]
    <3>1. n + k \in 1 .. n + Len(progs) /\ ~(n + k <= n) /\ (n + k) - n = k
      BY <1>1, <2>1
    <3>. QED  BY <1>7, <3>1
  <2>. QED  BY <1>1, <1>7, <2>1, <2>2
<1>9. stack'[t] = whole /\ \A u \in Threads : u # t => stack'[u] = stack[u]
  BY <1>5, <1>6
<1>10. stack' \in [Threads -> Seq(Activation)]
  BY <1>5, <1>6, <1>7
<1>. QED  BY <1>1, <1>3, <1>4, <1>6, <1>7, <1>8, <1>9, <1>10 DEF Grown

\* A program that dies leaves the stack of those below it.
LEMMA DiesShrinks ==
    ASSUME Typed, NEW t \in Threads, Running(t), Dies(t)
    PROVE  Shrunk(t)
<1>1. stack[t] \in Seq(Activation) /\ stack[t] # <<>> /\ Len(stack[t]) \in Nat /\ Len(stack[t]) >= 1
  BY DEF Typed, Running
<1>2. /\ Below(t) \in Seq(Activation) /\ Len(Below(t)) = Len(stack[t]) - 1
      /\ \A i \in 1 .. Len(stack[t]) - 1 : Below(t)[i] = stack[t][i]
  BY <1>1 DEF Below
<1>3. stack' = [stack EXCEPT ![t] = Below(t)] /\ stack \in [Threads -> Seq(Activation)]
  BY DEF Dies, Typed
<1>. QED  BY <1>1, <1>2, <1>3 DEF Shrunk

-----------------------------------------------------------------------------
(***************************************************************************)
(* What a step of a thread does to its stack.                              *)
(***************************************************************************)

\* The top goes on to a, or asks again as a, and runs progs.
Moves(t, a, progs) ==
    LET top == Top(t)
        op  == Command(t).op
    IN  /\ a.prog = top.prog
        /\ \/ a.at = top.at + 1
           \/ a.at = top.at /\ op \in {"ping", "ask_instance"}
        /\ op = "run" => a.at = top.at + 1 /\ progs = <<Command(t).prog>>
        /\ op = "ping" =>
             \/ a.at = top.at + 1 /\ top.prog = "wanconnect" /\ progs = <<"WanPingOk">>
             \/ a.at = top.at + 1 /\ top.prog # "wanconnect" /\ progs = <<"DownloadPingOk">>
             \/ a.at = top.at /\ progs = <<"PingFail">>
             \/ a.at = top.at /\ top.prog = "MD_Download" /\ progs = <<"MDCheck", "PingFail">>
             \/ a.at = top.at /\ top.prog = "SD_Download" /\ progs = <<"SDCheck", "PingFail">>
        /\ op = "ask_instance" =>
             \/ a.at = top.at + 1 /\ progs = <<>> /\ a.reply = "true" /\ top.reply # "false"
             \/ a.at = top.at /\ progs = <<"Invalid">> /\ a.reply = "false"
        /\ op = "copies" => progs = <<>> \/ progs = <<"Copies">>
        /\ op \notin {"run", "ping", "ask_instance", "copies"} => progs = <<>>
        /\ op # "ask_instance" => a.reply = top.reply
        /\ op \notin {"ask_crc", "ask_config_crc"} => a.crc = top.crc
        /\ op = "ask_crc" /\ ~a.crc => Blame(FileOf(top.prog))

Moved(t) ==
    \E a \in Activation, progs \in Seq(ProgramNames) : Goes(t, a, progs) /\ Moves(t, a, progs)

\* The top returns at its end, or dies on a missing address or a lost reply.
Ended(t) ==
    /\ Dies(t)
    /\ \/ AtEnd(t) /\ Top(t).prog # "main"
       \/ (At(t, "read_address") \/ At(t, "ask_crc")) /\ Blame(FileOf(Top(t).prog))
       \/ At(t, "ask_config_crc") /\ Blame("configname")
       \/ At(t, "ask_instance") /\ Blame("instancemd")

\* A step on, with the programs it calls, is a move.
LEMMA MovedBy ==
    ASSUME NEW t \in Threads, NEW a \in Activation, NEW progs \in Seq(ProgramNames),
           Goes(t, a, progs), Moves(t, a, progs)
    PROVE  Moved(t)
BY DEF Moved

\* Calling nothing is a sequence of programs too.
LEMMA NoPrograms == <<>> \in Seq(ProgramNames)
OBVIOUS

\* A command that runs nothing and asks nothing.
LEMMA PlainMoves ==
    ASSUME Typed, NEW t \in Threads, NEW op, At(t, op),
           op \notin {"run", "ping", "ask_instance", "copies", "ask_crc", "ask_config_crc"},
           NEW a \in Activation, Goes(t, a, <<>>),
           a.prog = Top(t).prog, a.at = Top(t).at + 1, a.reply = Top(t).reply, a.crc = Top(t).crc
    PROVE  Moved(t)
<1>1. Command(t).op = op
  BY DEF At
<1>2. Moves(t, a, <<>>)
  BY <1>1 DEF Moves
<1>. QED  BY <1>2, NoPrograms, MovedBy

\* The next place of the same program.
LEMMA OnwardIs ==
    ASSUME NEW a \in Activation
    PROVE  /\ Onward(a) \in Activation
           /\ Onward(a).prog = a.prog /\ Onward(a).at = a.at + 1
           /\ Onward(a).reply = a.reply /\ Onward(a).crc = a.crc
BY DEF Onward, Activation

\* One program put under another.
LEMMA SmallConcats ==
    ASSUME NEW p, NEW q
    PROVE  <<>> \o <<q>> = <<q>> /\ <<p>> \o <<q>> = <<p, q>>
<1>1. <<p>> \in Seq({p, q}) /\ <<q>> \in Seq({p, q}) /\ <<p, q>> \in Seq({p, q})
  OBVIOUS
<1>2. <<p>> \o <<q>> = <<p, q>>
  <2>1. /\ <<p>> \o <<q>> \in Seq({p, q}) /\ Len(<<p>> \o <<q>>) = 2
        /\ (<<p>> \o <<q>>)[1] = p /\ (<<p>> \o <<q>>)[2] = q
    BY <1>1, ConcatProperties
  <2>2. PICK s \in Seq({p, q}) : s = <<p>> \o <<q>> /\ Len(s) = 2 /\ s[1] = p /\ s[2] = q
    BY <2>1
  <2>3. \A i \in 1 .. Len(s) : s[i] = <<p, q>>[i]
    <3>1. \A i \in 1 .. 2 : i = 1 \/ i = 2
      OBVIOUS
    <3>2. <<p, q>>[1] = p /\ <<p, q>>[2] = q
      OBVIOUS
    <3>. QED  BY <2>2, <3>1, <3>2
  <2>4. Len(s) = Len(<<p, q>>)
    BY <2>2
  <2>5. s = <<p, q>>
    BY ONLY <1>1, <2>2, <2>3, <2>4, SeqEqual
  <2>. QED  BY <2>2, <2>5
<1>. QED  BY <1>1, <1>2, ConcatEmptySeq

\* What a step does to a stack: it moves the top, or ends it.
LEMMA StepMoves ==
    ASSUME Typed, NEW t \in Threads, Step(t) \/ Touch(t)
    PROVE  /\ Running(t)
           /\ (~AtEnd(t) /\ Moved(t)) \/ Ended(t)
<1>. DEFINE top == Top(t)
<1>1. CASE \E op : At(t, op)
  <2>1. Running(t) /\ ~AtEnd(t) /\ top \in Activation
    BY <1>1, CommandKnown DEF At
  <2>2. /\ Onward(top) \in Activation
        /\ Onward(top).prog = top.prog /\ Onward(top).at = top.at + 1
        /\ Onward(top).reply = top.reply /\ Onward(top).crc = top.crc
    BY <2>1, OnwardIs
  <2>3. CASE \/ ShowMessage(t) \/ ResetPanel(t) \/ SetGlobal(t) \/ OpenFile(t) \/ CloseFile(t)
             \/ TruncateAddress(t) \/ WriteAddress(t) \/ RmDownloads(t) \/ RmStore(t)
             \/ CpStore(t) \/ College(t) \/ Touch(t)
    <3>1. PICK op : /\ At(t, op)
                    /\ op \in {"show", "reset", "set", "open", "close", "truncate_address",
                               "write_address", "rm_downloads", "rm_store", "cp_store", "college",
                               "touch"}
      BY <2>3 DEF ShowMessage, ResetPanel, SetGlobal, OpenFile, CloseFile, TruncateAddress,
                  WriteAddress, RmDownloads, RmStore, CpStore, College, Touch
    <3>2. Goes(t, Onward(top), <<>>)
      BY <2>3 DEF ShowMessage, ResetPanel, SetGlobal, OpenFile, CloseFile, TruncateAddress,
                  WriteAddress, RmDownloads, RmStore, CpStore, College, Touch
    <3>. QED  BY <2>1, <2>2, <3>1, <3>2, PlainMoves
  <2>4. CASE RunProgram(t)
    <3>1. Command(t).op = "run" /\ Goes(t, Onward(top), <<Command(t).prog>>)
      BY <2>4 DEF RunProgram, At
    <3>2. Command(t).prog \in ProgramNames
      BY <2>1, <3>1, CommandKnown, ProgramsAre DEF Known, BootPrograms, EventPrograms
    <3>3. Moves(t, Onward(top), <<Command(t).prog>>)
      BY <2>2, <3>1 DEF Moves
    <3>4. <<Command(t).prog>> \in Seq(ProgramNames)
      BY <3>2
    <3>. QED  BY <2>1, <2>2, <3>1, <3>3, <3>4, MovedBy
  <2>5. CASE Ping(t)
    <3>. DEFINE fails == IF top.fails > CheckAt THEN top.fails ELSE top.fails + 1
                again == [top EXCEPT !.fails = fails]
    <3>1. Command(t).op = "ping"
      BY <2>5 DEF Ping, At
    <3>2. {"WanPingOk", "DownloadPingOk", "PingFail", "MDCheck", "SDCheck"} \subseteq ProgramNames
      BY ProgramsAre DEF BootPrograms, EventPrograms
    <3>3. CASE net
      <4>1. PICK prog \in {"WanPingOk", "DownloadPingOk"} :
              /\ prog = IF top.prog = "wanconnect" THEN "WanPingOk" ELSE "DownloadPingOk"
              /\ Goes(t, Onward(top), <<prog>>)
        BY <2>5, <3>3 DEF Ping
      <4>2. Moves(t, Onward(top), <<prog>>)
        BY <2>2, <3>1, <4>1 DEF Moves
      <4>3. <<prog>> \in Seq(ProgramNames)
        BY <3>2
      <4>. QED  BY <2>1, <2>2, <4>1, <4>2, <4>3, MovedBy
    <3>4. CASE ~net
      <4>1. fails \in 0 .. CheckAt + 1
        BY <2>1, DeviceAssumption DEF Activation
      <4>2. /\ again \in Activation /\ again.prog = top.prog /\ again.at = top.at
            /\ again.reply = top.reply /\ again.crc = top.crc
        BY <2>1, <4>1 DEF Activation
      <4>. DEFINE hint == IF fails # CheckAt THEN <<>>
                          ELSE IF top.prog = "MD_Download" THEN <<"MDCheck">>
                          ELSE IF top.prog = "SD_Download" THEN <<"SDCheck">> ELSE <<>>
      <4>3. Goes(t, again, hint \o <<"PingFail">>)
        BY <2>5, <3>4 DEF Ping
      <4>4. PICK progs \in Seq(ProgramNames) :
              /\ progs = hint \o <<"PingFail">>
              /\ \/ progs = <<"PingFail">>
                 \/ top.prog = "MD_Download" /\ progs = <<"MDCheck", "PingFail">>
                 \/ top.prog = "SD_Download" /\ progs = <<"SDCheck", "PingFail">>
        <5>1. /\ <<>> \o <<"PingFail">> = <<"PingFail">>
              /\ <<"MDCheck">> \o <<"PingFail">> = <<"MDCheck", "PingFail">>
              /\ <<"SDCheck">> \o <<"PingFail">> = <<"SDCheck", "PingFail">>
          BY SmallConcats
        <5>2. /\ <<"PingFail">> \in Seq(ProgramNames)
              /\ <<"MDCheck", "PingFail">> \in Seq(ProgramNames)
              /\ <<"SDCheck", "PingFail">> \in Seq(ProgramNames)
          BY <3>2
        <5>. QED  BY <5>1, <5>2
      <4>5. Moves(t, again, progs)
        BY <3>1, <4>2, <4>4 DEF Moves
      <4>. QED  BY <2>1, <4>2, <4>3, <4>4, <4>5 DEF Moved
    <3>. QED  BY <3>3, <3>4
  <2>6. CASE ReadAddress(t)
    <3>1. At(t, "read_address")
      BY <2>6 DEF ReadAddress
    <3>2. CASE address = "missing"
      BY <2>1, <2>6, <3>1, <3>2 DEF ReadAddress, Ended
    <3>3. CASE address # "missing"
      <4>1. PICK a \in Activation :
              /\ Goes(t, a, <<>>) /\ a.prog = top.prog /\ a.at = top.at + 1
              /\ a.reply = top.reply /\ a.crc = top.crc
        <5>1. /\ address \in {"empty", "written"}
              /\ Goes(t, [Onward(top) EXCEPT !.addr = address], <<>>)
          BY <2>6, <3>3 DEF ReadAddress, Typed
        <5>. QED  BY <2>2, <5>1 DEF Activation
      <4>. QED  BY <2>1, <3>1, <4>1, PlainMoves
    <3>. QED  BY <3>2, <3>3
  <2>7. CASE AskCrc(t) \/ AskConfigCrc(t)
    <3>1. PICK op \in {"ask_crc", "ask_config_crc"} : Command(t).op = op /\ At(t, op)
      BY <2>7 DEF AskCrc, AskConfigCrc, At
    <3>. DEFINE blamed == Blame(FileOf(top.prog))
    <3>2. CASE Dies(t) /\ blamed /\ AskCrc(t)
      BY <2>1, <3>2 DEF Ended, AskCrc
    <3>3. CASE \E crc \in BOOLEAN :
                 /\ Goes(t, [Onward(top) EXCEPT !.crc = crc], <<>>)
                 /\ op = "ask_crc" /\ ~crc => blamed
      <4>1. PICK a \in Activation :
              /\ Goes(t, a, <<>>) /\ a.prog = top.prog /\ a.at = top.at + 1 /\ a.reply = top.reply
              /\ op = "ask_crc" /\ ~a.crc => blamed
        BY <2>2, <3>3 DEF Activation
      <4>2. Moves(t, a, <<>>)
        BY <3>1, <4>1 DEF Moves
      <4>. QED  BY <2>1, <4>1, <4>2, NoPrograms, MovedBy
    <3>4. CASE AskConfigCrc(t)
      <4>1. op = "ask_config_crc"
        BY <3>1, <3>4 DEF AskConfigCrc, At
      <4>2. CASE Dies(t) /\ Blame("configname")
        BY <2>1, <3>4, <4>2 DEF Ended, AskConfigCrc
      <4>3. CASE \E crc \in BOOLEAN : Goes(t, [Onward(top) EXCEPT !.crc = crc], <<>>)
        BY <3>3, <4>1, <4>3
      <4>. QED  BY <3>4, <4>2, <4>3 DEF AskConfigCrc
    <3>5. CASE AskCrc(t) /\ ~(Dies(t) /\ blamed)
      <4>1. PICK crc \in BOOLEAN :
              /\ Goes(t, [Onward(top) EXCEPT !.crc = crc], <<>>)
              /\ IF crc THEN UNCHANGED spoiled ELSE blamed
        BY <3>5 DEF AskCrc
      <4>. QED  BY <3>3, <4>1
    <3>. QED  BY <2>7, <3>2, <3>4, <3>5
  <2>8. CASE AskInstance(t) /\ Dies(t) /\ Blame("instancemd")
    BY <2>1, <2>8 DEF AskInstance, Ended
  <2>9. CASE AskInstance(t) /\ ~(Dies(t) /\ Blame("instancemd"))
    <3>1. Command(t).op = "ask_instance"
      BY <2>9 DEF AskInstance, At
    <3>2. PICK reply \in {"true", "false"} :
            /\ top.reply = "false" => reply = "false"
            /\ reply = "true" => Goes(t, Onward([top EXCEPT !.reply = reply]), <<>>)
            /\ reply = "false" => Goes(t, [top EXCEPT !.reply = reply], <<"Invalid">>)
      BY <2>1, <2>9 DEF AskInstance, Activation
    <3>3. CASE reply = "true"
      <4>. DEFINE a == Onward([top EXCEPT !.reply = reply])
      <4>1. [top EXCEPT !.reply = reply] \in Activation
        BY <2>1 DEF Activation
      <4>2. a \in Activation /\ a.prog = top.prog /\ a.at = top.at + 1 /\ a.reply = "true"
               /\ a.crc = top.crc
        BY <2>1, <3>3, <4>1, OnwardIs DEF Activation
      <4>3. Moves(t, a, <<>>)
        BY <3>1, <3>2, <3>3, <4>2 DEF Moves
      <4>. QED  BY <2>1, <3>2, <3>3, <4>2, <4>3, NoPrograms, MovedBy
    <3>4. CASE reply = "false"
      <4>. DEFINE a == [top EXCEPT !.reply = reply]
      <4>1. a \in Activation /\ a.prog = top.prog /\ a.at = top.at /\ a.reply = "false"
               /\ a.crc = top.crc
        BY <2>1, <3>4 DEF Activation
      <4>2. Moves(t, a, <<"Invalid">>)
        BY <3>1, <4>1 DEF Moves
      <4>3. <<"Invalid">> \in Seq(ProgramNames)
        BY ProgramsAre DEF BootPrograms, EventPrograms
      <4>. QED  BY <2>1, <3>2, <3>4, <4>1, <4>2, <4>3, MovedBy
    <3>. QED  BY <3>3, <3>4
  <2>10. CASE ShowCopies(t)
    <3>1. PICK progs \in {<<>>, <<"Copies">>} :
            Command(t).op = "copies" /\ Goes(t, Onward(top), progs)
      BY <2>10 DEF ShowCopies, At
    <3>2. progs \in Seq(ProgramNames)
      <4>1. "Copies" \in ProgramNames
        BY ProgramsAre DEF EventPrograms
      <4>2. <<"Copies">> \in Seq(ProgramNames)
        BY <4>1
      <4>. QED  BY <3>1, <4>2, NoPrograms
    <3>3. Moves(t, Onward(top), progs)
      BY <2>2, <3>1 DEF Moves
    <3>. QED  BY <2>1, <2>2, <3>1, <3>2, <3>3, MovedBy
  <2>. QED  BY <1>1, <2>3, <2>4, <2>5, <2>6, <2>7, <2>8, <2>9, <2>10 DEF Step, Return, At
<1>2. CASE Return(t)
  BY <1>2 DEF Return, Ended, AtEnd
<1>. QED
  BY <1>1, <1>2
  DEF Step, ShowMessage, ResetPanel, SetGlobal, RunProgram, Ping, ReadAddress, AskCrc, AskConfigCrc,
      OpenFile, CloseFile, TruncateAddress, AskInstance, WriteAddress, RmDownloads, RmStore,
      CpStore, College, ShowCopies, Touch

\* What a step of a thread does to each variable.
LEMMA StepFrame ==
    ASSUME NEW t \in Threads, Step(t) \/ Touch(t)
    PROVE  UNCHANGED <<line, net, registered, counts, idGiven, buttonAsId>>
BY DEF Step, ShowMessage, ResetPanel, SetGlobal, RunProgram, Return, Ping, ReadAddress, AskCrc,
       AskConfigCrc, OpenFile, CloseFile, TruncateAddress, AskInstance, WriteAddress, RmDownloads,
       RmStore, CpStore, College, ShowCopies, Touch, outside

\* Which commands write the panel.
LEMMA PanelFrame ==
    ASSUME NEW t \in Threads, Step(t) \/ Touch(t)
    PROVE  \/ panel' = panel
           \/ At(t, "show") /\ panel' = Apply(Command(t).changes, panel)
           \/ At(t, "reset") /\ panel' = PanelReset
           \/ /\ At(t, "college")
              /\ panel' = [panel EXCEPT !.college = @ \/ files["config"].state = "whole"]
BY DEF Step, ShowMessage, ResetPanel, SetGlobal, RunProgram, Return, Ping, ReadAddress, AskCrc,
       AskConfigCrc, OpenFile, CloseFile, TruncateAddress, AskInstance, WriteAddress, RmDownloads,
       RmStore, CpStore, College, ShowCopies, Touch

\* Which commands write the address.
LEMMA AddressFrame ==
    ASSUME NEW t \in Threads, Step(t) \/ Touch(t)
    PROVE  /\ \/ address' = address
              \/ At(t, "truncate_address") /\ address' = "empty"
              \/ At(t, "write_address") /\ address' = "written"
           /\ At(t, "write_address") => address' = "written"
BY DEF Step, ShowMessage, ResetPanel, SetGlobal, RunProgram, Return, Ping, ReadAddress, AskCrc,
       AskConfigCrc, OpenFile, CloseFile, TruncateAddress, AskInstance, WriteAddress, RmDownloads,
       RmStore, CpStore, College, ShowCopies, Touch, At

\* Which commands write the globals.
LEMMA GlobalsFrame ==
    ASSUME NEW t \in Threads, Step(t) \/ Touch(t)
    PROVE  \/ globals' = globals
           \/ At(t, "set") /\ globals' = globals \cup {Command(t).global}
BY DEF Step, ShowMessage, ResetPanel, SetGlobal, RunProgram, Return, Ping, ReadAddress, AskCrc,
       AskConfigCrc, OpenFile, CloseFile, TruncateAddress, AskInstance, WriteAddress, RmDownloads,
       RmStore, CpStore, College, ShowCopies, Touch

\* Which commands write the fingerprint store, and which need it.
LEMMA StoreFrame ==
    ASSUME NEW t \in Threads, Step(t) \/ Touch(t)
    PROVE  /\ \/ store' = store
              \/ At(t, "rm_store") /\ store' = FALSE
              \/ At(t, "cp_store") /\ store' = (files["config"].state = "whole")
           /\ At(t, "cp_store") => store' = (files["config"].state = "whole")
           /\ At(t, "touch") => store
           /\ At(t, "college") =>
                panel' = [panel EXCEPT !.college = @ \/ files["config"].state = "whole"]
BY DEF Step, ShowMessage, ResetPanel, SetGlobal, RunProgram, Return, Ping, ReadAddress, AskCrc,
       AskConfigCrc, OpenFile, CloseFile, TruncateAddress, AskInstance, WriteAddress, RmDownloads,
       RmStore, CpStore, College, ShowCopies, Touch, At

\* Which commands write the downloads.
LEMMA FilesFrame ==
    ASSUME NEW t \in Threads, Step(t) \/ Touch(t)
    PROVE  /\ \/ files' = files
              \/ At(t, "open") /\ OpenFile(t)
              \/ At(t, "close") /\ CloseFile(t)
              \/ At(t, "rm_downloads") /\ files' = [file \in Files |-> File("absent")]
           /\ At(t, "open") => OpenFile(t)
           /\ At(t, "close") => CloseFile(t)
BY DEF Step, ShowMessage, ResetPanel, SetGlobal, RunProgram, Return, Ping, ReadAddress, AskCrc,
       AskConfigCrc, OpenFile, CloseFile, TruncateAddress, AskInstance, WriteAddress, RmDownloads,
       RmStore, CpStore, College, ShowCopies, Touch, At

\* Which commands can spoil a download.
LEMMA SpoiledFrame ==
    ASSUME NEW t \in Threads, Step(t) \/ Touch(t)
    PROVE  \/ spoiled' = spoiled
           \/ Blame("instancemd") \/ Blame("configname")
           \/ (At(t, "read_address") \/ At(t, "ask_crc")) /\ Blame(FileOf(Top(t).prog))
           \/ At(t, "close") /\ Command(t).file # "config" /\ Blame(Command(t).file)
BY DEF Step, ShowMessage, ResetPanel, SetGlobal, RunProgram, Return, Ping, ReadAddress, AskCrc,
       AskConfigCrc, OpenFile, CloseFile, TruncateAddress, AskInstance, WriteAddress, RmDownloads,
       RmStore, CpStore, College, ShowCopies, Touch

-----------------------------------------------------------------------------
(***************************************************************************)
(* The stacks keep their shape.                                            *)
(***************************************************************************)
LEMMA MovedGrows ==
    ASSUME Typed, NEW t \in Threads, Running(t), ~AtEnd(t), Moved(t)
    PROVE  \E a \in Activation, progs \in Seq(ProgramNames) :
             Grown(t, a, progs) /\ Moves(t, a, progs)
<1>1. PICK a \in Activation, progs \in Seq(ProgramNames) : Goes(t, a, progs) /\ Moves(t, a, progs)
  BY DEF Moved
<1>2. Grown(t, a, progs)
  BY <1>1, GoesGrows
<1>. QED  BY <1>1, <1>2

\* A running thread has a top of the right kind.
LEMMA StackTyped ==
    ASSUME Typed, NEW t \in Threads, Running(t)
    PROVE  /\ stack[t] \in Seq(Activation) /\ Len(stack[t]) \in Nat /\ Len(stack[t]) >= 1
           /\ Top(t) = stack[t][Len(stack[t])]
           /\ Top(t) \in Activation /\ Top(t).at \in Nat /\ Top(t).at >= 1
<1>1. stack[t] \in Seq(Activation) /\ stack[t] # <<>>
  BY DEF Typed, Running
<1>2. Len(stack[t]) \in Nat /\ Len(stack[t]) >= 1
  BY <1>1
<1>3. stack[t][Len(stack[t])] \in Activation
  BY <1>1, <1>2
<1>4. stack[t][Len(stack[t])].at >= 1
  BY <1>2 DEF Typed
<1>. QED  BY <1>1, <1>2, <1>3, <1>4 DEF Top, Activation

\* Where the programs of the boot stand.
LEMMA BootBelow ==
    ASSUME Typed, BootStack
    PROVE  /\ boot \in Seq(Activation) /\ Len(boot) \in Nat /\ Len(boot) >= 1 /\ Running("main")
           /\ \A i \in 1 .. Len(boot) : (boot[i].prog = "main") <=> (i = 1)
           /\ \A i \in 1 .. Len(boot) : boot[i].prog = "wanconnect" => i = 2 /\ boot[1].at = 8
           /\ \A i \in 1 .. Len(boot) : boot[i].prog \in {"instancemd", "configname"} =>
                i = 3 /\ boot[2].prog = "wanconnect" /\ boot[1].at = 8
                /\ boot[2].at = IF boot[i].prog = "instancemd" THEN 4 ELSE 5
<1>1. boot \in Seq(Activation) /\ boot # <<>> /\ Running("main")
  BY DEF Typed, BootStack, boot, Threads, Running
<1>2. Len(boot) \in Nat /\ Len(boot) >= 1
  BY <1>1
<1>3. \A i \in 1 .. Len(boot) - 1 : Calls(boot[i], boot[i + 1].prog)
  BY DEF BootStack
<1>4. \A i \in 1 .. Len(boot) : i # 1 => i - 1 \in 1 .. Len(boot) - 1 /\ (i - 1) + 1 = i
  BY <1>2
<1>5. \A i \in 1 .. Len(boot) : i # 1 => Calls(boot[i - 1], boot[i].prog)
  BY <1>3, <1>4
<1>6. \A i \in 1 .. Len(boot) : (boot[i].prog = "main") <=> (i = 1)
  BY <1>2, <1>5 DEF BootStack, Calls
<1>7. \A i \in 1 .. Len(boot) : boot[i].prog = "wanconnect" => i = 2 /\ boot[1].at = 8
  <2>. SUFFICES ASSUME NEW i \in 1 .. Len(boot), boot[i].prog = "wanconnect"
                PROVE  i = 2 /\ boot[1].at = 8
    OBVIOUS
  <2>1. i # 1 /\ i - 1 \in 1 .. Len(boot)
    BY <1>2, <1>6
  <2>2. boot[i - 1].prog = "main" /\ boot[i - 1].at = 8
    BY <1>5, <2>1 DEF Calls
  <2>3. i - 1 = 1
    BY <1>6, <2>1, <2>2
  <2>. QED  BY <2>2, <2>3
<1>8. \A i \in 1 .. Len(boot) : boot[i].prog \in {"instancemd", "configname"} =>
        /\ i = 3 /\ boot[2].prog = "wanconnect" /\ boot[1].at = 8
        /\ boot[2].at = IF boot[i].prog = "instancemd" THEN 4 ELSE 5
  <2>. SUFFICES ASSUME NEW i \in 1 .. Len(boot), boot[i].prog \in {"instancemd", "configname"}
                PROVE  /\ i = 3 /\ boot[2].prog = "wanconnect" /\ boot[1].at = 8
                       /\ boot[2].at = IF boot[i].prog = "instancemd" THEN 4 ELSE 5
    OBVIOUS
  <2>1. i # 1 /\ i - 1 \in 1 .. Len(boot)
    BY <1>2, <1>6
  <2>2. /\ boot[i - 1].prog = "wanconnect"
        /\ boot[i - 1].at = IF boot[i].prog = "instancemd" THEN 4 ELSE 5
    BY <1>5, <2>1 DEF Calls
  <2>3. i - 1 = 2
    BY <1>7, <2>1, <2>2
  <2>. QED  BY <1>7, <2>1, <2>2, <2>3
<1>. QED  BY <1>1, <1>2, <1>6, <1>7, <1>8

\* A thread runs programs of its own only.
LEMMA BootRuns ==
    ASSUME Typed, BootStack, ~AtEnd("main"), NEW a \in Activation,
           NEW progs \in Seq(ProgramNames), Moves("main", a, progs)
    PROVE  /\ Len(progs) \in 0 .. 2
           /\ \A k \in 1 .. Len(progs) : progs[k] \in BootPrograms
           /\ Len(progs) >= 1 => Calls(a, progs[1])
           /\ Len(progs) = 2 => Calls(Start(progs[1]), progs[2])
<1>1. /\ Known(Top("main").prog, Top("main").at, Command("main"))
      /\ Top("main") \in Activation /\ Top("main").prog \in BootPrograms
  BY CommandKnown, BootBelow DEF BootStack, Threads, Top, boot
<1>2. Top("main").at \in Nat
  BY <1>1 DEF Activation
<1>. DEFINE op == Command("main").op
<1>3. CASE op = "run"
  <2>1. a.at = Top("main").at + 1 /\ a.prog = Top("main").prog /\ progs = <<Command("main").prog>>
    BY <1>3 DEF Moves
  <2>2. Command("main").prog \in BootPrograms /\ Calls(a, Command("main").prog)
    BY <1>1, <1>2, <1>3, <2>1 DEF Known, Calls, BootPrograms
  <2>. QED  BY <2>1, <2>2
<1>4. CASE op = "ping"
  <2>1. \/ Top("main").prog = "wanconnect" /\ Top("main").at \in {2, 5}
        \/ Top("main").prog \in {"MD_Download", "SD_Download"} /\ Top("main").at = 2
    BY <1>1, <1>4 DEF Known
  <2>2. CASE progs = <<"WanPingOk">> \/ progs = <<"DownloadPingOk">>
    <3>1. PICK prog \in {"WanPingOk", "DownloadPingOk"} : progs = <<prog>> /\ Calls(a, prog)
      BY <1>4, <2>1, <2>2 DEF Moves, Calls
    <3>. QED  BY <3>1 DEF BootPrograms
  <2>3. CASE progs = <<"PingFail">>
    <3>1. a.at = Top("main").at /\ a.prog = Top("main").prog
      BY <1>4, <2>3 DEF Moves
    <3>2. Calls(a, "PingFail")
      BY <2>1, <3>1 DEF Calls
    <3>. QED  BY <2>3, <3>2 DEF BootPrograms
  <2>4. CASE progs = <<"MDCheck", "PingFail">> \/ progs = <<"SDCheck", "PingFail">>
    <3>1. PICK prog \in {"MDCheck", "SDCheck"} : progs = <<prog, "PingFail">> /\ Calls(a, prog)
      BY <1>4, <2>1, <2>4 DEF Moves, Calls
    <3>2. Calls(Start(prog), "PingFail")
      BY DEF Calls, Start
    <3>. QED  BY <3>1, <3>2 DEF BootPrograms
  <2>. QED  BY <1>4, <2>2, <2>3, <2>4 DEF Moves
<1>5. CASE op = "ask_instance"
  <2>1. Top("main").prog = "instancemd" /\ Top("main").at = 2
    BY <1>1, <1>5 DEF Known
  <2>2. progs = <<>> \/ (progs = <<"Invalid">> /\ Calls(a, "Invalid"))
    BY <1>5, <2>1 DEF Moves, Calls
  <2>. QED  BY <2>2 DEF BootPrograms
<1>6. CASE op \notin {"run", "ping", "ask_instance"}
  <2>1. op # "copies"
    BY <1>1 DEF Known, BootPrograms
  <2>2. progs = <<>>
    BY <1>6, <2>1 DEF Moves
  <2>. QED  BY <2>2
<1>. QED  BY <1>3, <1>4, <1>5, <1>6

\* They run event programs only; none leads to a pass code or answers one.
LEMMA EventRuns ==
    ASSUME Typed, EventStack, Running("uart"), ~AtEnd("uart"), NEW a \in Activation,
           NEW progs \in Seq(ProgramNames), Moves("uart", a, progs)
    PROVE  \A k \in 1 .. Len(progs) :
             progs[k] \in EventPrograms \ {"UserValid", "PassValid", "PassInvalid"}
<1>1. /\ Known(Top("uart").prog, Top("uart").at, Command("uart"))
      /\ Top("uart").prog \in EventPrograms
  BY CommandKnown, StackTyped DEF EventStack, Threads, Top
<1>. DEFINE op == Command("uart").op
<1>2. CASE op = "run"
  <2>1. progs = <<Command("uart").prog>>
    BY <1>2 DEF Moves
  <2>2. Command("uart").prog \in {"MD_Download", "SD_Download"}
    BY <1>1, <1>2 DEF Known, EventPrograms
  <2>. QED  BY <2>1, <2>2 DEF EventPrograms
<1>3. CASE op = "ping"
  <2>1. Top("uart").prog # "wanconnect"
    BY <1>1 DEF EventPrograms
  <2>2. \/ \E prog \in {"DownloadPingOk", "PingFail"} : progs = <<prog>>
        \/ \E prog \in {"MDCheck", "SDCheck"} : progs = <<prog, "PingFail">>
    BY <1>3, <2>1 DEF Moves
  <2>. QED  BY <2>2 DEF EventPrograms
<1>4. CASE op \notin {"run", "ping"}
  <2>1. op # "ask_instance"
    BY <1>1 DEF Known, EventPrograms
  <2>2. progs = <<>> \/ progs = <<"Copies">>
    BY <1>4, <2>1 DEF Moves
  <2>. QED  BY <2>2 DEF EventPrograms
<1>. QED  BY <1>2, <1>3, <1>4

\* The boot's stack after a step: as it was, its top gone on, or its top gone.
BootGrown(a, progs) ==
    /\ ~AtEnd("main") /\ Moves("main", a, progs)
    /\ boot' \in Seq(Activation) /\ Len(boot') = Len(boot) + Len(progs)
    /\ \A i \in 1 .. Len(boot) - 1 : boot'[i] = boot[i]
    /\ boot'[Len(boot)] = a
    /\ Len(progs) \in 0 .. 2
    /\ \A k \in 1 .. Len(progs) : boot'[Len(boot) + k] = Start(progs[k])

BootShrunk ==
    /\ Ended("main") /\ Len(boot) >= 2
    /\ boot' \in Seq(Activation) /\ Len(boot') = Len(boot) - 1
    /\ \A i \in 1 .. Len(boot) - 1 : boot'[i] = boot[i]

\* What a step of either thread does to main's stack.
LEMMA BootAfter ==
    ASSUME Typed, BootStack, NEW t \in Threads, Step(t) \/ Touch(t)
    PROVE  \/ t = "uart" /\ boot' = boot
           \/ t = "main" /\ \E a \in Activation, progs \in Seq(ProgramNames) : BootGrown(a, progs)
           \/ t = "main" /\ BootShrunk
<1>1. Running(t) /\ ((~AtEnd(t) /\ Moved(t)) \/ Ended(t))
  BY StepMoves
<1>2. CASE ~AtEnd(t) /\ Moved(t)
  <2>1. PICK a \in Activation, progs \in Seq(ProgramNames) :
          Grown(t, a, progs) /\ Moves(t, a, progs)
    BY <1>1, <1>2, MovedGrows
  <2>2. CASE t = "uart"
    BY <2>1, <2>2 DEF Grown, boot, Threads
  <2>3. CASE t = "main"
    <3>1. Len(progs) \in 0 .. 2
      BY <1>2, <2>1, <2>3, BootRuns
    <3>2. /\ boot' \in Seq(Activation) /\ Len(boot') = Len(boot) + Len(progs)
          /\ \A i \in 1 .. Len(boot) - 1 : boot'[i] = boot[i]
          /\ boot'[Len(boot)] = a
          /\ \A k \in 1 .. Len(progs) : boot'[Len(boot) + k] = Start(progs[k])
      BY <2>1, <2>3 DEF Grown, boot
    <3>. QED  BY <1>2, <2>1, <2>3, <3>1, <3>2 DEF BootGrown
  <2>. QED  BY <2>2, <2>3 DEF Threads
<1>3. CASE Ended(t)
  <2>1. Shrunk(t)
    BY <1>1, <1>3, DiesShrinks DEF Ended
  <2>2. CASE t = "uart"
    BY <2>1, <2>2 DEF Shrunk, boot, Threads
  <2>3. CASE t = "main"
    <3>1. Top("main").prog # "main"
      <4>1. CASE AtEnd("main") /\ Top("main").prog # "main"
        BY <4>1
      <4>2. CASE \E op \in {"read_address", "ask_crc", "ask_config_crc", "ask_instance"} :
                   At("main", op)
        BY <1>1, <2>3, <4>2, CommandKnown DEF Known, At
      <4>. QED  BY <1>3, <2>3, <4>1, <4>2 DEF Ended
    <3>2. Len(boot) >= 2
      BY <2>3, <3>1, BootBelow DEF Top, boot
    <3>. QED  BY <1>3, <2>1, <2>3, <3>2 DEF Shrunk, BootShrunk, boot
  <2>. QED  BY <2>2, <2>3 DEF Threads
<1>. QED  BY <1>1, <1>2, <1>3

\* A program on top of the boot's stack is called by the one below it.
LEMMA TopCalled ==
    ASSUME Typed, BootStack, Len(boot) >= 2
    PROVE  /\ Calls(boot[Len(boot) - 1], Top("main").prog)
           /\ Len(boot) - 1 \in 1 .. Len(boot)
<1>1. Len(boot) \in Nat /\ Top("main") = boot[Len(boot)]
  BY BootBelow DEF Top, boot
<1>2. Len(boot) - 1 \in 1 .. Len(boot) - 1 /\ (Len(boot) - 1) + 1 = Len(boot)
  BY <1>1
<1>. QED  BY <1>1, <1>2 DEF BootStack

\* Programs on main's stack stay called as the code calls them.
LEMMA BootStackStep ==
    ASSUME Typed, BootStack, NEW t \in Threads, Step(t) \/ Touch(t)
    PROVE  BootStack'
<1>1. CASE boot' = boot
  BY <1>1 DEF BootStack
<1>2. ASSUME NEW a \in Activation, NEW progs \in Seq(ProgramNames), BootGrown(a, progs)
      PROVE  BootStack'
  <2>1. /\ Len(progs) \in 0 .. 2
        /\ \A k \in 1 .. Len(progs) : progs[k] \in BootPrograms
        /\ Len(progs) >= 1 => Calls(a, progs[1])
        /\ Len(progs) = 2 => Calls(Start(progs[1]), progs[2])
    BY <1>2, BootRuns DEF BootGrown
  <2>2. a.prog = boot[Len(boot)].prog /\ Len(boot) \in Nat /\ Len(boot) >= 1
    BY <1>2, BootBelow DEF BootGrown, Moves, Top, boot
  <2>3. \A prog : Start(prog).prog = prog
    BY DEF Start
  <2>4. boot' # <<>> /\ boot'[1].prog = "main"
    BY <1>2, <2>1, <2>2 DEF BootGrown, BootStack
  <2>5. \A i \in 1 .. Len(boot') : boot'[i].prog \in BootPrograms
    <3>. SUFFICES ASSUME NEW i \in 1 .. Len(boot')
                  PROVE  boot'[i].prog \in BootPrograms
      OBVIOUS
    <3>1. CASE i < Len(boot)
      BY <1>2, <2>2, <3>1 DEF BootGrown, BootStack
    <3>2. CASE i = Len(boot)
      BY <1>2, <2>2, <3>2 DEF BootGrown, BootStack
    <3>3. CASE i > Len(boot)
      <4>. DEFINE k == i - Len(boot)
      <4>1. k \in 1 .. Len(progs) /\ i = Len(boot) + k
        BY <1>2, <2>1, <2>2, <3>3 DEF BootGrown
      <4>. QED  BY <1>2, <2>1, <2>3, <4>1 DEF BootGrown
    <3>. QED  BY <2>2, <3>1, <3>2, <3>3
  <2>6. \A i \in 1 .. Len(boot') - 1 : Calls(boot'[i], boot'[i + 1].prog)
    <3>. SUFFICES ASSUME NEW i \in 1 .. Len(boot') - 1
                  PROVE  Calls(boot'[i], boot'[i + 1].prog)
      OBVIOUS
    <3>1. CASE i + 1 < Len(boot)
      <4>1. i \in 1 .. Len(boot) - 1 /\ i + 1 \in 1 .. Len(boot) - 1
        BY <2>2, <3>1
      <4>. QED  BY <1>2, <4>1 DEF BootGrown, BootStack
    <3>2. CASE i + 1 = Len(boot)
      <4>1. i \in 1 .. Len(boot) - 1
        BY <2>2, <3>2
      <4>2. boot'[i] = boot[i] /\ boot'[i + 1] = a
        BY <1>2, <3>2, <4>1 DEF BootGrown
      <4>. QED  BY <2>2, <3>2, <4>1, <4>2 DEF BootStack
    <3>3. CASE i = Len(boot)
      <4>1. Len(progs) >= 1 /\ boot'[i] = a /\ boot'[i + 1] = Start(progs[1])
        BY <1>2, <2>1, <2>2, <3>3 DEF BootGrown
      <4>. QED  BY <2>1, <2>3, <4>1
    <3>4. CASE i > Len(boot)
      <4>1. Len(progs) = 2 /\ i = Len(boot) + 1
        BY <1>2, <2>1, <2>2, <3>4 DEF BootGrown
      <4>2. boot'[i] = Start(progs[1]) /\ boot'[Len(boot) + 2] = Start(progs[2])
        BY <1>2, <4>1 DEF BootGrown
      <4>3. i + 1 = Len(boot) + 2
        BY <2>2, <4>1
      <4>. QED  BY <2>1, <2>3, <4>1, <4>2, <4>3
    <3>. QED  BY <2>2, <3>1, <3>2, <3>3, <3>4
  <2>. QED  BY <2>4, <2>5, <2>6 DEF BootStack
<1>3. CASE BootShrunk
  <2>1. Len(boot) \in Nat /\ Len(boot) >= 2 /\ Len(boot') = Len(boot) - 1
    BY <1>3, BootBelow DEF BootShrunk
  <2>2. \A i \in 1 .. Len(boot') : i \in 1 .. Len(boot) /\ boot'[i] = boot[i]
    BY <1>3, <2>1 DEF BootShrunk
  <2>3. \A i \in 1 .. Len(boot') - 1 : i \in 1 .. Len(boot) - 1 /\ i + 1 \in 1 .. Len(boot')
    BY <2>1
  <2>4. boot' # <<>> /\ 1 \in 1 .. Len(boot')
    BY <1>3, <2>1 DEF BootShrunk
  <2>. QED  BY <2>2, <2>3, <2>4 DEF BootStack
<1>. QED  BY <1>1, <1>2, <1>3, BootAfter

\* So do the event thread's; what answers a pass code has its user ID.
LEMMA EventStackStep ==
    ASSUME Typed, EventStack, AuthOnStack, NEW t \in Threads, Step(t) \/ Touch(t)
    PROVE  EventStack' /\ AuthOnStack'
<1>1. Running(t) /\ ((~AtEnd(t) /\ Moved(t)) \/ Ended(t))
  BY StepMoves
<1>2. UNCHANGED <<idGiven, buttonAsId>>
  BY StepFrame
<1>. DEFINE served == stack["uart"]
<1>3. CASE served' = served
  BY <1>2, <1>3 DEF EventStack, AuthOnStack, Auth
<1>4. CASE t = "main"
  <2>1. (\E a \in Activation, progs \in Seq(ProgramNames) : Grown(t, a, progs)) \/ Shrunk(t)
    BY <1>1, MovedGrows, DiesShrinks DEF Ended
  <2>. QED  BY <1>3, <1>4, <2>1 DEF Grown, Shrunk, Threads
<1>5. CASE t = "uart" /\ ~AtEnd(t) /\ Moved(t)
  <2>1. PICK a \in Activation, progs \in Seq(ProgramNames) :
          Grown(t, a, progs) /\ Moves(t, a, progs)
    BY <1>1, <1>5, MovedGrows
  <2>2. \A k \in 1 .. Len(progs) :
          progs[k] \in EventPrograms \ {"UserValid", "PassValid", "PassInvalid"}
    BY <1>1, <1>5, <2>1, EventRuns
  <2>3. /\ a.prog = served[Len(served)].prog
        /\ Len(served) \in Nat /\ Len(served) >= 1 /\ Len(progs) \in Nat
    BY <1>1, <1>5, <2>1, StackTyped DEF Moves
  <2>4. \A prog : Start(prog).prog = prog
    BY DEF Start
  <2>5. ASSUME NEW i \in 1 .. Len(served')
        PROVE  /\ served'[i].prog \in EventPrograms
               /\ served'[i].prog \in {"UserValid", "PassValid", "PassInvalid"} => Auth
    <3>1. CASE i < Len(served)
      <4>1. i \in 1 .. Len(served) - 1 /\ i \in 1 .. Len(served)
        BY <2>3, <3>1
      <4>2. served'[i] = served[i]
        BY <1>5, <2>1, <4>1 DEF Grown
      <4>. QED  BY <4>1, <4>2 DEF EventStack, AuthOnStack
    <3>2. CASE i = Len(served)
      BY <1>5, <2>1, <2>3, <3>2 DEF Grown, EventStack, AuthOnStack
    <3>3. CASE i > Len(served)
      <4>. DEFINE k == i - Len(served)
      <4>1. k \in 1 .. Len(progs) /\ i = Len(served) + k
        BY <1>5, <2>1, <2>3, <3>3 DEF Grown
      <4>2. served'[i] = Start(progs[k])
        BY <1>5, <2>1, <4>1 DEF Grown
      <4>. QED  BY <2>2, <2>4, <4>1, <4>2
    <3>. QED  BY <2>3, <3>1, <3>2, <3>3
  <2>. QED  BY <1>2, <2>5 DEF EventStack, AuthOnStack, Auth
<1>6. CASE t = "uart" /\ Ended(t)
  <2>1. Shrunk(t) /\ Len(served) \in Nat /\ Len(served) >= 1
    BY <1>1, <1>6, DiesShrinks, StackTyped DEF Ended
  <2>2. \A i \in 1 .. Len(served') : i \in 1 .. Len(served) /\ served'[i] = served[i]
    BY <1>6, <2>1 DEF Shrunk
  <2>. QED  BY <1>2, <2>2 DEF EventStack, AuthOnStack, Auth
<1>. QED  BY <1>1, <1>4, <1>5, <1>6 DEF Threads

-----------------------------------------------------------------------------
(***************************************************************************)
(* What the boot has behind it stays true.                                 *)
(***************************************************************************)

\* The command main's thread is at.
LEMMA BootCommand ==
    ASSUME Typed, BootStack, ~AtEnd("main")
    PROVE  /\ Known(Top("main").prog, Top("main").at, Command("main"))
           /\ Top("main") = boot[Len(boot)] /\ Top("main").prog \in BootPrograms
           /\ Top("main").at \in Nat /\ Top("main").at >= 1
<1>1. Running("main") /\ Len(boot) \in Nat /\ Len(boot) >= 1 /\ Top("main") = boot[Len(boot)]
  BY BootBelow DEF Top, boot
<1>. QED  BY <1>1, CommandKnown, StackTyped DEF BootStack, Threads

\* The commands of the event thread that it never is at.
LEMMA EventNever ==
    ASSUME Typed, EventStack, NEW op, At("uart", op)
    PROVE  op \notin {"reset", "set", "truncate_address", "write_address", "ask_instance",
                      "rm_downloads", "rm_store", "cp_store", "college", "ask_config_crc", "touch"}
<1>1. /\ Known(Top("uart").prog, Top("uart").at, Command("uart")) /\ Command("uart").op = op
      /\ Top("uart").prog \in EventPrograms
  BY CommandKnown, StackTyped DEF EventStack, Threads, Top, At
<1>. QED  BY <1>1 DEF Known, EventPrograms

\* The place a command has when it ends, or when it dies.
LEMMA BootEnded ==
    ASSUME Typed, BootStack, Ended("main")
    PROVE  LET top == Top("main")
           IN  /\ top.prog = "wanconnect" => top.at >= 10
               /\ top.prog = "instancemd" => top.at >= 5 \/ (top.at = 2 /\ Blame("instancemd"))
               /\ top.prog = "configname" => top.at >= 8 \/ (top.at = 1 /\ Blame("configname"))
               /\ top.prog = "mlx_fingerprint_test" => top.at >= 4
               /\ top.prog \in {"MD_Download", "SD_Download"} =>
                    \/ top.at >= 8
                    \/ top.at \in {1, 4} /\ Blame(FileOf(top.prog))
               /\ top.prog # "main"
<1>1. Running("main") /\ Top("main").at \in Nat /\ Top("main").at >= 1
  BY BootBelow, StackTyped DEF Threads
<1>2. CASE AtEnd("main") /\ Top("main").prog # "main"
  <2>1. Top("main").at > Len(Script[Top("main").prog])
    BY <1>2 DEF AtEnd
  <2>2. /\ Top("main").prog = "wanconnect" => Top("main").at > 9
        /\ Top("main").prog = "instancemd" => Top("main").at > 4
        /\ Top("main").prog = "configname" => Top("main").at > 7
        /\ Top("main").prog = "mlx_fingerprint_test" => Top("main").at > 3
        /\ Top("main").prog = "MD_Download" => Top("main").at > 7
        /\ Top("main").prog = "SD_Download" => Top("main").at > 7
    BY <2>1, Lengths
  <2>. QED  BY <1>1, <1>2, <2>2
<1>3. CASE (At("main", "read_address") \/ At("main", "ask_crc")) /\ Blame(FileOf(Top("main").prog))
  BY <1>3, BootCommand DEF Known, At
<1>4. CASE \/ At("main", "ask_config_crc") /\ Blame("configname")
           \/ At("main", "ask_instance") /\ Blame("instancemd")
  BY <1>4, BootCommand DEF Known, At
<1>. QED  BY <1>2, <1>3, <1>4 DEF Ended

\* What was blamed stays so.
LEMMA SpoiledGrows ==
    ASSUME NEW t \in Threads, Step(t) \/ Touch(t)
    PROVE  spoiled \subseteq spoiled'
BY SpoiledFrame DEF Blame

\* AddressThen at an activation that waits for what it called.
LEMMA AddressBelow ==
    ASSUME AddressThen, NEW i \in 1 .. Len(boot), PastInstance(boot[i], FALSE)
    PROVE  Addressed
<1>1. PastInstance(boot[i], i = Len(boot))
  BY DEF PastInstance
<1>. QED  BY <1>1 DEF AddressThen

\* AddressThen at the program that runs.
LEMMA AddressTop ==
    ASSUME Typed, BootStack, AddressThen, PastInstance(Top("main"), TRUE)
    PROVE  Addressed
<1>1. Top("main") = boot[Len(boot)] /\ Len(boot) \in 1 .. Len(boot)
  BY BootBelow DEF Top, boot
<1>2. PastInstance(boot[Len(boot)], Len(boot) = Len(boot))
  BY <1>1 DEF PastInstance
<1>. QED  BY <1>1, <1>2 DEF AddressThen

\* No step takes the address from a program that lies past instancemd.
LEMMA AddressThenStep ==
    ASSUME Typed, BootStack, EventStack, AddressThen, NEW t \in Threads, Step(t) \/ Touch(t)
    PROVE  AddressThen'
<1>1. CASE t = "uart" /\ boot' = boot
  <2>1. ~At("uart", "truncate_address") /\ ~At("uart", "write_address")
    BY EventNever
  <2>2. address' = address
    BY <1>1, <2>1, AddressFrame
  <2>. QED  BY <1>1, <2>2, SpoiledGrows DEF AddressThen, Addressed
<1>2. ASSUME t = "main", NEW a \in Activation, NEW progs \in Seq(ProgramNames), BootGrown(a, progs)
      PROVE  AddressThen'
  <2>. DEFINE top == Top("main")
              n == Len(boot)
  <2>1. /\ n \in Nat /\ n >= 1 /\ top = boot[n] /\ top.at \in Nat /\ a.prog = top.prog
        /\ Known(top.prog, top.at, Command("main"))
        /\ a.at = top.at + 1 \/ a.at = top.at
    BY <1>2, BootBelow, BootCommand DEF BootGrown, Moves
  <2>2. CASE At("main", "truncate_address")
    <3>1. top.prog = "instancemd" /\ top.at = 1 /\ progs = <<>>
      BY <1>2, <2>1, <2>2 DEF Known, At, BootGrown, Moves
    <3>2. n = 3 /\ boot[1].prog = "main" /\ boot[1].at = 8
               /\ boot[2].prog = "wanconnect" /\ boot[2].at = 4
      <4>1. n \in 1 .. Len(boot) /\ 1 \in 1 .. Len(boot) /\ boot[n].prog = "instancemd"
        BY <2>1, <3>1
      <4>. QED  BY <4>1, BootBelow
    <3>3. Len(boot') = 3 /\ boot'[1] = boot[1] /\ boot'[2] = boot[2] /\ boot'[3] = a
      BY <1>2, <3>1, <3>2 DEF BootGrown
    <3>4. a.prog = "instancemd" /\ a.at \in {1, 2}
      BY <2>1, <3>1
    <3>5. ~PastInstance(boot[1], FALSE) /\ ~PastInstance(boot[2], FALSE) /\ ~PastInstance(a, TRUE)
      BY <3>2, <3>4 DEF PastInstance
    <3>6. ASSUME NEW i \in 1 .. Len(boot') PROVE ~PastInstance(boot'[i], i = Len(boot'))
      <4>1. i = 1 \/ i = 2 \/ i = 3
        BY <3>3
      <4>. QED  BY <3>3, <3>5, <4>1 DEF PastInstance
    <3>. QED  BY <3>6 DEF AddressThen
  <2>3. CASE ~At("main", "truncate_address")
    <3>1. Addressed => Addressed'
      BY <1>2, <2>3, AddressFrame, SpoiledGrows DEF Addressed
    <3>2. ASSUME NEW i \in 1 .. Len(boot'), PastInstance(boot'[i], i = Len(boot'))
          PROVE  Addressed'
      <4>1. CASE i < n
        <5>1. boot'[i] = boot[i] /\ i # Len(boot') /\ i \in 1 .. n /\ i # n
          BY <1>2, <2>1, <4>1 DEF BootGrown
        <5>2. PastInstance(boot[i], FALSE)
          BY <3>2, <5>1 DEF PastInstance
        <5>. QED  BY <3>1, <5>1, <5>2, AddressBelow
      <4>2. CASE i = n
        <5>1. boot'[i] = a /\ (i = Len(boot') => progs = <<>>)
          BY <1>2, <2>1, <4>2 DEF BootGrown
        <5>2. CASE Command("main").op \in {"run", "write_address"}
          <6>1. CASE Command("main").op = "write_address"
            BY <1>2, <6>1, AddressFrame, BootBelow DEF At, BootGrown, Addressed
          <6>2. CASE Command("main").op = "run"
            <7>1. i # Len(boot') /\ a.at = top.at + 1
              <8>1. Len(progs) = 1
                BY <1>2, <6>2 DEF BootGrown, Moves
              <8>. QED  BY <1>2, <2>1, <4>2, <6>2, <8>1 DEF BootGrown, Moves
            <7>2. PastInstance(a, FALSE)
              BY <3>2, <5>1, <7>1 DEF PastInstance
            <7>3. ~(top.prog = "instancemd" /\ top.at = 4)
              BY <2>1, <6>2 DEF Known
            <7>4. PastInstance(top, TRUE)
              BY <2>1, <7>1, <7>2, <7>3 DEF PastInstance
            <7>. QED  BY <3>1, <7>4, AddressTop
          <6>. QED  BY <5>2, <6>1, <6>2
        <5>3. CASE Command("main").op \notin {"run", "write_address"}
          <6>1. PastInstance(a, TRUE)
            BY <3>2, <5>1 DEF PastInstance
          <6>2. PastInstance(top, TRUE)
            <7>1. CASE a.at = top.at
              BY <2>1, <6>1, <7>1 DEF PastInstance
            <7>2. CASE a.at = top.at + 1
              <8>1. /\ ~(top.prog = "main" /\ top.at = 7)
                    /\ ~(top.prog = "wanconnect" /\ top.at = 3)
                    /\ ~(top.prog = "instancemd" /\ top.at = 4)
                BY <2>1, <5>3 DEF Known
              <8>. QED  BY <2>1, <6>1, <7>2, <8>1 DEF PastInstance
            <7>. QED  BY <2>1, <7>1, <7>2
          <6>. QED  BY <3>1, <6>2, AddressTop
        <5>. QED  BY <5>2, <5>3
      <4>3. CASE i > n
        <5>. DEFINE k == i - n
        <5>1. k \in 1 .. Len(progs) /\ i = n + k
          BY <1>2, <2>1, <4>3 DEF BootGrown
        <5>2. boot'[i] = Start(progs[k])
          BY <1>2, <5>1 DEF BootGrown
        <5>3. boot'[i].at = 1
          BY <5>2 DEF Start
        <5>. QED  BY <3>2, <5>3 DEF PastInstance
      <4>. QED  BY <2>1, <4>1, <4>2, <4>3
    <3>. QED  BY <3>2 DEF AddressThen
  <2>. QED  BY <2>2, <2>3
<1>3. CASE t = "main" /\ BootShrunk
  <2>. DEFINE top == Top("main")
              n == Len(boot)
  <2>1. n \in Nat /\ n >= 2 /\ top = boot[n] /\ Len(boot') = n - 1
    BY <1>3, BootBelow DEF BootShrunk, Top, boot
  <2>2. top.at \in Nat /\ Calls(boot[n - 1], top.prog)
    BY <2>1, TopCalled, BootBelow, StackTyped DEF Threads
  <2>3. Addressed => Addressed'
    <3>1. ~At("main", "truncate_address") /\ ~At("main", "write_address")
      BY <1>3, <2>2, BootEnded, BootCommand DEF BootShrunk, Known, At
    <3>. QED  BY <1>3, <3>1, AddressFrame, SpoiledGrows DEF Addressed
  <2>4. ASSUME NEW i \in 1 .. Len(boot'), PastInstance(boot'[i], i = Len(boot'))
        PROVE  Addressed'
    <3>1. boot'[i] = boot[i] /\ i \in 1 .. n /\ i # n
      BY <1>3, <2>1 DEF BootShrunk
    <3>2. CASE PastInstance(boot[i], FALSE)
      BY <2>3, <3>1, <3>2, AddressBelow
    <3>3. CASE ~PastInstance(boot[i], FALSE)
      <4>1. /\ i = n - 1
            /\ \/ boot[i].prog = "main" /\ boot[i].at = 8
               \/ boot[i].prog = "wanconnect" /\ boot[i].at = 4
        BY <2>1, <2>4, <3>1, <3>3 DEF PastInstance
      <4>2. top.prog \in {"wanconnect", "instancemd"}
        BY <2>2, <4>1 DEF Calls
      <4>3. top.prog = "wanconnect" => top.at >= 10
        BY <1>3, BootEnded DEF BootShrunk
      <4>4. top.prog = "instancemd" => top.at >= 5 \/ Blame("instancemd")
        BY <1>3, BootEnded DEF BootShrunk
      <4>5. PastInstance(top, TRUE) \/ Blame("instancemd")
        BY <2>2, <4>2, <4>3, <4>4 DEF PastInstance
      <4>. QED  BY <2>3, <4>5, AddressTop DEF Blame, Addressed
    <3>. QED  BY <3>2, <3>3
  <2>. QED  BY <2>4 DEF AddressThen
<1>. QED  BY <1>1, <1>2, <1>3, BootAfter

\* Each place of the grown stack: below the old top, the old top, or started.
LEMMA GrownPlaces ==
    ASSUME Typed, BootStack, NEW a \in Activation, NEW progs \in Seq(ProgramNames),
           BootGrown(a, progs), NEW i \in 1 .. Len(boot')
    PROVE  \/ i \in 1 .. Len(boot) - 1 /\ boot'[i] = boot[i] /\ i # Len(boot')
           \/ i = Len(boot) /\ boot'[i] = a /\ (i = Len(boot') => progs = <<>>)
           \/ boot'[i].at = 1 /\ boot'[i].reply = "none"
<1>1. /\ Len(boot) \in Nat /\ Len(progs) \in Nat
      /\ Len(boot') = Len(boot) + Len(progs) /\ Len(boot) >= 1
  <2>1. Len(boot) \in Nat /\ Len(boot) >= 1
    BY BootBelow
  <2>2. Len(progs) \in Nat /\ Len(boot') = Len(boot) + Len(progs)
    BY DEF BootGrown
  <2>. QED  BY <2>1, <2>2
<1>2. CASE i < Len(boot)
  BY <1>1, <1>2 DEF BootGrown
<1>3. CASE i = Len(boot)
  BY <1>1, <1>3 DEF BootGrown
<1>4. CASE i > Len(boot)
  <2>. DEFINE k == i - Len(boot)
  <2>1. k \in 1 .. Len(progs) /\ i = Len(boot) + k
    BY <1>1, <1>4
  <2>2. boot'[i] = Start(progs[k])
    BY <2>1 DEF BootGrown
  <2>. QED  BY <2>2 DEF Start
<1>. QED  BY <1>1, <1>2, <1>3, <1>4

\* The old top: where it stands, where it goes, and whether it stays on top.
LEMMA TopMoves ==
    ASSUME Typed, BootStack, NEW a \in Activation, NEW progs \in Seq(ProgramNames),
           BootGrown(a, progs)
    PROVE  LET top == Top("main")
               op  == Command("main").op
           IN  /\ top = boot[Len(boot)] /\ Len(boot) \in 1 .. Len(boot)
               /\ top.at \in Nat /\ top.at >= 1 /\ top.prog \in BootPrograms
               /\ Known(top.prog, top.at, Command("main"))
               /\ At("main", op)
               /\ a.prog = top.prog
               /\ a.at = top.at + 1 \/ (a.at = top.at /\ op \in {"ping", "ask_instance"})
               /\ progs = <<>> => op # "run" /\ a.at = top.at + 1
<1>1. Running("main") /\ Len(boot) \in 1 .. Len(boot) /\ ~AtEnd("main") /\ Moves("main", a, progs)
  BY BootBelow DEF BootGrown
<1>2. /\ Known(Top("main").prog, Top("main").at, Command("main"))
      /\ Top("main") = boot[Len(boot)] /\ Top("main").prog \in BootPrograms
      /\ Top("main").at \in Nat /\ Top("main").at >= 1
  BY <1>1, BootCommand
<1>3. At("main", Command("main").op)
  BY <1>1 DEF At
<1>4. progs = <<>> => Command("main").op # "run" /\ a.at = Top("main").at + 1
  BY <1>1 DEF Moves
<1>. QED  BY <1>1, <1>2, <1>3, <1>4 DEF Moves

\* configname is third, on wanconnect, on main: nobody has it behind him.
LEMMA ConfigAlone ==
    ASSUME Typed, BootStack, Top("main").prog = "configname"
    PROVE  /\ Len(boot) = 3
           /\ boot[1].prog = "main" /\ boot[1].at = 8
           /\ boot[2].prog = "wanconnect" /\ boot[2].at = 5
<1>1. Len(boot) \in 1 .. Len(boot) /\ 1 \in 1 .. Len(boot) /\ boot[Len(boot)].prog = "configname"
  BY BootBelow DEF Top, boot
<1>. QED  BY <1>1, BootBelow

\* StoreThen at the program that runs.
LEMMA StoreTop ==
    ASSUME Typed, BootStack, StoreThen, PastTouch(Top("main"), TRUE)
    PROVE  store
<1>1. Top("main") = boot[Len(boot)] /\ Len(boot) \in 1 .. Len(boot)
  BY BootBelow DEF Top, boot
<1>2. PastTouch(boot[Len(boot)], Len(boot) = Len(boot))
  BY <1>1 DEF PastTouch
<1>. QED  BY <1>1, <1>2 DEF StoreThen

\* StoreThen at an activation that waits for what it called.
LEMMA StoreBelow ==
    ASSUME StoreThen, NEW i \in 1 .. Len(boot), PastTouch(boot[i], FALSE)
    PROVE  store
<1>1. PastTouch(boot[i], i = Len(boot))
  BY DEF PastTouch
<1>. QED  BY <1>1 DEF StoreThen

\* No step takes the store from a program that lies past the touch.
LEMMA StoreThenStep ==
    ASSUME Typed, BootStack, EventStack, StoreThen, NEW t \in Threads, Step(t) \/ Touch(t)
    PROVE  StoreThen'
<1>1. CASE t = "uart" /\ boot' = boot
  <2>1. ~At("uart", "rm_store") /\ ~At("uart", "cp_store")
    BY EventNever
  <2>2. store' = store
    BY <1>1, <2>1, StoreFrame
  <2>. QED  BY <1>1, <2>2 DEF StoreThen
<1>2. ASSUME t = "main", NEW a \in Activation, NEW progs \in Seq(ProgramNames), BootGrown(a, progs),
             NEW i \in 1 .. Len(boot'), PastTouch(boot'[i], i = Len(boot'))
      PROVE  store'
  <2>. DEFINE top == Top("main")
              op  == Command("main").op
  <2>1. /\ top = boot[Len(boot)] /\ top.at \in Nat /\ Known(top.prog, top.at, Command("main"))
        /\ At("main", op) /\ a.prog = top.prog
        /\ a.at = top.at + 1 \/ (a.at = top.at /\ op \in {"ping", "ask_instance"})
        /\ progs = <<>> => op # "run" /\ a.at = top.at + 1
    BY <1>2, TopMoves
  <2>2. CASE op \in {"rm_store", "cp_store"}
    <3>1. top.prog = "configname" /\ a.prog = "configname"
      BY <2>1, <2>2 DEF Known
    <3>2. Len(boot) = 3 /\ boot[1].prog = "main" /\ boot[1].at = 8 /\ boot[2].prog = "wanconnect"
      BY <3>1, ConfigAlone
    <3>3. (i \in {1, 2} /\ boot'[i] = boot[i]) \/ boot'[i] = a \/ boot'[i].at = 1
      BY <1>2, <3>2, GrownPlaces
    <3>4. ~PastTouch(boot'[i], i = Len(boot'))
      BY <3>1, <3>2, <3>3 DEF PastTouch
    <3>. QED  BY <1>2, <3>4
  <2>3. CASE op \notin {"rm_store", "cp_store"}
    <3>1. store' = store
      BY <1>2, <2>1, <2>3, StoreFrame DEF At
    <3>2. CASE i \in 1 .. Len(boot) - 1 /\ boot'[i] = boot[i] /\ i # Len(boot')
      <4>1. PastTouch(boot[i], FALSE) /\ i \in 1 .. Len(boot)
        BY <1>2, <3>2, BootBelow DEF PastTouch
      <4>. QED  BY <3>1, <4>1, StoreBelow
    <3>3. CASE boot'[i] = a /\ (i = Len(boot') => progs = <<>>)
      <4>1. CASE op = "touch"
        BY <1>2, <2>1, <3>1, <4>1, StoreFrame
      <4>2. CASE op # "touch"
        <5>1. ~(top.prog = "mlx_fingerprint_test" /\ top.at = 2)
          BY <2>1, <4>2 DEF Known
        <5>2. a.prog = "main" /\ a.at = 14 => i # Len(boot') \/ top.at = 14
          BY <2>1, <3>3 DEF Known
        <5>3. PastTouch(top, TRUE)
          BY <1>2, <2>1, <3>3, <5>1, <5>2 DEF PastTouch
        <5>. QED  BY <3>1, <5>3, StoreTop
      <4>. QED  BY <4>1, <4>2
    <3>4. CASE boot'[i].at = 1
      BY <1>2, <3>4 DEF PastTouch
    <3>. QED  BY <1>2, <3>2, <3>3, <3>4, GrownPlaces
  <2>. QED  BY <2>2, <2>3
<1>3. ASSUME t = "main", BootShrunk, NEW i \in 1 .. Len(boot'), PastTouch(boot'[i], i = Len(boot'))
      PROVE  store'
  <2>. DEFINE top == Top("main")
  <2>1. Len(boot) \in Nat /\ Len(boot) >= 2 /\ Len(boot') = Len(boot) - 1
    BY <1>3, BootBelow DEF BootShrunk
  <2>2. Calls(boot[Len(boot) - 1], top.prog) /\ top.at \in Nat
    BY <2>1, TopCalled, BootBelow, StackTyped DEF Threads
  <2>3. store' = store
    <3>1. ~At("main", "rm_store") /\ ~At("main", "cp_store")
      BY <1>3, <2>2, BootEnded, BootCommand DEF BootShrunk, Known, At
    <3>. QED  BY <1>3, <3>1, StoreFrame
  <2>4. boot'[i] = boot[i] /\ i \in 1 .. Len(boot)
    BY <1>3, <2>1 DEF BootShrunk
  <2>5. CASE PastTouch(boot[i], FALSE)
    BY <2>3, <2>4, <2>5, StoreBelow
  <2>6. CASE ~PastTouch(boot[i], FALSE)
    <3>1. i = Len(boot) - 1 /\ boot[i].prog = "main" /\ boot[i].at = 14
      BY <1>3, <2>1, <2>4, <2>6 DEF PastTouch
    <3>2. top.prog = "mlx_fingerprint_test"
      BY <2>2, <3>1 DEF Calls
    <3>3. top.at >= 4
      BY <1>3, <3>2, BootEnded DEF BootShrunk
    <3>4. PastTouch(top, TRUE)
      BY <2>2, <3>2, <3>3 DEF PastTouch
    <3>. QED  BY <2>3, <3>4, StoreTop
  <2>. QED  BY <2>5, <2>6
<1>4. CASE t = "main" /\ \E a \in Activation, progs \in Seq(ProgramNames) : BootGrown(a, progs)
  BY <1>2, <1>4 DEF StoreThen
<1>5. CASE t = "main" /\ BootShrunk
  BY <1>3, <1>5 DEF StoreThen
<1>. QED  BY <1>1, <1>4, <1>5, BootAfter

\* Only configname, and the reset at the very beginning, touch the store, the
\* name of the college and the configuration.
LEMMA ConfigFrame ==
    ASSUME Typed, NEW t \in Threads, Step(t) \/ Touch(t), Running(t),
           Top(t).prog # "configname", ~At(t, "reset")
    PROVE  /\ store' = store /\ panel'.college = panel.college
           /\ files'["config"].state = files["config"].state
<1>1. \A op : At(t, op) => Known(Top(t).prog, Top(t).at, Command(t)) /\ Command(t).op = op
  BY CommandKnown DEF At
<1>2. store' = store
  BY <1>1, StoreFrame DEF Known
<1>3. DOMAIN panel = {"line1", "line2", "line3", "gui", "red", "green", "college"}
  BY DEF Typed, PanelReset
<1>4. panel'.college = panel.college
  <2>1. ~At(t, "college")
    BY <1>1 DEF Known
  <2>2. CASE panel' = panel
    BY <2>2
  <2>3. CASE At(t, "show") /\ panel' = Apply(Command(t).changes, panel)
    <3>1. "college" \notin DOMAIN Command(t).changes
      BY <1>1, <2>3 DEF Known, Shown
    <3>. QED  BY <1>3, <2>3, <3>1 DEF Apply
  <2>. QED  BY <2>1, <2>2, <2>3, PanelFrame
<1>5. files'["config"].state = files["config"].state
  <2>1. ~At(t, "rm_downloads")
    BY <1>1 DEF Known
  <2>2. CASE files' = files
    BY <2>2
  <2>3. CASE (At(t, "open") /\ OpenFile(t)) \/ (At(t, "close") /\ CloseFile(t))
    <3>1. Command(t).file \in {"master", "session"}
      BY <1>1, <2>3 DEF Known, FileOf
    <3>2. files \in [Files -> [state : {"absent", "bad", "whole"}, writers : SUBSET Threads,
                             done : SUBSET BOOLEAN]]
      BY DEF Typed
    <3>3. files'["config"] = files["config"]
      BY <2>3, <3>1, <3>2 DEF OpenFile, CloseFile, Files
    <3>. QED  BY <3>3
  <2>. QED  BY <2>1, <2>2, <2>3, FilesFrame
<1>. QED  BY <1>2, <1>4, <1>5

\* CollegeThen at the program that runs.
LEMMA CollegeTop ==
    ASSUME Typed, BootStack, CollegeThen, PastConfig(Top("main"), TRUE), store
    PROVE  Named
<1>1. Top("main") = boot[Len(boot)] /\ Len(boot) \in 1 .. Len(boot)
  BY BootBelow DEF Top, boot
<1>2. PastConfig(boot[Len(boot)], Len(boot) = Len(boot))
  BY <1>1 DEF PastConfig
<1>. QED  BY <1>1, <1>2 DEF CollegeThen

\* CollegeThen at an activation that waits for what it called.
LEMMA CollegeBelow ==
    ASSUME CollegeThen, NEW i \in 1 .. Len(boot), PastConfig(boot[i], FALSE), store
    PROVE  Named
<1>1. PastConfig(boot[i], i = Len(boot))
  BY DEF PastConfig
<1>. QED  BY <1>1 DEF CollegeThen

\* No step takes the college name from a program that lies past configname.
LEMMA CollegeThenStep ==
    ASSUME Typed, BootStack, EventStack, CollegeThen, NEW t \in Threads, Step(t) \/ Touch(t)
    PROVE  CollegeThen'
<1>. DEFINE whole == files["config"].state = "whole"
            top   == Top("main")
            op    == Command("main").op
<1>1. CASE t = "uart" /\ boot' = boot
  <2>1. Running("uart") /\ Top("uart").prog # "configname" /\ ~At("uart", "reset")
    <3>1. Running("uart")
      BY <1>1, StepMoves
    <3>. QED  BY <3>1, EventNever, StackTyped DEF EventStack, EventPrograms, Threads
  <2>2. store' = store /\ (Named => Named') /\ whole' = whole
    BY <1>1, <2>1, ConfigFrame, SpoiledGrows DEF Named
  <2>. QED  BY <1>1, <2>2 DEF CollegeThen
<1>2. ASSUME t = "main", NEW a \in Activation, NEW progs \in Seq(ProgramNames), BootGrown(a, progs)
      PROVE  CollegeThen'
  <2>1. /\ top = boot[Len(boot)] /\ top.at \in Nat /\ Known(top.prog, top.at, Command("main"))
        /\ At("main", op) /\ a.prog = top.prog
        /\ a.at = top.at + 1 \/ (a.at = top.at /\ op \in {"ping", "ask_instance"})
        /\ progs = <<>> => op # "run" /\ a.at = top.at + 1
        /\ Len(boot) \in Nat /\ Running("main") /\ Len(boot) >= 1
    BY <1>2, TopMoves, BootBelow
  <2>2. CASE top.prog = "configname"
    <3>1. /\ Len(boot) = 3 /\ boot[1].prog = "main" /\ boot[1].at = 8
          /\ boot[2].prog = "wanconnect" /\ boot[2].at = 5
      BY <2>2, ConfigAlone
    <3>2. progs = <<>> /\ a.at = top.at + 1
      BY <1>2, <2>1, <2>2 DEF Known, BootGrown, Moves, BootPrograms
    <3>3. Len(boot') = 3 /\ boot'[1] = boot[1] /\ boot'[2] = boot[2] /\ boot'[3] = a
      BY <1>2, <3>1, <3>2 DEF BootGrown
    <3>4. a.at = 7 => (store' => whole')
      <4>. SUFFICES ASSUME a.at = 7 PROVE store' => whole'
        OBVIOUS
      <4>1. At("main", "cp_store")
        BY <2>1, <2>2, <3>2 DEF Known
      <4>2. files' = files
        BY <1>2, <2>1, <2>2, <3>2, <4>1, FilesFrame DEF At
      <4>. QED  BY <1>2, <4>1, <4>2, StoreFrame
    <3>5. a.at >= 8 => (store' => Named')
      <4>. SUFFICES ASSUME a.at >= 8 PROVE store' => Named'
        OBVIOUS
      <4>1. top.at = 7
        <5>1. ~(top.at > Len(Script[top.prog]))
          BY <1>2, <2>1 DEF BootGrown, AtEnd
        <5>2. ~(top.at > 7)
          BY <2>2, <5>1, Lengths
        <5>. QED  BY <2>1, <3>2, <5>2
      <4>2. At("main", "college")
        BY <2>1, <2>2, <4>1 DEF Known
      <4>3. store => whole
        BY <2>1, <2>2, <3>1, <4>1 DEF CollegeThen
      <4>4. store' = store
        BY <1>2, <4>2, StoreFrame DEF At
      <4>5. panel' = [panel EXCEPT !.college = @ \/ whole] /\ "college" \in DOMAIN panel
        BY <1>2, <4>2, StoreFrame DEF Typed, PanelReset
      <4>. QED  BY <4>3, <4>4, <4>5 DEF Named
    <3>6. ~PastConfig(boot[1], FALSE) /\ ~PastConfig(boot[2], FALSE)
      BY <3>1 DEF PastConfig
    <3>7. PastConfig(a, TRUE) => (store' => Named')
      BY <2>1, <2>2, <3>5 DEF PastConfig
    <3>8. ASSUME NEW i \in 1 .. Len(boot')
          PROVE  /\ PastConfig(boot'[i], i = Len(boot')) => (store' => Named')
                 /\ boot'[i].prog = "configname" /\ boot'[i].at = 7 => (store' => whole')
      <4>1. i = 1 \/ i = 2 \/ i = 3
        BY <3>3
      <4>. QED  BY <3>1, <3>3, <3>4, <3>6, <3>7, <4>1 DEF PastConfig
    <3>9. ASSUME NEW i \in 1 .. Len(boot') - 1, boot'[i].prog = "wanconnect"
          PROVE  boot'[i + 1].prog # "PingFail"
      <4>1. i = 1 \/ i = 2
        BY <3>3
      <4>. QED  BY <2>1, <2>2, <3>1, <3>3, <3>9, <4>1
    <3>. QED  BY <3>8, <3>9 DEF CollegeThen
  <2>3. CASE op = "reset"
    <3>1. top.prog = "main" /\ top.at = 1 /\ progs = <<>> /\ a.at = 2
      BY <1>2, <2>1, <2>3 DEF Known, BootGrown, Moves
    <3>2. Len(boot) = 1
      <4>1. Len(boot) \in 1 .. Len(boot) /\ boot[Len(boot)].prog = "main"
        BY <2>1, <3>1
      <4>. QED  BY <4>1, BootBelow
    <3>3. Len(boot') = 1 /\ boot'[1] = a
      BY <1>2, <3>1, <3>2 DEF BootGrown
    <3>. QED  BY <2>1, <3>1, <3>3 DEF CollegeThen, PastConfig
  <2>4. CASE top.prog # "configname" /\ op # "reset"
    <3>1. store' = store /\ (Named => Named') /\ whole' = whole
      BY <1>2, <2>1, <2>4, ConfigFrame, SpoiledGrows DEF At, Named
    <3>2. ASSUME NEW i \in 1 .. Len(boot'), PastConfig(boot'[i], i = Len(boot')), store'
          PROVE  Named'
      <4>1. CASE i \in 1 .. Len(boot) - 1 /\ boot'[i] = boot[i] /\ i # Len(boot')
        <5>1. PastConfig(boot[i], FALSE) /\ i \in 1 .. Len(boot)
          BY <2>1, <3>2, <4>1 DEF PastConfig
        <5>. QED  BY <3>1, <3>2, <5>1, CollegeBelow
      <4>2. CASE boot'[i] = a /\ (i = Len(boot') => progs = <<>>)
        <5>1. PastConfig(a, progs = <<>>)
          BY <3>2, <4>2 DEF PastConfig
        <5>2. PastConfig(top, TRUE)
          <6>1. CASE a.at = top.at
            BY <2>1, <5>1, <6>1 DEF PastConfig
          <6>2. CASE a.at = top.at + 1
            <7>1. /\ top.prog = "main" /\ top.at = 7 => progs # <<>>
                  /\ top.prog = "wanconnect" /\ top.at = 4 => progs # <<>>
              BY <2>1 DEF Known
            <7>. QED  BY <2>1, <2>4, <5>1, <6>2, <7>1 DEF PastConfig
          <6>. QED  BY <2>1, <6>1, <6>2
        <5>. QED  BY <3>1, <3>2, <5>2, CollegeTop
      <4>3. CASE boot'[i].at = 1
        BY <3>2, <4>3 DEF PastConfig
      <4>. QED  BY <1>2, <4>1, <4>2, <4>3, GrownPlaces
    <3>3. ASSUME NEW i \in 1 .. Len(boot'), boot'[i].prog = "configname", boot'[i].at = 7, store'
          PROVE  whole'
      <4>1. CASE i \in 1 .. Len(boot) - 1 /\ boot'[i] = boot[i] /\ i # Len(boot')
        BY <2>1, <3>1, <3>3, <4>1 DEF CollegeThen
      <4>. QED  BY <1>2, <2>1, <2>4, <3>3, <4>1, GrownPlaces
    <3>4. ASSUME NEW i \in 1 .. Len(boot') - 1, boot'[i].prog = "wanconnect", boot'[i].at = 5,
                 boot'[i + 1].prog = "PingFail", store'
          PROVE  Named'
      <4>1. i \in 1 .. Len(boot')
        BY <1>2, <2>1 DEF BootGrown
      <4>2. CASE i \in 1 .. Len(boot) - 1 /\ boot'[i] = boot[i]
        <5>1. boot'[i + 1].prog = boot[i + 1].prog
          BY <1>2, <2>1, <4>2 DEF BootGrown
        <5>. QED  BY <3>1, <3>4, <4>2, <5>1 DEF CollegeThen
      <4>3. CASE i = Len(boot) /\ boot'[i] = a
        <5>1. top.at = 5
          <6>1. CASE op = "run"
            <7>1. progs = <<Command("main").prog>> /\ a.at = top.at + 1
              BY <1>2, <6>1 DEF BootGrown, Moves
            <7>2. Command("main").prog = "configname"
              BY <2>1, <3>4, <4>3, <6>1, <7>1 DEF Known
            <7>3. boot'[i + 1] = Start("configname")
              BY <1>2, <4>3, <7>1, <7>2 DEF BootGrown
            <7>. QED  BY <3>4, <7>3 DEF Start
          <6>2. CASE op # "run"
            BY <2>1, <3>4, <4>3, <6>2 DEF Known
          <6>. QED  BY <6>1, <6>2
        <5>2. PastConfig(top, TRUE)
          BY <2>1, <3>4, <4>3, <5>1 DEF PastConfig
        <5>. QED  BY <3>1, <3>4, <5>2, CollegeTop
      <4>. QED  BY <1>2, <3>4, <4>1, <4>2, <4>3, GrownPlaces
    <3>. QED  BY <3>2, <3>3, <3>4 DEF CollegeThen
  <2>. QED  BY <2>2, <2>3, <2>4
<1>3. ASSUME t = "main", BootShrunk
      PROVE  CollegeThen'
  <2>1. Len(boot) \in Nat /\ Len(boot) >= 2 /\ Len(boot') = Len(boot) - 1 /\ Running("main")
    BY <1>3, BootBelow DEF BootShrunk
  <2>2. Calls(boot[Len(boot) - 1], top.prog) /\ top.at \in Nat /\ top = boot[Len(boot)]
    BY <2>1, TopCalled, BootBelow, StackTyped DEF Threads, Top, boot
  <2>3. store' = store /\ (Named => Named') /\ whole' = whole
    <3>1. \A any \in {"rm_store", "cp_store", "college", "reset", "show", "open", "close",
                      "rm_downloads"} : ~At("main", any)
      BY <1>3, <2>2, BootEnded, BootCommand DEF BootShrunk, Ended, Known, At
    <3>. QED  BY <1>3, <3>1, StoreFrame, PanelFrame, FilesFrame, SpoiledGrows DEF Named
  <2>4. ASSUME NEW i \in 1 .. Len(boot'), PastConfig(boot'[i], i = Len(boot')), store'
        PROVE  Named'
    <3>1. boot'[i] = boot[i] /\ i \in 1 .. Len(boot)
      BY <1>3, <2>1 DEF BootShrunk
    <3>2. CASE PastConfig(boot[i], FALSE)
      BY <2>3, <2>4, <3>1, <3>2, CollegeBelow
    <3>3. CASE ~PastConfig(boot[i], FALSE)
      <4>1. /\ i = Len(boot) - 1
            /\ \/ boot[i].prog = "main" /\ boot[i].at = 8
               \/ boot[i].prog = "wanconnect" /\ boot[i].at = 5
        BY <2>1, <2>4, <3>1, <3>3 DEF PastConfig
      <4>2. \/ top.prog \in {"wanconnect", "configname"}
            \/ boot[i].prog = "wanconnect" /\ boot[i].at = 5 /\ top.prog = "PingFail"
        BY <2>2, <4>1 DEF Calls
      <4>3. CASE top.prog \in {"wanconnect", "configname"}
        <5>1. /\ top.prog = "wanconnect" => top.at >= 10
              /\ top.prog = "configname" => top.at >= 8 \/ Blame("configname")
          BY <1>3, BootEnded DEF BootShrunk
        <5>2. PastConfig(top, TRUE) \/ Blame("configname")
          BY <2>2, <4>3, <5>1 DEF PastConfig
        <5>. QED  BY <2>3, <2>4, <5>2, CollegeTop DEF Blame, Named
      <4>4. CASE boot[i].prog = "wanconnect" /\ boot[i].at = 5 /\ top.prog = "PingFail"
        <5>1. i \in 1 .. Len(boot) - 1 /\ i + 1 = Len(boot)
          BY <2>1, <4>1
        <5>. QED  BY <2>2, <2>3, <2>4, <4>4, <5>1 DEF CollegeThen
      <4>. QED  BY <4>2, <4>3, <4>4
    <3>. QED  BY <3>2, <3>3
  <2>5. \A i \in 1 .. Len(boot') : i \in 1 .. Len(boot) - 1 /\ boot'[i] = boot[i]
    BY <1>3, <2>1 DEF BootShrunk
  <2>6. \A i \in 1 .. Len(boot') - 1 : i + 1 \in 1 .. Len(boot') /\ i \in 1 .. Len(boot')
    BY <2>1
  <2>. QED  BY <2>1, <2>3, <2>4, <2>5, <2>6 DEF CollegeThen
<1>. QED  BY <1>1, <1>2, <1>3, BootAfter

\* Who was turned away asks on: no step of a thread, and not its own, ends that.
LEMMA RejectedStep ==
    ASSUME Typed, BootStack, RejectedAsks, NEW t \in Threads, Step(t) \/ Touch(t)
    PROVE  RejectedAsks' /\ (Rejected => Rejected' \/ Blame("instancemd"))
<1>1. CASE boot' = boot
  BY <1>1 DEF RejectedAsks, Rejected, boot
<1>2. ASSUME NEW a \in Activation, NEW progs \in Seq(ProgramNames), BootGrown(a, progs)
      PROVE  RejectedAsks' /\ (Rejected => Rejected' \/ Blame("instancemd"))
  <2>. DEFINE top == Top("main")
              op  == Command("main").op
              n   == Len(boot)
  <2>1. /\ top = boot[n] /\ n \in 1 .. n /\ top.at \in Nat
        /\ Known(top.prog, top.at, Command("main")) /\ a.prog = top.prog
    BY <1>2, TopMoves
  <2>2. a.reply = "false" => a.prog = "instancemd" /\ a.at = 2
    <3>1. CASE op = "ask_instance"
      BY <1>2, <2>1, <3>1 DEF Known, BootGrown, Moves
    <3>2. CASE op # "ask_instance"
      <4>1. a.reply = top.reply
        BY <1>2, <3>2 DEF BootGrown, Moves
      <4>. QED  BY <2>1, <3>2, <4>1 DEF RejectedAsks, Known
    <3>. QED  BY <3>1, <3>2
  <2>3. RejectedAsks'
    <3>1. ASSUME NEW i \in 1 .. Len(boot'), boot'[i].reply = "false"
          PROVE  boot'[i].prog = "instancemd" /\ boot'[i].at = 2
      <4>1. CASE i \in 1 .. n - 1 /\ boot'[i] = boot[i]
        BY <2>1, <3>1, <4>1 DEF RejectedAsks
      <4>. QED  BY <1>2, <2>2, <3>1, <4>1, GrownPlaces
    <3>. QED  BY <3>1 DEF RejectedAsks
  <2>4. ASSUME NEW i \in 1 .. n, boot[i].reply = "false"
        PROVE  i \in 1 .. Len(boot') /\ boot'[i].reply = "false"
    <3>1. i \in 1 .. Len(boot')
      BY <1>2, <2>1 DEF BootGrown
    <3>2. CASE i # n
      BY <1>2, <2>1, <2>4, <3>1, <3>2 DEF BootGrown
    <3>3. CASE i = n
      <4>1. op = "ask_instance" /\ top.reply = "false"
        BY <2>1, <2>4, <3>3 DEF RejectedAsks, Known
      <4>2. a.reply = "false" /\ boot'[i] = a
        BY <1>2, <3>3, <4>1 DEF BootGrown, Moves
      <4>. QED  BY <3>1, <4>2
    <3>. QED  BY <3>2, <3>3
  <2>. QED  BY <2>3, <2>4 DEF Rejected, boot
<1>3. ASSUME BootShrunk
      PROVE  RejectedAsks' /\ (Rejected => Rejected' \/ Blame("instancemd"))
  <2>1. Len(boot) \in Nat /\ Len(boot) >= 2 /\ Len(boot') = Len(boot) - 1
        /\ Top("main") = boot[Len(boot)] /\ Len(boot) \in 1 .. Len(boot)
    BY <1>3, BootBelow DEF BootShrunk, Top, boot
  <2>2. \A i \in 1 .. Len(boot') : i \in 1 .. Len(boot) /\ boot'[i] = boot[i]
    BY <1>3, <2>1 DEF BootShrunk
  <2>3. boot[Len(boot)].reply # "false" \/ Blame("instancemd")
    <3>1. CASE boot[Len(boot)].prog = "instancemd"
      <4>1. boot[Len(boot)].at >= 5 \/ Blame("instancemd")
        BY <1>3, <2>1, <3>1, BootEnded DEF BootShrunk
      <4>. QED  BY <2>1, <4>1 DEF RejectedAsks
    <3>. QED  BY <2>1, <3>1 DEF RejectedAsks
  <2>4. ASSUME NEW i \in 1 .. Len(boot), boot[i].reply = "false", ~Blame("instancemd")
        PROVE  i \in 1 .. Len(boot') /\ boot'[i].reply = "false"
    <3>1. i # Len(boot)
      BY <2>3, <2>4
    <3>2. i \in 1 .. Len(boot')
      BY <2>1, <3>1
    <3>. QED  BY <2>2, <2>4, <3>2
  <2>. QED  BY <2>2, <2>4 DEF RejectedAsks, Rejected, boot
<1>. QED  BY <1>1, <1>2, <1>3, BootAfter

-----------------------------------------------------------------------------
(***************************************************************************)
(* What the panel shows.                                                   *)
(***************************************************************************)

\* The panel keeps its parts, and the way to the pass code is shown by the
\* event thread's programs for it only.
LEMMA PanelStep ==
    ASSUME Typed, BootStack, EventStack, AuthNeedsUserId, AuthOnLine, AuthOnStack,
           NEW t \in Threads, Step(t) \/ Touch(t)
    PROVE  /\ DOMAIN panel' = DOMAIN PanelReset /\ panel'.gui \in Windows
           /\ {panel'.red, panel'.green} \subseteq {"off", "on"} /\ panel'.college \in BOOLEAN
           /\ AuthNeedsUserId' /\ AuthOnLine'
<1>1. UNCHANGED <<line, idGiven, buttonAsId>>
  BY StepFrame
<1>2. AuthOnLine'
  BY <1>1 DEF AuthOnLine, Auth
<1>3. DOMAIN panel = {"line1", "line2", "line3", "gui", "red", "green", "college"}
  BY DEF Typed, PanelReset
<1>4. CASE panel' = panel
  BY <1>1, <1>2, <1>4 DEF Typed, AuthNeedsUserId
<1>5. CASE At(t, "show") /\ panel' = Apply(Command(t).changes, panel)
  <2>. DEFINE changes == Command(t).changes
              prog    == Top(t).prog
  <2>1. Shown(prog, changes)
    BY <1>5, CommandKnown DEF Known, At
  <2>2. /\ DOMAIN panel' = DOMAIN panel
        /\ \A part \in DOMAIN panel :
             panel'[part] = IF part \in DOMAIN changes THEN changes[part] ELSE panel[part]
    BY <1>5 DEF Apply
  <2>3. prog \in {"UserValid", "PassInvalid", "PassValid"} => idGiven \/ buttonAsId
    <3>1. CASE t = "main"
      <4>1. prog \in BootPrograms
        BY <1>5, <3>1, BootCommand DEF At
      <4>. QED  BY <4>1 DEF BootPrograms
    <3>2. CASE t = "uart"
      <4>1. Top("uart") = stack["uart"][Len(stack["uart"])]
            /\ Len(stack["uart"]) \in 1 .. Len(stack["uart"])
        BY <1>5, <3>2, StackTyped DEF At, Threads
      <4>. QED  BY <3>2, <4>1 DEF AuthOnStack, Auth
    <3>. QED  BY <3>1, <3>2 DEF Threads
  <2>4. /\ panel'.gui = IF "gui" \in DOMAIN changes THEN changes.gui ELSE panel.gui
        /\ panel'.red = IF "red" \in DOMAIN changes THEN changes.red ELSE panel.red
        /\ panel'.green = IF "green" \in DOMAIN changes THEN changes.green ELSE panel.green
        /\ panel'.line1 = IF "line1" \in DOMAIN changes THEN changes.line1 ELSE panel.line1
        /\ panel'.college = IF "college" \in DOMAIN changes THEN changes.college ELSE panel.college
    BY <1>3, <2>2
  <2>5. /\ panel'.gui \in Windows /\ {panel'.red, panel'.green} \subseteq {"off", "on"}
        /\ panel'.college \in BOOLEAN
    BY <2>1, <2>4 DEF Shown, Typed
  <2>6. AuthNeedsUserId'
    <3>1. panel'.gui = "PASSWORD_INPUT"
            => panel.gui = "PASSWORD_INPUT" \/ prog \in {"UserValid", "PassInvalid"}
      BY <2>1, <2>4 DEF Shown
    <3>2. panel'.line1 = "Authentication Successful"
            => panel.line1 = "Authentication Successful" \/ prog = "PassValid"
      BY <2>1, <2>4 DEF Shown
    <3>. QED  BY <1>1, <2>3, <3>1, <3>2 DEF AuthNeedsUserId
  <2>. QED  BY <1>2, <1>3, <2>2, <2>5, <2>6 DEF PanelReset
<1>6. CASE panel' = PanelReset
  BY <1>2, <1>6 DEF PanelReset, Windows, AuthNeedsUserId
<1>7. CASE panel' = [panel EXCEPT !.college = @ \/ files["config"].state = "whole"]
  <2>1. /\ DOMAIN panel' = DOMAIN panel /\ panel'.gui = panel.gui /\ panel'.red = panel.red
        /\ panel'.green = panel.green /\ panel'.line1 = panel.line1
    BY <1>3, <1>7
  <2>2. panel'.college \in BOOLEAN
    BY <1>3, <1>7
  <2>. QED  BY <1>1, <1>2, <2>1, <2>2 DEF Typed, AuthNeedsUserId
<1>. QED  BY <1>4, <1>5, <1>6, <1>7, PanelFrame

-----------------------------------------------------------------------------
(***************************************************************************)
(* The downloads.                                                          *)
(***************************************************************************)
LEMMA BlamedStays ==
    ASSUME NEW t \in Threads, Step(t) \/ Touch(t), NEW file, Blamed(file)
    PROVE  Blamed(file)'
BY SpoiledFrame DEF Blame, Blamed

\* A thread that blames something blames it on what its program fetches.
LEMMA BlameIs ==
    ASSUME NEW t \in Threads, Blame(FileOf(Top(t).prog)),
           NEW file \in Downloads, Top(t).prog = Fetcher(file)
    PROVE  Blamed(file)'
<1>1. FileOf(Top(t).prog) = file
  BY DEF FileOf, Fetcher, Downloads
<1>. QED  BY <1>1 DEF Blame, Blamed

\* The program a thread fetches a download with.
LEMMA FetchersAt ==
    ASSUME Typed, NEW t \in Threads, At(t, "open") \/ At(t, "close"), NEW file \in Downloads
    PROVE  /\ Known(Top(t).prog, Top(t).at, Command(t))
           /\ (Command(t).file = file) <=> (Top(t).prog = Fetcher(file))
           /\ Command(t).file = file => Top(t).at = IF At(t, "open") THEN 5 ELSE 6
           /\ Command(t).file \in Files
<1>1. Known(Top(t).prog, Top(t).at, Command(t)) /\ Command(t).op \in {"open", "close"}
      /\ (At(t, "open") <=> Command(t).op = "open")
  BY CommandKnown DEF At
<1>2. /\ Top(t).prog \in {"configname", "MD_Download", "SD_Download"}
      /\ Command(t).file = FileOf(Top(t).prog)
  BY <1>1 DEF Known
<1>3. (Command(t).file = file) <=> (Top(t).prog = Fetcher(file))
  BY <1>2 DEF FileOf, Fetcher, Downloads
<1>4. Command(t).file = file => Top(t).at = IF At(t, "open") THEN 5 ELSE 6
  BY <1>1, <1>3 DEF Known, Fetcher
<1>5. Command(t).file \in Files
  BY <1>2 DEF FileOf, Files
<1>. QED  BY <1>1, <1>3, <1>4, <1>5

\* Opening a download makes the thread a writer of that file and of no other.
LEMMA OpenDoes ==
    ASSUME Typed, NEW t \in Threads, OpenFile(t), NEW file \in Downloads
    PROVE  IF Command(t).file = file
           THEN /\ files'[file].writers = files[file].writers \cup {t}
                /\ files'[file].done = {} \/ files'[file].done = files[file].done
           ELSE files'[file] = files[file]
<1>1. files \in [Files -> [state : {"absent", "bad", "whole"}, writers : SUBSET Threads,
                         done : SUBSET BOOLEAN]]
  BY DEF Typed
<1>2. file \in Files
  BY DEF Downloads, Files
<1>. QED  BY <1>1, <1>2 DEF OpenFile

\* Closing ends the writing, and says whether this fetch was good.
LEMMA CloseDoes ==
    ASSUME Typed, NEW t \in Threads, CloseFile(t), NEW file \in Downloads
    PROVE  LET good == net /\ Top(t).crc
           IN  /\ ~net /\ Command(t).file = file => Blame(file)
               /\ IF Command(t).file = file /\ t \in files[file].writers
                  THEN /\ files'[file].writers = files[file].writers \ {t}
                       /\ files'[file].done \subseteq files[file].done \cup {good}
                       /\ files'[file].writers = {} /\ files'[file].state # "whole"
                            => FALSE \in files[file].done \cup {good}
                  ELSE files'[file] = files[file]
<1>1. files \in [Files -> [state : {"absent", "bad", "whole"}, writers : SUBSET Threads,
                         done : SUBSET BOOLEAN]]
  BY DEF Typed
<1>2. file \in Files
  BY DEF Downloads, Files
<1>3. At(t, "close")
  BY DEF CloseFile
<1>4. ~net /\ Command(t).file = file => Blame(file)
  BY DEF CloseFile, Downloads
<1>. DEFINE good == net /\ Top(t).crc
            left == files[file].writers \ {t}
            done == files[file].done \cup {good}
<1>5. CASE Command(t).file = file /\ t \in files[file].writers
  <2>1. PICK ok \in IF left = {} THEN done ELSE {FALSE} :
          files' = [files EXCEPT ![file] =
                      [state |-> IF ok THEN "whole" ELSE "bad", writers |-> left,
                       done |-> IF left = {} THEN {} ELSE done]]
    BY <1>5 DEF CloseFile
  <2>2. files'[file] = [state |-> IF ok THEN "whole" ELSE "bad", writers |-> left,
                        done |-> IF left = {} THEN {} ELSE done]
    BY <1>1, <1>2, <2>1
  <2>3. files'[file].writers = left /\ files'[file].done \subseteq done
    BY <2>2
  <2>4. left = {} /\ files'[file].state # "whole" => FALSE \in done
    <3>. SUFFICES ASSUME left = {}, files'[file].state # "whole"
                  PROVE  FALSE \in done
      BY <2>3
    <3>1. ok \in done
      BY <2>1
    <3>2. files[file].done \subseteq BOOLEAN /\ net \in BOOLEAN /\ Top(t).crc \in BOOLEAN
      BY <1>1, <1>2, <1>3, CommandKnown DEF At, Typed, Activation
    <3>3. ok \in BOOLEAN
      <4>1. good \in BOOLEAN
        OBVIOUS
      <4>2. done \subseteq BOOLEAN
        BY <3>2, <4>1 DEF good
      <4>. HIDE DEF good, done
      <4>. QED  BY <3>1, <4>2
    <3>4. ~ok
      <4>1. files'[file].state = IF ok THEN "whole" ELSE "bad"
        BY <2>2
      <4>. QED  BY <4>1
    <3>5. ok = FALSE
      BY <3>3, <3>4
    <3>. HIDE DEF done
    <3>. QED  BY <3>1, <3>5
  <2>. QED  BY <1>4, <1>5, <2>3, <2>4
<1>6. CASE ~(Command(t).file = file /\ t \in files[file].writers)
  <2>1. Command(t).file \in Files
    BY <1>3, FetchersAt
  <2>2. CASE t \in files[Command(t).file].writers
    <3>1. Command(t).file # file
      BY <1>6, <2>2
    <3>2. files'[file] = files[file]
      BY <1>1, <1>2, <2>1, <2>2, <3>1 DEF CloseFile
    <3>. QED  BY <1>4, <1>6, <3>2
  <2>3. CASE t \notin files[Command(t).file].writers
    BY <1>4, <1>6, <2>3 DEF CloseFile
  <2>. QED  BY <2>2, <2>3
<1>. QED  BY <1>5, <1>6

\* What became of a download in a step, if anything did.
LEMMA DownloadAfter ==
    ASSUME Typed, BootStack, EventStack, NEW t \in Threads, Step(t) \/ Touch(t),
           NEW file \in Downloads
    PROVE  \/ files'[file] = files[file]
           \/ At(t, "open") /\ OpenFile(t) /\ Top(t).prog = Fetcher(file) /\ Top(t).at = 5
           \/ /\ At(t, "close") /\ CloseFile(t) /\ Top(t).prog = Fetcher(file) /\ Top(t).at = 6
              /\ t \in files[file].writers
           \/ /\ t = "main" /\ Top(t).prog = "configname"
              /\ files'[file].writers = {} /\ files'[file].done = {}
<1>1. CASE files' = files
  BY <1>1
<1>2. CASE At(t, "open") /\ OpenFile(t)
  BY <1>2, OpenDoes, FetchersAt
<1>3. CASE At(t, "close") /\ CloseFile(t)
  <2>1. ~At(t, "open")
    BY <1>3 DEF At
  <2>. QED  BY <1>3, <2>1, CloseDoes, FetchersAt
<1>4. CASE At(t, "rm_downloads") /\ files' = [other \in Files |-> File("absent")]
  <2>1. t = "main"
    BY <1>4, EventNever DEF Threads
  <2>2. Top(t).prog = "configname"
    BY <1>4, CommandKnown DEF Known, At
  <2>3. files'[file] = File("absent")
    BY <1>4 DEF Files, Downloads
  <2>. QED  BY <2>1, <2>2, <2>3 DEF File
<1>. QED  BY <1>1, <1>2, <1>3, <1>4, FilesFrame

\* The thread that does not step keeps its stack.
LEMMA OthersStay ==
    ASSUME Typed, NEW t \in Threads, Step(t) \/ Touch(t), NEW u \in Threads, u # t
    PROVE  stack'[u] = stack[u]
<1>1. Running(t) /\ ((~AtEnd(t) /\ Moved(t)) \/ Ended(t))
  BY StepMoves
<1>2. (\E a \in Activation, progs \in Seq(ProgramNames) : Grown(t, a, progs)) \/ Shrunk(t)
  BY <1>1, MovedGrows, DiesShrinks DEF Ended
<1>. QED  BY <1>2 DEF Grown, Shrunk

\* An opening or closing takes the top one place on.
LEMMA FileStep ==
    ASSUME Typed, NEW t \in Threads, Step(t) \/ Touch(t), At(t, "open") \/ At(t, "close")
    PROVE  Running(t)' /\ Top(t)'.prog = Top(t).prog /\ Top(t)'.at = Top(t).at + 1
<1>1. Running(t) /\ ~AtEnd(t) /\ Command(t).op \in {"open", "close"} /\ Moved(t)
  BY StepMoves DEF Ended, At
<1>2. PICK a \in Activation, progs \in Seq(ProgramNames) : Grown(t, a, progs) /\ Moves(t, a, progs)
  BY <1>1, MovedGrows
<1>3. a.prog = Top(t).prog /\ a.at = Top(t).at + 1 /\ progs = <<>>
  BY <1>1, <1>2 DEF Moves
<1>4. Len(stack[t]) \in Nat /\ Len(stack[t]) >= 1
  BY <1>1, StackTyped
<1>5. Len(stack'[t]) = Len(stack[t]) /\ stack'[t][Len(stack[t])] = a
  BY <1>2, <1>3, <1>4 DEF Grown
<1>6. stack'[t] # <<>>
  BY <1>4, <1>5
<1>. QED  BY <1>3, <1>5, <1>6 DEF Running, Top

\* main notes a download when its program has returned.
LEMMA NotedStep ==
    ASSUME Typed, BootStack, EventStack, NotedThen, NEW t \in Threads, Step(t) \/ Touch(t)
    PROVE  NotedThen'
<1>1. Len(boot) \in Nat /\ Len(boot) >= 1 /\ boot[1].at \in Nat /\ 1 \in 1 .. Len(boot)
  <2>1. boot \in Seq(Activation) /\ 1 \in 1 .. Len(boot) /\ Len(boot) \in Nat
    BY BootBelow
  <2>2. boot[1] \in Activation
    BY <2>1
  <2>. QED  BY <2>1, <2>2 DEF Activation
<1>2. boot'[1].at \in Nat /\ boot'[1].at >= boot[1].at
  <2>1. CASE boot' = boot
    BY <1>1, <2>1
  <2>2. ASSUME NEW a \in Activation, NEW progs \in Seq(ProgramNames), BootGrown(a, progs)
        PROVE  boot'[1].at \in Nat /\ boot'[1].at >= boot[1].at
    <3>1. Top("main") = boot[Len(boot)] /\ a.at \in {Top("main").at, Top("main").at + 1}
      BY <2>2, TopMoves
    <3>2. PICK n \in Nat : n = Len(boot) /\ n >= 1
      BY <1>1
    <3>3. CASE n = 1
      <4>1. boot'[1] = a
        BY <2>2, <3>2, <3>3 DEF BootGrown
      <4>. QED  BY <1>1, <3>1, <3>2, <3>3, <4>1
    <3>4. CASE n # 1
      <4>1. 1 \in 1 .. n - 1
        BY <3>2, <3>4
      <4>2. boot'[1] = boot[1]
        BY <2>2, <3>2, <4>1 DEF BootGrown
      <4>. QED  BY <1>1, <4>2
    <3>. QED  BY <3>3, <3>4
  <2>3. CASE BootShrunk
    BY <1>1, <2>3 DEF BootShrunk
  <2>. QED  BY <2>1, <2>2, <2>3, BootAfter
<1>3. CASE globals' = globals
  BY <1>1, <1>2, <1>3 DEF NotedThen, Downloads, Place
<1>4. CASE At(t, "set") /\ globals' = globals \cup {Command(t).global}
  <2>1. t = "main"
    BY <1>4, EventNever DEF Threads
  <2>2. /\ Known(Top("main").prog, Top("main").at, Command("main")) /\ Command("main").op = "set"
        /\ ~AtEnd("main") /\ Top("main") = boot[Len(boot)]
    BY <1>4, <2>1, BootCommand DEF At
  <2>3. Top("main").prog = "main"
    BY <2>2 DEF Known
  <2>4. Len(boot) = 1
    <3>1. Len(boot) \in 1 .. Len(boot)
      BY <1>1
    <3>. QED  BY <2>2, <2>3, <3>1, BootBelow
  <2>5. PICK a \in Activation, progs \in Seq(ProgramNames) : BootGrown(a, progs)
    <3>1. boot' # boot
      <4>1. ~AtEnd("main") /\ Moved("main") /\ Running("main")
        BY <2>1, <2>2, StepMoves DEF Ended, At
      <4>2. PICK a \in Activation, progs \in Seq(ProgramNames) :
              Grown("main", a, progs) /\ Moves("main", a, progs)
        BY <2>1, <4>1, MovedGrows
      <4>3. a.at = boot[1].at + 1 /\ boot'[1] = a
        BY <2>2, <2>4, <4>2 DEF Moves, Grown, boot
      <4>. QED  BY <1>1, <4>3
    <3>2. ~BootShrunk
      BY <2>4 DEF BootShrunk
    <3>. QED  BY <2>1, <3>1, <3>2, BootAfter
  <2>6. boot'[1].at = Top("main").at + 1
    <3>1. a.at = Top("main").at + 1
      BY <2>2, <2>5 DEF BootGrown, Moves
    <3>. QED  BY <2>4, <2>5, <3>1 DEF BootGrown
  <2>7. ASSUME NEW file \in Downloads, Noted(file) \in globals'
        PROVE  boot'[1].at > Place(file)
    <3>1. CASE Noted(file) \in globals
      BY <1>1, <1>2, <2>7, <3>1 DEF NotedThen, Downloads, Place
    <3>2. CASE Noted(file) = Command("main").global
      <4>1. Top("main").at = Place(file)
        BY <2>2, <3>2 DEF Known, Noted, Place
      <4>. QED  BY <2>6, <4>1 DEF Place
    <3>. QED  BY <1>4, <2>1, <2>7, <3>1, <3>2
  <2>. QED  BY <2>7 DEF NotedThen
<1>. QED  BY <1>3, <1>4, GlobalsFrame

\* Who writes a download is on his way from its opening to its closing.
LEMMA WritersAtStep ==
    ASSUME Typed, BootStack, EventStack, WritersAt, NEW t \in Threads, Step(t) \/ Touch(t)
    PROVE  WritersAt'
<1>. SUFFICES ASSUME NEW file \in Downloads, NEW u \in files'[file].writers
              PROVE  Running(u)' /\ Top(u)'.prog = Fetcher(file) /\ Top(u)'.at = 6
  BY DEF WritersAt
<1>1. files \in [Files -> [state : {"absent", "bad", "whole"}, writers : SUBSET Threads,
                         done : SUBSET BOOLEAN]]
  BY DEF Typed
<1>2. files[file].writers \subseteq Threads
  BY <1>1 DEF Files, Downloads
<1>3. \/ u \in files[file].writers /\ u # t
      \/ u = t /\ At(t, "open") /\ Top(t).prog = Fetcher(file) /\ Top(t).at = 5
  <2>1. CASE files'[file] = files[file]
    <3>1. u \in files[file].writers
      BY <2>1
    <3>2. ASSUME u = t
          PROVE  FALSE
      <4>1. Running(t) /\ Top(t).prog = Fetcher(file) /\ Top(t).at = 6
        BY <3>1, <3>2 DEF WritersAt
      <4>2. ~AtEnd(t)
        <5>1. Len(Script[Top(t).prog]) = 7
          BY <4>1, Lengths DEF Fetcher
        <5>. QED  BY <4>1, <5>1 DEF AtEnd
      <4>3. At(t, "close")
        BY <4>1, <4>2, CommandKnown DEF At, Known, Fetcher
      <4>4. CloseFile(t)
        BY <4>3, FilesFrame
      <4>5. Command(t).file = file
        BY <4>1, <4>3, FetchersAt
      <4>6. files'[file].writers = files[file].writers \ {t}
        BY <3>1, <3>2, <4>4, <4>5, CloseDoes
      <4>. QED  BY <3>2, <4>6
    <3>. QED  BY <3>1, <3>2
  <2>2. CASE At(t, "open") /\ OpenFile(t) /\ Top(t).prog = Fetcher(file) /\ Top(t).at = 5
    <3>1. Command(t).file = file
      BY <2>2, FetchersAt
    <3>2. files'[file].writers = files[file].writers \cup {t}
      BY <2>2, <3>1, OpenDoes
    <3>. QED  BY <2>2, <3>2
  <2>3. CASE At(t, "close") /\ CloseFile(t) /\ Top(t).prog = Fetcher(file)
                /\ t \in files[file].writers
    <3>1. Command(t).file = file
      BY <2>3, FetchersAt
    <3>2. files'[file].writers = files[file].writers \ {t}
      BY <2>3, <3>1, CloseDoes
    <3>. QED  BY <3>2
  <2>4. CASE files'[file].writers = {}
    BY <2>4
  <2>. QED  BY <2>1, <2>2, <2>3, <2>4, DownloadAfter
<1>4. CASE u \in files[file].writers /\ u # t
  <2>1. stack'[u] = stack[u]
    BY <1>2, <1>4, OthersStay
  <2>. QED  BY <1>4, <2>1 DEF WritersAt, Running, Top
<1>5. CASE u = t /\ At(t, "open") /\ Top(t).prog = Fetcher(file) /\ Top(t).at = 5
  BY <1>5, FileStep
<1>. QED  BY <1>3, <1>4, <1>5

\* main's program between the opening and the closing of a download writes it.
LEMMA MainWritesStep ==
    ASSUME Typed, BootStack, EventStack, MainWrites, NEW t \in Threads, Step(t) \/ Touch(t)
    PROVE  MainWrites'
<1>. SUFFICES ASSUME NEW file \in Downloads,
                     Top("main")'.prog = Fetcher(file), Top("main")'.at = 6
              PROVE  "main" \in files'[file].writers
  BY DEF MainWrites
<1>1. CASE t = "uart" /\ boot' = boot
  <2>1. "main" \in files[file].writers
    BY <1>1 DEF MainWrites, Top, boot
  <2>2. CASE files'[file] = files[file]
    BY <2>1, <2>2
  <2>3. CASE At(t, "open") /\ OpenFile(t) /\ Top(t).prog = Fetcher(file)
    <3>1. Command(t).file = file
      BY <2>3, FetchersAt
    <3>. QED  BY <2>1, <2>3, <3>1, OpenDoes
  <2>4. CASE At(t, "close") /\ CloseFile(t) /\ Top(t).prog = Fetcher(file)
                /\ t \in files[file].writers
    <3>1. Command(t).file = file
      BY <2>4, FetchersAt
    <3>2. files'[file].writers = files[file].writers \ {t}
      BY <2>4, <3>1, CloseDoes
    <3>. QED  BY <1>1, <2>1, <3>2
  <2>. QED  BY <1>1, <2>2, <2>3, <2>4, DownloadAfter
<1>2. ASSUME t = "main", NEW a \in Activation, NEW progs \in Seq(ProgramNames), BootGrown(a, progs)
      PROVE  "main" \in files'[file].writers
  <2>. DEFINE top == Top("main")
              op  == Command("main").op
  <2>1. /\ top = boot[Len(boot)] /\ Len(boot) \in Nat /\ Len(boot) >= 1 /\ top.at \in Nat
        /\ Known(top.prog, top.at, Command("main")) /\ a.prog = top.prog /\ At("main", op)
        /\ a.at = top.at + 1 \/ (a.at = top.at /\ op \in {"ping", "ask_instance"})
        /\ progs = <<>> => a.at = top.at + 1
    BY <1>2, TopMoves, BootBelow
  <2>2. Len(boot') \in 1 .. Len(boot') /\ Top("main")' = boot'[Len(boot')]
    BY <1>2, <2>1 DEF BootGrown, Top, boot
  <2>3. boot'[Len(boot')] = a /\ progs = <<>>
    <3>1. CASE boot'[Len(boot')].at = 1
      BY <2>2, <3>1
    <3>2. CASE Len(boot') \in 1 .. Len(boot) - 1
      BY <1>2, <2>1, <3>2 DEF BootGrown
    <3>. QED  BY <1>2, <2>2, <3>1, <3>2, GrownPlaces
  <2>4. top.prog = Fetcher(file) /\ top.at = 5
    BY <2>1, <2>2, <2>3
  <2>5. At("main", "open")
    BY <2>1, <2>4 DEF Known, Fetcher
  <2>6. OpenFile("main") /\ Command("main").file = file
    BY <1>2, <2>4, <2>5, FilesFrame, FetchersAt
  <2>. QED  BY <1>2, <2>6, OpenDoes
<1>3. ASSUME BootShrunk
      PROVE  FALSE
  <2>1. Len(boot) \in Nat /\ Len(boot) >= 2 /\ Len(boot') = Len(boot) - 1
    BY <1>3, BootBelow DEF BootShrunk
  <2>2. Top("main")' = boot[Len(boot) - 1]
    BY <1>3, <2>1 DEF BootShrunk, Top, boot
  <2>3. Calls(boot[Len(boot) - 1], Top("main").prog)
    BY <2>1, TopCalled
  <2>. QED  BY <2>2, <2>3 DEF Calls, Fetcher
<1>. QED  BY <1>1, <1>2, <1>3, BootAfter

\* A program that goes on without the checksum of its file has blamed something.
LEMMA NoCrcBlamedStep ==
    ASSUME Typed, NoCrcBlamed, NEW t \in Threads, Step(t) \/ Touch(t)
    PROVE  NoCrcBlamed'
<1>. SUFFICES ASSUME NEW u \in Threads, NEW i \in 1 .. Len(stack'[u]), NEW file \in Downloads,
                     stack'[u][i].prog = Fetcher(file), stack'[u][i].at >= 5, ~stack'[u][i].crc
              PROVE  Blamed(file)'
  BY DEF NoCrcBlamed
<1>1. CASE i \in 1 .. Len(stack[u]) /\ stack'[u][i] = stack[u][i]
  BY <1>1, BlamedStays DEF NoCrcBlamed
<1>2. CASE u # t
  BY <1>1, <1>2, OthersStay
<1>3. ASSUME u = t, ~AtEnd(t), NEW a \in Activation, NEW progs \in Seq(ProgramNames),
             Grown(t, a, progs), Moves(t, a, progs), Running(t)
      PROVE  Blamed(file)'
  <2>. DEFINE top == Top(t)
              op  == Command(t).op
              n   == Len(stack[t])
  <2>1. n \in Nat /\ n >= 1 /\ top = stack[t][n] /\ top.at \in Nat /\ Len(progs) \in Nat
        /\ Known(top.prog, top.at, Command(t)) /\ Len(stack'[t]) = n + Len(progs)
    BY <1>3, StackTyped, CommandKnown DEF Grown
  <2>2. CASE i < n
    BY <1>1, <1>3, <2>1, <2>2 DEF Grown
  <2>3. CASE i = n
    <3>1. stack'[u][i] = a /\ a.prog = top.prog
      BY <1>3, <2>3 DEF Grown, Moves
    <3>2. CASE op = "ask_crc"
      <4>1. Blame(FileOf(top.prog))
        BY <1>3, <3>1, <3>2 DEF Moves
      <4>. QED  BY <3>1, <4>1, BlameIs
    <3>3. CASE op # "ask_crc"
      <4>1. op # "ask_config_crc" /\ top.at # 4
        BY <2>1, <3>1, <3>3 DEF Known, Fetcher
      <4>2. a.crc = top.crc /\ (a.at = top.at + 1 \/ a.at = top.at)
        BY <1>3, <3>3, <4>1 DEF Moves
      <4>3. top.at >= 5 /\ ~top.crc /\ top.prog = Fetcher(file)
        BY <2>1, <3>1, <4>1, <4>2
      <4>4. Blamed(file)
        BY <2>1, <4>3 DEF NoCrcBlamed
      <4>. QED  BY <4>4, BlamedStays
    <3>. QED  BY <3>2, <3>3
  <2>4. CASE i > n
    <3>. DEFINE k == i - n
    <3>1. k \in 1 .. Len(progs) /\ i = n + k
      BY <1>3, <2>1, <2>4
    <3>2. stack'[u][i] = Start(progs[k])
      BY <1>3, <3>1 DEF Grown
    <3>. QED  BY <3>2 DEF Start
  <2>. QED  BY <2>1, <2>2, <2>3, <2>4
<1>4. CASE u = t /\ Shrunk(t) /\ Running(t)
  BY <1>1, <1>4, StackTyped DEF Shrunk
<1>5. Running(t) /\ ((~AtEnd(t) /\ Moved(t)) \/ (Ended(t) /\ Shrunk(t)))
  BY StepMoves, DiesShrinks DEF Ended
<1>. QED  BY <1>2, <1>3, <1>4, <1>5, MovedGrows

\* The closing of a download that leaves it broken has something to blame.
LEMMA CloseBlames ==
    ASSUME Typed, NoCrcBlamed, NEW t \in Threads, Step(t) \/ Touch(t), At(t, "close"),
           NEW file \in Downloads, Top(t).prog = Fetcher(file), ~(net /\ Top(t).crc)
    PROVE  Blamed(file)'
<1>1. CloseFile(t)
  BY FilesFrame
<1>2. CASE ~net
  <2>1. Command(t).file = file
    BY FetchersAt
  <2>. QED  BY <1>1, <1>2, <2>1, CloseDoes DEF Blame, Blamed
<1>3. CASE ~Top(t).crc
  <2>1. Top(t) = stack[t][Len(stack[t])] /\ Len(stack[t]) \in 1 .. Len(stack[t])
    BY StackTyped DEF At
  <2>2. Top(t).at = 6
    <3>1. Known(Top(t).prog, Top(t).at, Command(t)) /\ Command(t).op = "close"
      BY CommandKnown DEF At
    <3>. QED  BY <3>1 DEF Known, Fetcher
  <2>3. Blamed(file)
    BY <1>3, <2>1, <2>2 DEF NoCrcBlamed
  <2>. QED  BY <2>3, BlamedStays
<1>. QED  BY <1>2, <1>3

\* A download that failed is in what its writers that are done did.
LEMMA DoneBlamedStep ==
    ASSUME Typed, BootStack, EventStack, NoCrcBlamed, DoneBlamed,
           NEW t \in Threads, Step(t) \/ Touch(t)
    PROVE  DoneBlamed'
<1>. SUFFICES ASSUME NEW file \in Downloads, FALSE \in files'[file].done
              PROVE  Blamed(file)'
  BY DEF DoneBlamed
<1>1. CASE FALSE \in files[file].done
  BY <1>1, BlamedStays DEF DoneBlamed
<1>2. CASE FALSE \notin files[file].done
  <2>1. ~(files'[file] = files[file])
    BY <1>2
  <2>2. ~(At(t, "open") /\ OpenFile(t) /\ Top(t).prog = Fetcher(file))
    <3>. SUFFICES ASSUME At(t, "open"), OpenFile(t), Top(t).prog = Fetcher(file) PROVE FALSE
      OBVIOUS
    <3>1. Command(t).file = file
      BY FetchersAt
    <3>2. files'[file].done = {} \/ files'[file].done = files[file].done
      BY <3>1, OpenDoes
    <3>. QED  BY <1>2, <3>2
  <2>3. CASE At(t, "close") /\ CloseFile(t) /\ Top(t).prog = Fetcher(file)
                /\ t \in files[file].writers
    <3>1. Command(t).file = file
      BY <2>3, FetchersAt
    <3>2. files'[file].done \subseteq files[file].done \cup {net /\ Top(t).crc}
      BY <2>3, <3>1, CloseDoes
    <3>3. ~(net /\ Top(t).crc)
      BY <1>2, <3>2
    <3>. QED  BY <2>3, <3>3, CloseBlames
  <2>. QED  BY <2>1, <2>2, <2>3, DownloadAfter
<1>. QED  BY <1>1, <1>2

\* A download nobody writes is broken already, or a closing broke it and there
\* is something to blame.
Broken(file) == files[file].writers = {} /\ files[file].state # "whole"

\* A download that breaks, other than by configname, has a cause.
LEMMA BreaksBlamed ==
    ASSUME Typed, BootStack, EventStack, NoCrcBlamed, DoneBlamed,
           NEW t \in Threads, Step(t) \/ Touch(t), NEW file \in Downloads,
           Broken(file)', ~(t = "main" /\ Top(t).prog = "configname")
    PROVE  Blamed(file)' \/ (Broken(file) /\ files'[file] = files[file])
<1>1. CASE files'[file] = files[file]
  BY <1>1 DEF Broken
<1>2. CASE At(t, "open") /\ OpenFile(t) /\ Top(t).prog = Fetcher(file)
  <2>1. Command(t).file = file
    BY <1>2, FetchersAt
  <2>2. t \in files'[file].writers
    BY <1>2, <2>1, OpenDoes
  <2>. QED  BY <2>2 DEF Broken
<1>3. CASE At(t, "close") /\ CloseFile(t) /\ Top(t).prog = Fetcher(file)
              /\ t \in files[file].writers
  <2>1. Command(t).file = file
    BY <1>3, FetchersAt
  <2>2. FALSE \in files[file].done \cup {net /\ Top(t).crc}
    BY <1>3, <2>1, CloseDoes DEF Broken
  <2>3. CASE FALSE \in files[file].done
    BY <2>3, BlamedStays DEF DoneBlamed
  <2>4. CASE ~(net /\ Top(t).crc)
    BY <1>3, <2>4, CloseBlames
  <2>5. FALSE \in files[file].done \/ ~(net /\ Top(t).crc)
    BY <2>2
  <2>. QED  BY <2>3, <2>4, <2>5
<1>. QED  BY <1>1, <1>2, <1>3, DownloadAfter

\* FetchedThen at the program that runs.
LEMMA FetchedTop ==
    ASSUME Typed, BootStack, FetchedThen, NEW file \in Downloads,
           PastFetch(file, Top("main"), TRUE), Broken(file)
    PROVE  Blamed(file)
<1>1. Top("main") = boot[Len(boot)] /\ Len(boot) \in 1 .. Len(boot)
  BY BootBelow DEF Top, boot
<1>2. PastFetch(file, boot[Len(boot)], Len(boot) = Len(boot))
  BY <1>1 DEF PastFetch
<1>. QED  BY <1>1, <1>2 DEF FetchedThen, Broken

\* FetchedThen at an activation that waits for what it called.
LEMMA FetchedBelow ==
    ASSUME FetchedThen, NEW file \in Downloads, NEW i \in 1 .. Len(boot),
           PastFetch(file, boot[i], FALSE), Broken(file)
    PROVE  Blamed(file)
<1>1. PastFetch(file, boot[i], i = Len(boot))
  BY DEF PastFetch
<1>. QED  BY <1>1 DEF FetchedThen, Broken

\* When main has a download behind it, it is whole or there is something to
\* blame.
LEMMA FetchedThenStep ==
    ASSUME Typed, BootStack, EventStack, MainWrites, NoCrcBlamed, DoneBlamed, FetchedThen,
           NEW t \in Threads, Step(t) \/ Touch(t)
    PROVE  FetchedThen'
<1>. SUFFICES ASSUME NEW file \in Downloads, NEW i \in 1 .. Len(boot'),
                     PastFetch(file, boot'[i], i = Len(boot')), Broken(file)', ~Blamed(file)'
              PROVE  FALSE
  BY DEF FetchedThen, Broken
<1>. DEFINE top == Top("main")
            op  == Command("main").op
<1>1. ~Blamed(file)
  BY BlamedStays
<1>2. CASE t = "uart" /\ boot' = boot
  <2>1. Broken(file)
    BY <1>2, BreaksBlamed
  <2>. QED  BY <1>1, <1>2, <2>1 DEF FetchedThen, Broken
<1>3. ASSUME t = "main", NEW a \in Activation, NEW progs \in Seq(ProgramNames), BootGrown(a, progs)
      PROVE  FALSE
  <2>1. /\ top = boot[Len(boot)] /\ Len(boot) \in Nat /\ Len(boot) >= 1 /\ top.at \in Nat
        /\ Known(top.prog, top.at, Command("main")) /\ a.prog = top.prog /\ At("main", op)
        /\ a.at = top.at + 1 \/ (a.at = top.at /\ op \in {"ping", "ask_instance"})
        /\ progs = <<>> => op # "run" /\ a.at = top.at + 1
    BY <1>3, TopMoves, BootBelow
  <2>2. CASE i \in 1 .. Len(boot) - 1 /\ boot'[i] = boot[i] /\ i # Len(boot')
    <3>1. PastFetch(file, boot[i], FALSE) /\ i \in 1 .. Len(boot)
      BY <2>1, <2>2 DEF PastFetch
    <3>2. top.prog # "configname"
      <4>. SUFFICES ASSUME top.prog = "configname" PROVE FALSE
        OBVIOUS
      <4>1. /\ Len(boot) = 3 /\ boot[1].prog = "main" /\ boot[1].at = 8
            /\ boot[2].prog = "wanconnect" /\ boot[2].at = 5
        BY ConfigAlone
      <4>2. i = 1 \/ i = 2
        BY <2>2, <4>1
      <4>. QED  BY <3>1, <4>1, <4>2 DEF PastFetch, Fetcher, Place
    <3>3. Broken(file)
      BY <1>3, <3>2, BreaksBlamed
    <3>. QED  BY <1>1, <3>1, <3>3, FetchedBelow
  <2>3. CASE boot'[i] = a /\ (i = Len(boot') => progs = <<>>)
    <3>1. PastFetch(file, a, progs = <<>>)
      BY <2>3 DEF PastFetch
    <3>2. top.prog \in {"main", Fetcher(file)}
      BY <2>1, <3>1 DEF PastFetch
    <3>3. Broken(file) /\ files'[file] = files[file]
      BY <1>3, <3>2, BreaksBlamed DEF Fetcher
    <3>4. ~PastFetch(file, top, TRUE)
      BY <1>1, <3>3, FetchedTop
    <3>5. top.prog = Fetcher(file) /\ top.at = 6
      <4>1. CASE top.prog = "main"
        <5>1. a.at = top.at + 1
          BY <2>1, <4>1 DEF Known
        <5>2. top.at = Place(file) - 1 /\ progs = <<>>
          BY <2>1, <3>1, <3>4, <4>1, <5>1 DEF PastFetch, Place, Fetcher
        <5>. QED  BY <2>1, <4>1, <5>2 DEF Known, Place
      <4>2. CASE top.prog = Fetcher(file)
        BY <2>1, <3>1, <3>4, <4>2 DEF PastFetch, Fetcher
      <4>. QED  BY <3>2, <4>1, <4>2
    <3>6. "main" \in files[file].writers
      BY <3>5 DEF MainWrites
    <3>. QED  BY <3>3, <3>6 DEF Broken
  <2>4. CASE boot'[i].at = 1
    BY <2>4 DEF PastFetch, Place
  <2>. QED  BY <1>3, <2>2, <2>3, <2>4, GrownPlaces
<1>4. ASSUME t = "main", BootShrunk
      PROVE  FALSE
  <2>1. Len(boot) \in Nat /\ Len(boot) >= 2 /\ Len(boot') = Len(boot) - 1
    BY <1>4, BootBelow DEF BootShrunk
  <2>2. Calls(boot[Len(boot) - 1], top.prog) /\ top.at \in Nat
    BY <2>1, TopCalled, BootBelow, StackTyped DEF Threads
  <2>3. boot'[i] = boot[i] /\ i \in 1 .. Len(boot)
    BY <1>4, <2>1 DEF BootShrunk
  <2>4. top.prog # "configname"
    <3>. SUFFICES ASSUME top.prog = "configname" PROVE FALSE
      OBVIOUS
    <3>1. /\ Len(boot) = 3 /\ boot[1].prog = "main" /\ boot[1].at = 8
          /\ boot[2].prog = "wanconnect" /\ boot[2].at = 5
      BY ConfigAlone
    <3>2. i = 1 \/ i = 2
      BY <2>1, <3>1
    <3>. QED  BY <2>3, <3>1, <3>2 DEF PastFetch, Fetcher, Place
  <2>5. Broken(file)
    BY <1>4, <2>4, BreaksBlamed
  <2>6. ~PastFetch(file, boot[i], FALSE) /\ ~PastFetch(file, top, TRUE)
    BY <1>1, <2>3, <2>5, FetchedBelow, FetchedTop
  <2>7. i = Len(boot) - 1 /\ boot[i].prog = "main" /\ boot[i].at = Place(file)
    BY <2>1, <2>3, <2>6 DEF PastFetch
  <2>8. top.prog = Fetcher(file)
    BY <2>2, <2>7 DEF Calls, Place, Fetcher
  <2>9. top.at >= 8 \/ Blame(FileOf(top.prog))
    BY <1>4, <2>8, BootEnded DEF BootShrunk, Fetcher
  <2>10. ~Blame(FileOf(top.prog))
    BY <2>8, BlameIs DEF Threads
  <2>. QED  BY <2>2, <2>6, <2>8, <2>9, <2>10 DEF PastFetch
<1>. QED  BY <1>2, <1>3, <1>4, BootAfter

-----------------------------------------------------------------------------
(***************************************************************************)
(* A step of a thread keeps the invariant.                                 *)
(***************************************************************************)
LEMMA ActivationsStep ==
    ASSUME Typed, NEW t \in Threads, Step(t) \/ Touch(t)
    PROVE  /\ stack' \in [Threads -> Seq(Activation)]
           /\ \A u \in Threads : \A i \in 1 .. Len(stack'[u]) : stack'[u][i].at >= 1
<1>1. Running(t) /\ ((~AtEnd(t) /\ Moved(t)) \/ (Ended(t) /\ Shrunk(t)))
  BY StepMoves, DiesShrinks DEF Ended
<1>2. stack' \in [Threads -> Seq(Activation)]
  BY <1>1, MovedGrows DEF Grown, Shrunk
<1>3. ASSUME NEW u \in Threads, u # t, NEW i \in 1 .. Len(stack'[u])
      PROVE  stack'[u][i].at >= 1
  <2>1. stack'[u] = stack[u]
    BY <1>3, OthersStay
  <2>. QED  BY <2>1 DEF Typed
<1>4. ASSUME NEW i \in 1 .. Len(stack'[t])
      PROVE  stack'[t][i].at >= 1
  <2>. DEFINE n == Len(stack[t])
  <2>1. n \in Nat /\ n >= 1 /\ Top(t) = stack[t][n] /\ Top(t).at \in Nat /\ Top(t).at >= 1
    BY <1>1, StackTyped
  <2>2. CASE i \in 1 .. n - 1 /\ stack'[t][i] = stack[t][i]
    BY <2>1, <2>2 DEF Typed
  <2>3. CASE Shrunk(t)
    BY <2>1, <2>2, <2>3 DEF Shrunk
  <2>4. ASSUME NEW a \in Activation, NEW progs \in Seq(ProgramNames),
               Grown(t, a, progs), Moves(t, a, progs)
        PROVE  stack'[t][i].at >= 1
    <3>1. Len(stack'[t]) = n + Len(progs) /\ Len(progs) \in Nat
      BY <2>4 DEF Grown
    <3>2. CASE i < n
      BY <2>1, <2>2, <2>4, <3>2 DEF Grown
    <3>3. CASE i = n
      <4>1. stack'[t][i] = a /\ (a.at = Top(t).at + 1 \/ a.at = Top(t).at)
        BY <2>4, <3>3 DEF Grown, Moves
      <4>. QED  BY <2>1, <4>1
    <3>4. CASE i > n
      <4>. DEFINE k == i - n
      <4>1. k \in 1 .. Len(progs) /\ i = n + k
        BY <2>1, <3>1, <3>4
      <4>2. stack'[t][i] = Start(progs[k])
        BY <2>4, <4>1 DEF Grown
      <4>. QED  BY <4>2 DEF Start
    <3>. QED  BY <2>1, <3>2, <3>3, <3>4
  <2>. QED  BY <1>1, <2>3, <2>4, MovedGrows
<1>. QED  BY <1>2, <1>3, <1>4

\* The files keep their type.
LEMMA FilesStep ==
    ASSUME Typed, NEW t \in Threads, Step(t) \/ Touch(t)
    PROVE  files' \in [Files -> [state : {"absent", "bad", "whole"}, writers : SUBSET Threads,
                                 done : SUBSET BOOLEAN]]
<1>. DEFINE Download == [state : {"absent", "bad", "whole"}, writers : SUBSET Threads,
                         done : SUBSET BOOLEAN]
            file == Command(t).file
<1>1. files \in [Files -> Download]
  BY DEF Typed
<1>2. CASE files' = files
  BY <1>1, <1>2
<1>3. At(t, "open") \/ At(t, "close") => file \in Files
  BY FetchersAt DEF Downloads
<1>4. CASE At(t, "open") /\ OpenFile(t)
  <2>1. PICK writers \in SUBSET Threads, done \in SUBSET BOOLEAN :
          files' = [files EXCEPT ![file] = [state |-> "bad", writers |-> writers, done |-> done]]
    <3>1. files[file].writers \in SUBSET Threads /\ files[file].done \in SUBSET BOOLEAN
      BY <1>1, <1>3, <1>4
    <3>2. CASE files[file].writers = {}
      <4>1. files' = [files EXCEPT ![file] =
                        [state |-> "bad", writers |-> files[file].writers \cup {t}, done |-> {}]]
        BY <1>1, <1>3, <1>4, <3>2 DEF OpenFile
      <4>. QED  BY <3>1, <4>1
    <3>3. CASE files[file].writers # {}
      <4>1. files' = [files EXCEPT ![file] =
                        [state |-> "bad", writers |-> files[file].writers \cup {t},
                         done |-> files[file].done]]
        BY <1>1, <1>3, <1>4, <3>3 DEF OpenFile
      <4>. QED  BY <3>1, <4>1
    <3>. QED  BY <3>2, <3>3
  <2>. QED  BY <1>1, <2>1
<1>5. CASE At(t, "close") /\ CloseFile(t)
  <2>1. CASE t \notin files[file].writers
    BY <1>2, <1>5, <2>1 DEF CloseFile
  <2>2. CASE t \in files[file].writers
    <3>1. files[file].writers \in SUBSET Threads /\ files[file].done \in SUBSET BOOLEAN
      BY <1>1, <1>3, <1>5
    <3>. DEFINE left == files[file].writers \ {t}
                done == files[file].done \cup {net /\ Top(t).crc}
    <3>2. PICK ok : files' = [files EXCEPT ![file] =
                                [state |-> IF ok THEN "whole" ELSE "bad", writers |-> left,
                                 done |-> IF left = {} THEN {} ELSE done]]
      BY <1>5, <2>2 DEF CloseFile
    <3>3. done \in SUBSET BOOLEAN /\ left \in SUBSET Threads
      <4>1. (net /\ Top(t).crc) \in BOOLEAN
        OBVIOUS
      <4>. QED  BY <3>1, <4>1
    <3>. HIDE DEF done, left
    <3>4. PICK state \in {"whole", "bad"}, over \in SUBSET BOOLEAN :
            files' = [files EXCEPT ![file] = [state |-> state, writers |-> left, done |-> over]]
      BY <3>2, <3>3
    <3>. QED  BY <1>1, <3>3, <3>4
  <2>. QED  BY <2>1, <2>2
<1>6. CASE files' = [other \in Files |-> File("absent")]
  BY <1>6 DEF File
<1>. QED  BY <1>2, <1>4, <1>5, <1>6, FilesFrame

\* A step of a thread keeps the types.
LEMMA TypedStep ==
    ASSUME IInv, NEW t \in Threads, Step(t) \/ Touch(t)
    PROVE  Typed'
<1>1. Typed /\ BootStack /\ EventStack /\ AuthNeedsUserId /\ AuthOnLine /\ AuthOnStack
  BY DEF IInv, Coherent
<1>2. \A op : At(t, op) => Known(Top(t).prog, Top(t).at, Command(t)) /\ Command(t).op = op
  BY <1>1, CommandKnown DEF At
<1>3. globals' \subseteq {"windown_selected", "data_mode_selected", "md", "sd"}
  <2>1. At(t, "set") => Command(t).global \in {"windown_selected", "data_mode_selected", "md", "sd"}
    BY <1>2 DEF Known
  <2>. QED  BY <1>1, <2>1, GlobalsFrame DEF Typed
<1>4. address' \in {"missing", "empty", "written"}
  BY <1>1, AddressFrame DEF Typed
<1>5. store' \in BOOLEAN
  BY <1>1, StoreFrame DEF Typed
<1>6. spoiled' \subseteq {"master", "session", "instancemd", "configname"}
  <2>1. CASE spoiled' = spoiled
    BY <1>1, <2>1 DEF Typed
  <2>2. CASE Blame("configname") \/ Blame("instancemd")
    BY <1>1, <2>2 DEF Typed, Blame
  <2>3. CASE (At(t, "read_address") \/ At(t, "ask_crc")) /\ Blame(FileOf(Top(t).prog))
    <3>1. Top(t).prog \in {"MD_Download", "SD_Download"}
      BY <1>2, <2>3 DEF Known
    <3>2. FileOf(Top(t).prog) \in {"master", "session"}
      BY <3>1 DEF FileOf
    <3>. QED  BY <1>1, <2>3, <3>2 DEF Typed, Blame
  <2>4. CASE At(t, "close") /\ Command(t).file # "config" /\ Blame(Command(t).file)
    <3>1. Top(t).prog \in {"MD_Download", "SD_Download", "configname"}
          /\ Command(t).file = FileOf(Top(t).prog)
      BY <1>2, <2>4 DEF Known
    <3>2. Command(t).file \in {"master", "session"}
      BY <2>4, <3>1 DEF FileOf
    <3>. QED  BY <1>1, <2>4, <3>2 DEF Typed, Blame
  <2>. QED  BY <2>1, <2>2, <2>3, <2>4, SpoiledFrame
<1>7. /\ DOMAIN panel' = DOMAIN PanelReset /\ panel'.gui \in Windows
      /\ {panel'.red, panel'.green} \subseteq {"off", "on"} /\ panel'.college \in BOOLEAN
  BY <1>1, PanelStep
<1>8. UNCHANGED <<line, net, registered, counts, idGiven, buttonAsId>>
  BY StepFrame
<1>9. /\ line' \in Seq(ButtonFrame \cup EntryFrame) /\ net' \in BOOLEAN /\ registered' \in BOOLEAN
      /\ idGiven' \in BOOLEAN /\ buttonAsId' \in BOOLEAN
      /\ counts' \in [downloads : Nat, inputs : Nat, changes : Nat, cuts : Nat]
      /\ \E b \in Budgets : \A what \in DOMAIN b : counts'[what] <= b[what]
  BY <1>1, <1>8 DEF Typed
<1>. QED  BY <1>1, <1>3, <1>4, <1>5, <1>6, <1>7, <1>9, ActivationsStep, FilesStep DEF Typed

\* A step of a thread keeps the invariant.
LEMMA StepKeeps ==
    ASSUME IInv, NEW t \in Threads, Step(t) \/ Touch(t)
    PROVE  IInv'
<1>1. /\ Typed /\ BootStack /\ EventStack
      /\ AddressThen /\ CollegeThen /\ StoreThen /\ RejectedAsks
      /\ AuthNeedsUserId /\ AuthOnLine /\ AuthOnStack
      /\ NotedThen /\ WritersAt /\ MainWrites /\ NoCrcBlamed /\ DoneBlamed /\ FetchedThen
  BY DEF IInv, Coherent
<1>2. Typed'
  BY TypedStep
<1>3. BootStack' /\ EventStack' /\ AuthOnStack'
  BY <1>1, BootStackStep, EventStackStep
<1>4. AddressThen' /\ CollegeThen' /\ StoreThen'
  BY <1>1, AddressThenStep, CollegeThenStep, StoreThenStep
<1>5. RejectedAsks' /\ AuthNeedsUserId' /\ AuthOnLine'
  BY <1>1, RejectedStep, PanelStep
<1>6. NotedThen' /\ WritersAt' /\ MainWrites'
  BY <1>1, NotedStep, WritersAtStep, MainWritesStep
<1>7. NoCrcBlamed' /\ DoneBlamed' /\ FetchedThen'
  BY <1>1, NoCrcBlamedStep, DoneBlamedStep, FetchedThenStep
<1>. QED  BY <1>2, <1>3, <1>4, <1>5, <1>6, <1>7 DEF IInv, Coherent

-----------------------------------------------------------------------------
(***************************************************************************)
(* So do a frame that is handled, the user, the network and the server.    *)
(***************************************************************************)
Frames == ButtonFrame \cup EntryFrame

\* What a frame is handled with.
LEMMA HandlerRuns ==
    ASSUME NEW f \in Frames
    PROVE  /\ Handler(f) \in EventPrograms
           /\ Handler(f) = "UserValid" =>
                \/ f.type = "user" /\ Equals(f.digits)
                \/ FallsThrough(f) /\ Equals(ButtonDigits(f.num))
           /\ Handler(f) \in {"PassValid", "PassInvalid"} => f.type = "password"
<1>1. CASE f.type = "user"
  BY <1>1 DEF Handler, EventPrograms
<1>2. CASE f.type = "password"
  BY <1>2 DEF Handler, EventPrograms
<1>3. CASE f.type \notin {"user", "password"} /\ FallsThrough(f)
  BY <1>3 DEF Handler, EventPrograms
<1>4. CASE f.type \notin {"user", "password"} /\ ~FallsThrough(f)
  <2>1. f.num \in 0 .. 3
    BY <1>4, DeviceAssumption DEF Frames, ButtonFrame, EntryFrame
  <2>2. <<"ButtonMD", "ButtonSD", "ButtonUser", "ButtonSOS">>[f.num + 1]
          \in {"ButtonMD", "ButtonSD", "ButtonUser", "ButtonSOS"}
    <3>1. f.num + 1 \in 1 .. 4
      BY <2>1
    <3>. QED  BY <3>1
  <2>3. Handler(f) \in {"Nothing", "ButtonMD", "ButtonSD", "ButtonUser", "ButtonSOS"}
    BY <1>4, <2>2 DEF Handler
  <2>. QED  BY <2>3 DEF EventPrograms
<1>. QED  BY <1>1, <1>2, <1>3, <1>4

\* A frame taken off the line keeps the invariant.
LEMMA HandleKeeps ==
    ASSUME IInv, Handle
    PROVE  IInv' /\ boot' = boot
<1>. DEFINE f == Head(line)
            p == Start(Handler(f))
<1>1. /\ Typed /\ BootStack /\ EventStack
      /\ AddressThen /\ CollegeThen /\ StoreThen /\ RejectedAsks
      /\ AuthNeedsUserId /\ AuthOnLine /\ AuthOnStack
      /\ NotedThen /\ WritersAt /\ MainWrites /\ NoCrcBlamed /\ DoneBlamed /\ FetchedThen
  BY DEF IInv, Coherent
<1>2. /\ line \in Seq(Frames) /\ line # <<>> /\ line' = Tail(line)
      /\ stack' = [stack EXCEPT !["uart"] = <<p>>] /\ stack \in [Threads -> Seq(Activation)]
      /\ ~Running("uart")
  BY <1>1 DEF Handle, Typed, Frames
<1>3. /\ UNCHANGED <<panel, globals, address, files, store, net, registered, counts, spoiled>>
      /\ idGiven' = (idGiven \/ (f.type = "user" /\ Equals(f.digits)))
      /\ buttonAsId' = (buttonAsId \/ (FallsThrough(f) /\ Equals(ButtonDigits(f.num))))
  BY DEF Handle, outside
<1>4. /\ Len(line) \in Nat /\ Len(line) >= 1 /\ f = line[1] /\ f \in Frames
      /\ line' \in Seq(Frames) /\ Len(line') = Len(line) - 1
      /\ \A i \in 1 .. Len(line') : line'[i] = line[i + 1]
  BY <1>2
<1>5. /\ Handler(f) \in EventPrograms
      /\ Handler(f) = "UserValid" =>
           \/ f.type = "user" /\ Equals(f.digits)
           \/ FallsThrough(f) /\ Equals(ButtonDigits(f.num))
      /\ Handler(f) \in {"PassValid", "PassInvalid"} => f.type = "password"
  BY <1>4, HandlerRuns
<1>6. /\ p \in Activation /\ p.prog = Handler(f) /\ p.at = 1
  BY <1>5, StartTyped, ProgramsAre DEF Start
<1>7. stack'["uart"] = <<p>> /\ stack'["main"] = stack["main"]
  BY <1>2 DEF Threads
<1>8. /\ Len(stack'["uart"]) = 1 /\ stack'["uart"][1] = p
      /\ \A i \in 1 .. Len(stack'["uart"]) : stack'["uart"][i] = p
  BY <1>7
<1>9. boot' = boot
  BY <1>7 DEF boot
<1>10. Auth => Auth'
  BY <1>3 DEF Auth
<1>11. Typed'
  <2>1. <<p>> \in Seq(Activation)
    BY <1>6
  <2>2. stack' \in [Threads -> Seq(Activation)]
    BY <1>2, <2>1
  <2>3. ASSUME NEW t \in Threads, NEW i \in 1 .. Len(stack'[t])
        PROVE  stack'[t][i].at >= 1
    <3>1. CASE t = "main"
      BY <1>1, <1>7, <3>1 DEF Typed
    <3>2. CASE t = "uart"
      BY <1>6, <1>8, <3>2
    <3>. QED  BY <3>1, <3>2 DEF Threads
  <2>4. idGiven' \in BOOLEAN /\ buttonAsId' \in BOOLEAN
    BY <1>3
  <2>. QED  BY <1>1, <1>3, <1>4, <2>2, <2>3, <2>4 DEF Typed, Frames
<1>12. BootStack' /\ AddressThen' /\ CollegeThen' /\ StoreThen' /\ RejectedAsks'
       /\ NotedThen' /\ FetchedThen' /\ DoneBlamed'
  BY <1>1, <1>3, <1>9 DEF BootStack, AddressThen, Addressed, CollegeThen, Named, StoreThen,
                          RejectedAsks, NotedThen, FetchedThen, DoneBlamed, Blamed
<1>13. EventStack'
  BY <1>5, <1>6, <1>8 DEF EventStack
<1>14. AuthNeedsUserId' /\ AuthOnLine'
  <2>1. AuthNeedsUserId'
    BY <1>1, <1>3 DEF AuthNeedsUserId
  <2>2. \A i \in 1 .. Len(line') : i + 1 \in 1 .. Len(line)
    BY <1>4
  <2>. QED  BY <1>1, <1>4, <1>10, <2>1, <2>2 DEF AuthOnLine
<1>15. AuthOnStack'
  <2>1. f.type = "password" => Auth
    BY <1>1, <1>4 DEF AuthOnLine
  <2>2. Handler(f) \in {"UserValid", "PassValid", "PassInvalid"} => Auth'
    BY <1>3, <1>5, <1>10, <2>1 DEF Auth
  <2>. QED  BY <1>6, <1>8, <2>2 DEF AuthOnStack
<1>16. WritersAt' /\ MainWrites'
  <2>1. ASSUME NEW file \in Downloads, NEW t \in files[file].writers
        PROVE  t = "main"
    <3>1. files[file].writers \subseteq Threads
      BY <1>1 DEF Typed, Files, Downloads
    <3>. QED  BY <1>1, <1>2, <2>1, <3>1 DEF WritersAt, Threads
  <2>. QED  BY <1>1, <1>3, <1>7, <2>1 DEF WritersAt, MainWrites, Running, Top
<1>17. NoCrcBlamed'
  <2>1. ASSUME NEW t \in Threads, NEW i \in 1 .. Len(stack'[t]), stack'[t][i].at >= 5
        PROVE  t = "main"
    BY <1>6, <1>8, <2>1 DEF Threads
  <2>. QED  BY <1>1, <1>3, <1>7, <2>1 DEF NoCrcBlamed, Blamed
<1>. QED  BY <1>9, <1>11, <1>12, <1>13, <1>14, <1>15, <1>16, <1>17 DEF IInv, Coherent

\* What is counted stays within a budget.
LEMMA CountedKeeps ==
    ASSUME Typed, NEW what \in {"downloads", "inputs", "changes", "cuts"}, Counted(what)
    PROVE  /\ counts' \in [downloads : Nat, inputs : Nat, changes : Nat, cuts : Nat]
           /\ \E b \in Budgets : \A other \in DOMAIN b : counts'[other] <= b[other]
           /\ what = "cuts" => counts'.cuts > counts.cuts
<1>1. counts \in [downloads : Nat, inputs : Nat, changes : Nat, cuts : Nat]
      /\ counts' = [counts EXCEPT ![what] = @ + 1]
  BY DEF Typed, Counted
<1>2. counts' \in [downloads : Nat, inputs : Nat, changes : Nat, cuts : Nat]
  BY <1>1
<1>3. PICK b \in Budgets : \A other \in DOMAIN b :
        counts[other] + (IF other = what THEN 1 ELSE 0) <= b[other]
  BY DEF Counted
<1>4. DOMAIN b = {"downloads", "inputs", "changes", "cuts"}
  BY DeviceAssumption
<1>5. ASSUME NEW other \in DOMAIN b
      PROVE  counts'[other] <= b[other]
  <2>1. CASE other = what
    BY <1>1, <1>3, <1>4, <2>1
  <2>2. CASE other # what
    BY <1>1, <1>3, <1>4, <2>2
  <2>. QED  BY <2>1, <2>2
<1>6. what = "cuts" => counts'.cuts > counts.cuts
  BY <1>1
<1>. QED  BY <1>2, <1>5, <1>6

\* What the user does keeps the invariant.
LEMMA InputKeeps ==
    ASSUME IInv, Input
    PROVE  IInv' /\ boot' = boot
<1>1. /\ Typed /\ BootStack /\ EventStack
      /\ AddressThen /\ CollegeThen /\ StoreThen /\ RejectedAsks
      /\ AuthNeedsUserId /\ AuthOnLine /\ AuthOnStack
      /\ NotedThen /\ WritersAt /\ MainWrites /\ NoCrcBlamed /\ DoneBlamed /\ FetchedThen
  BY DEF IInv, Coherent
<1>2. UNCHANGED <<stack, panel, globals, address, files, store, net, registered, idGiven,
                  buttonAsId, spoiled>>
  BY DEF Input
<1>3. PICK f \in Frames : line' = Append(line, f) /\ (f.type = "password" => Auth)
  <2>1. CASE panel.gui = "BUTTON"
             /\ \E num \in Buttons : line' = Append(line, [type |-> "button", num |-> num])
    BY <2>1 DEF Frames, ButtonFrame
  <2>2. CASE panel.gui = "USER_INPUT"
             /\ \E d \in Digits : line' = Append(line, [type |-> "user", digits |-> d])
    BY <2>2 DEF Frames, EntryFrame
  <2>3. CASE panel.gui = "PASSWORD_INPUT"
             /\ \E d \in Digits : line' = Append(line, [type |-> "password", digits |-> d])
    BY <1>1, <2>3 DEF Frames, EntryFrame, AuthNeedsUserId, Auth
  <2>. QED  BY <2>1, <2>2, <2>3 DEF Input
<1>4. PICK what \in {"downloads", "inputs"} : Counted(what)
  BY DEF Input
<1>5. /\ line \in Seq(Frames) /\ line' \in Seq(Frames) /\ Len(line) \in Nat
      /\ Len(line') = Len(line) + 1 /\ line'[Len(line) + 1] = f
      /\ \A i \in 1 .. Len(line) : line'[i] = line[i]
  <2>1. line \in Seq(Frames)
    BY <1>1 DEF Typed, Frames
  <2>. QED  BY <1>3, <2>1
<1>6. Typed'
  <2>1. /\ counts' \in [downloads : Nat, inputs : Nat, changes : Nat, cuts : Nat]
        /\ \E b \in Budgets : \A other \in DOMAIN b : counts'[other] <= b[other]
    BY <1>1, <1>4, CountedKeeps
  <2>. QED  BY <1>1, <1>2, <1>5, <2>1 DEF Typed, Frames
<1>7. AuthOnLine'
  <2>1. \A i \in 1 .. Len(line') : i \in 1 .. Len(line) \/ i = Len(line) + 1
    BY <1>5
  <2>. QED  BY <1>1, <1>2, <1>3, <1>5, <2>1 DEF AuthOnLine, Auth
<1>8. BootStack' /\ EventStack' /\ AddressThen' /\ CollegeThen' /\ StoreThen' /\ RejectedAsks'
  BY <1>1, <1>2 DEF BootStack, EventStack, AddressThen, Addressed, CollegeThen, Named, StoreThen,
                    RejectedAsks, boot
<1>9. AuthNeedsUserId' /\ AuthOnStack' /\ NotedThen' /\ WritersAt' /\ MainWrites'
  BY <1>1, <1>2 DEF AuthNeedsUserId, AuthOnStack, Auth, NotedThen, WritersAt, MainWrites, Running,
                    Top, boot
<1>10. NoCrcBlamed' /\ DoneBlamed' /\ FetchedThen'
  BY <1>1, <1>2 DEF NoCrcBlamed, DoneBlamed, FetchedThen, Blamed, boot
<1>. QED  BY <1>2, <1>6, <1>7, <1>8, <1>9, <1>10 DEF IInv, Coherent, boot

\* Steps that leave what the invariant is about as it is.
LEMMA OutsideKeeps ==
    ASSUME IInv, Typed',
           UNCHANGED <<stack, panel, line, globals, address, files, store, idGiven, buttonAsId,
                       spoiled>>
    PROVE  IInv' /\ boot' = boot
<1>1. /\ BootStack /\ EventStack
      /\ AddressThen /\ CollegeThen /\ StoreThen /\ RejectedAsks
      /\ AuthNeedsUserId /\ AuthOnLine /\ AuthOnStack
      /\ NotedThen /\ WritersAt /\ MainWrites /\ NoCrcBlamed /\ DoneBlamed /\ FetchedThen
  BY DEF IInv, Coherent
<1>2. BootStack' /\ EventStack' /\ AddressThen' /\ CollegeThen' /\ StoreThen' /\ RejectedAsks'
  BY <1>1 DEF BootStack, EventStack, AddressThen, Addressed, CollegeThen, Named, StoreThen,
              RejectedAsks, boot
<1>3. AuthNeedsUserId' /\ AuthOnLine' /\ AuthOnStack' /\ NotedThen' /\ WritersAt' /\ MainWrites'
  BY <1>1 DEF AuthNeedsUserId, AuthOnLine, AuthOnStack, Auth, NotedThen, WritersAt, MainWrites,
              Running, Top, boot
<1>4. NoCrcBlamed' /\ DoneBlamed' /\ FetchedThen'
  BY <1>1 DEF NoCrcBlamed, DoneBlamed, FetchedThen, Blamed, boot
<1>. QED  BY <1>2, <1>3, <1>4 DEF IInv, Coherent, boot

\* So does what network and administrator do.
LEMMA NetKeeps ==
    ASSUME IInv, NetChanges \/ Register \/ UNCHANGED vars
    PROVE  IInv' /\ boot' = boot
<1>1. Typed
  BY DEF IInv
<1>2. CASE NetChanges
  <2>1. /\ counts' \in [downloads : Nat, inputs : Nat, changes : Nat, cuts : Nat]
        /\ \E b \in Budgets : \A other \in DOMAIN b : counts'[other] <= b[other]
    BY <1>1, <1>2, CountedKeeps DEF NetChanges
  <2>2. Typed'
    BY <1>1, <1>2, <2>1 DEF NetChanges, Typed
  <2>. QED  BY <1>2, <2>2, OutsideKeeps DEF NetChanges
<1>3. CASE Register
  <2>1. Typed'
    BY <1>1, <1>3 DEF Register, Typed
  <2>. QED  BY <1>3, <2>1, OutsideKeeps DEF Register
<1>4. CASE UNCHANGED vars
  <2>1. Typed'
    BY <1>1, <1>4 DEF vars, Typed
  <2>. QED  BY <1>4, <2>1, OutsideKeeps DEF vars
<1>. QED  BY <1>2, <1>3, <1>4

-----------------------------------------------------------------------------
(***************************************************************************)
(* And power-on establishes it.                                            *)
(***************************************************************************)
Fresh ==
    /\ stack = [main |-> <<Start("main")>>, uart |-> <<>>]
    /\ panel \in {PanelReset, [PanelReset EXCEPT !.gui = "BUTTON"]}
    /\ line = <<>>
    /\ globals = {}
    /\ \A file \in Files : files[file].writers = {} /\ files[file].done = {}

\* What the panel shows when power comes.
LEMMA FreshPanel ==
    \A shown \in {PanelReset, [PanelReset EXCEPT !.gui = "BUTTON"]} :
        /\ DOMAIN shown = DOMAIN PanelReset /\ shown.gui \in Windows
        /\ {shown.red, shown.green} \subseteq {"off", "on"} /\ shown.college \in BOOLEAN
        /\ shown.gui # "PASSWORD_INPUT" /\ shown.line1 # "Authentication Successful"
<1>. DEFINE shown == [PanelReset EXCEPT !.gui = "BUTTON"]
<1>1. /\ DOMAIN PanelReset = {"line1", "line2", "line3", "gui", "red", "green", "college"}
      /\ PanelReset.gui = "NONE" /\ PanelReset.red = "off" /\ PanelReset.green = "off"
      /\ PanelReset.college = FALSE
      /\ PanelReset.line1 = ""
  BY DEF PanelReset
<1>2. /\ DOMAIN shown = DOMAIN PanelReset /\ shown.gui = "BUTTON"
      /\ shown.red = PanelReset.red /\ shown.green = PanelReset.green
      /\ shown.college = PanelReset.college
      /\ shown.line1 = PanelReset.line1
  BY <1>1
<1>. QED  BY <1>1, <1>2 DEF Windows

\* A boot that begins has nothing behind it.
LEMMA FreshCoheres == Fresh => Coherent
<1>. SUFFICES ASSUME Fresh PROVE Coherent
  OBVIOUS
<1>. DEFINE p == Start("main")
<1>1. /\ Len(boot) = 1 /\ boot[1] = p /\ boot # <<>> /\ stack["uart"] = <<>>
      /\ \A i \in 1 .. Len(boot) : i = 1
  BY DEF Fresh, boot
<1>2. p.prog = "main" /\ p.at = 1 /\ p.reply = "none"
  BY DEF Start
<1>3. BootStack /\ EventStack /\ RejectedAsks
  BY <1>1, <1>2 DEF BootStack, EventStack, RejectedAsks, BootPrograms
<1>4. AddressThen /\ StoreThen
  BY <1>1, <1>2 DEF AddressThen, PastInstance, StoreThen, PastTouch
<1>5. CollegeThen
  BY <1>1, <1>2 DEF CollegeThen, PastConfig
<1>6. AuthNeedsUserId
  BY FreshPanel DEF Fresh, AuthNeedsUserId
<1>7. AuthOnLine /\ AuthOnStack
  BY <1>1 DEF Fresh, AuthOnLine, AuthOnStack
<1>8. NotedThen
  BY DEF Fresh, NotedThen
<1>9. \A file \in Downloads : files[file].writers = {} /\ files[file].done = {}
  BY DEF Fresh, Downloads, Files
<1>10. WritersAt /\ DoneBlamed
  BY <1>9 DEF WritersAt, DoneBlamed
<1>11. MainWrites
  BY <1>1, <1>2 DEF MainWrites, Top, boot, Fetcher
<1>12. NoCrcBlamed
  <2>1. ASSUME NEW t \in Threads, NEW i \in 1 .. Len(stack[t]) PROVE stack[t][i].at = 1
    BY <1>1, <1>2 DEF Threads, boot
  <2>. QED  BY <2>1 DEF NoCrcBlamed
<1>13. FetchedThen
  BY <1>1, <1>2 DEF FetchedThen, PastFetch, Place, Fetcher
<1>. QED
  BY <1>3, <1>4, <1>5, <1>6, <1>7, <1>8, <1>10, <1>11, <1>12, <1>13 DEF Coherent

\* The stacks of a boot that begins are stacks.
LEMMA FreshStack ==
    LET started == [main |-> <<Start("main")>>, uart |-> <<>>]
    IN  /\ started \in [Threads -> Seq(Activation)]
        /\ \A t \in Threads : \A i \in 1 .. Len(started[t]) : started[t][i].at >= 1
<1>1. Start("main") \in Activation /\ Start("main").at = 1
  BY StartTyped, ProgramsAre DEF BootPrograms, Start
<1>. DEFINE started == [main |-> <<Start("main")>>, uart |-> <<>>]
<1>2. <<Start("main")>> \in Seq(Activation) /\ <<>> \in Seq(Activation)
  BY <1>1
<1>3. started["main"] = <<Start("main")>> /\ started["uart"] = <<>> /\ DOMAIN started = Threads
  BY DEF Threads
<1>4. started \in [Threads -> Seq(Activation)]
  BY <1>2, <1>3 DEF Threads
<1>5. ASSUME NEW t \in Threads, NEW i \in 1 .. Len(started[t])
      PROVE  started[t][i].at >= 1
  <2>. HIDE DEF started
  <2>1. Len(<<Start("main")>>) = 1 /\ Len(<<>>) = 0
    OBVIOUS
  <2>2. CASE t = "main"
    BY <1>1, <1>3, <2>1, <2>2
  <2>3. CASE t = "uart"
    BY <1>3, <2>1, <2>3
  <2>. QED  BY <2>2, <2>3 DEF Threads
<1>. QED  BY <1>4, <1>5

\* The first boot.
LEMMA InitHolds == Init => IInv
<1>. SUFFICES ASSUME Init PROVE IInv
  OBVIOUS
<1>1. files \in [Files -> [state : {"absent", "bad", "whole"}, writers : SUBSET Threads,
                         done : SUBSET BOOLEAN]]
      /\ \A file \in Files : files[file].writers = {} /\ files[file].done = {}
  BY DEF Init, File
<1>2. Coherent
  BY <1>1, FreshCoheres DEF Init, Fresh
<1>3. /\ counts \in [downloads : Nat, inputs : Nat, changes : Nat, cuts : Nat]
      /\ \E b \in Budgets : \A what \in DOMAIN b : counts[what] <= b[what]
  <2>1. PICK b \in Budgets : b \in [downloads : Nat, inputs : Nat, changes : Nat, cuts : Nat]
    BY DeviceAssumption
  <2>2. DOMAIN b = {"downloads", "inputs", "changes", "cuts"}
        /\ b.downloads \in Nat /\ b.inputs \in Nat /\ b.changes \in Nat /\ b.cuts \in Nat
    BY <2>1
  <2>3. counts = [downloads |-> 0, inputs |-> 0, changes |-> 0, cuts |-> 0]
    BY DEF Init
  <2>4. \A what \in DOMAIN b : counts[what] <= b[what]
    BY <2>2, <2>3
  <2>. QED  BY <2>1, <2>3, <2>4
<1>4. /\ stack \in [Threads -> Seq(Activation)]
      /\ \A t \in Threads : \A i \in 1 .. Len(stack[t]) : stack[t][i].at >= 1
  BY FreshStack DEF Init
<1>5. /\ DOMAIN panel = DOMAIN PanelReset /\ panel.gui \in Windows
      /\ {panel.red, panel.green} \subseteq {"off", "on"} /\ panel.college \in BOOLEAN
  BY FreshPanel DEF Init
<1>6. /\ line \in Seq(ButtonFrame \cup EntryFrame)
      /\ globals \subseteq {"windown_selected", "data_mode_selected", "md", "sd"}
      /\ address \in {"missing", "empty", "written"}
      /\ store \in BOOLEAN /\ net \in BOOLEAN /\ registered \in BOOLEAN
      /\ idGiven \in BOOLEAN /\ buttonAsId \in BOOLEAN
      /\ spoiled \subseteq {"master", "session", "instancemd", "configname"}
  <2>1. line = <<>> /\ globals = {} /\ spoiled = {} /\ idGiven = FALSE /\ buttonAsId = FALSE
    BY DEF Init
  <2>2. address \in {"missing", "written"} /\ store \in BOOLEAN /\ net \in BOOLEAN
        /\ registered \in BOOLEAN
    BY DEF Init
  <2>3. <<>> \in Seq(ButtonFrame \cup EntryFrame)
    OBVIOUS
  <2>. QED  BY <2>1, <2>2, <2>3
<1>7. Typed
  BY <1>1, <1>3, <1>4, <1>5, <1>6 DEF Typed
<1>. QED  BY <1>2, <1>7 DEF IInv

\* Every later one; it is counted.
LEMMA PowerCutKeeps ==
    ASSUME IInv, PowerCut
    PROVE  IInv' /\ counts'.cuts > counts.cuts
<1>1. Typed
  BY DEF IInv
<1>2. files' \in [Files -> [state : {"absent", "bad", "whole"}, writers : SUBSET Threads,
                          done : SUBSET BOOLEAN]]
      /\ \A file \in Files : files'[file].writers = {} /\ files'[file].done = {}
  BY <1>1 DEF PowerCut, File, Typed
<1>3. Coherent'
  <2>1. Fresh'
    BY <1>2 DEF PowerCut, Fresh
  <2>. QED  BY <2>1, FreshCoheres, PTL
<1>4. /\ counts' \in [downloads : Nat, inputs : Nat, changes : Nat, cuts : Nat]
      /\ \E b \in Budgets : \A other \in DOMAIN b : counts'[other] <= b[other]
      /\ counts'.cuts > counts.cuts
  BY <1>1, CountedKeeps DEF PowerCut
<1>5. /\ stack' \in [Threads -> Seq(Activation)]
      /\ \A t \in Threads : \A i \in 1 .. Len(stack'[t]) : stack'[t][i].at >= 1
  BY FreshStack DEF PowerCut
<1>6. /\ DOMAIN panel' = DOMAIN PanelReset /\ panel'.gui \in Windows
      /\ {panel'.red, panel'.green} \subseteq {"off", "on"} /\ panel'.college \in BOOLEAN
  BY FreshPanel DEF PowerCut
<1>7. /\ line' \in Seq(ButtonFrame \cup EntryFrame)
      /\ globals' \subseteq {"windown_selected", "data_mode_selected", "md", "sd"}
      /\ idGiven' \in BOOLEAN /\ buttonAsId' \in BOOLEAN
      /\ spoiled' \subseteq {"master", "session", "instancemd", "configname"}
  <2>1. line' = <<>> /\ globals' = {} /\ spoiled' = {} /\ idGiven' = FALSE /\ buttonAsId' = FALSE
    BY DEF PowerCut
  <2>2. <<>> \in Seq(ButtonFrame \cup EntryFrame)
    OBVIOUS
  <2>. QED  BY <2>1, <2>2
<1>8. /\ address' \in {"missing", "empty", "written"}
      /\ store' \in BOOLEAN /\ net' \in BOOLEAN /\ registered' \in BOOLEAN
  BY <1>1 DEF PowerCut, Typed
<1>9. Typed'
  BY <1>2, <1>4, <1>5, <1>6, <1>7, <1>8 DEF Typed
<1>. QED  BY <1>3, <1>4, <1>9 DEF IInv

\* Every step keeps the invariant.
LEMMA NextKeeps ==
    ASSUME IInv, [Next]_vars
    PROVE  IInv'
<1>1. ASSUME NEW t \in Threads, Step(t) \/ Touch(t)
      PROVE  IInv'
  BY <1>1, StepKeeps
<1>. QED  BY <1>1, HandleKeeps, InputKeeps, NetKeeps, PowerCutKeeps DEF Next

-----------------------------------------------------------------------------
(***************************************************************************)
(* The theorems.                                                           *)
(***************************************************************************)
LEMMA InvariantHolds == Spec => []IInv
<1>. QED  BY InitHolds, NextKeeps, PTL DEF Spec

\* Every state is well-typed, whatever the user, the network and the server do
\* within a budget, and however main's programs and the event thread's
\* interleave (all the handlers of syslcd.c and the programs it starts).
THEOREM TypeCorrect == Spec => []TypeOK
<1>1. IInv => TypeOK
  <2>. SUFFICES ASSUME Typed PROVE TypeOK
    BY DEF IInv
  <2>1. \A t \in Threads : \A i \in 1 .. Len(stack[t]) : stack[t][i] \in Activation
    BY DEF Typed
  <2>2. \A i \in 1 .. Len(line) : line[i] \in ButtonFrame \cup EntryFrame
    BY DEF Typed
  <2>3. {store, net, registered, idGiven, buttonAsId} \subseteq BOOLEAN
    BY DEF Typed
  <2>4. \E b \in Budgets : \A what \in DOMAIN b : counts[what] \in 0 .. b[what]
    <3>1. PICK b \in Budgets : \A what \in DOMAIN b : counts[what] <= b[what]
      BY DEF Typed
    <3>2. counts \in [downloads : Nat, inputs : Nat, changes : Nat, cuts : Nat]
          /\ b \in [downloads : Nat, inputs : Nat, changes : Nat, cuts : Nat]
      BY DeviceAssumption DEF Typed
    <3>3. ASSUME NEW what \in DOMAIN b
          PROVE  counts[what] \in 0 .. b[what]
      <4>1. counts[what] \in Nat /\ b[what] \in Nat
        BY <3>2
      <4>. QED  BY <3>1, <4>1
    <3>. QED  BY <3>3
  <2>. QED  BY <2>1, <2>2, <2>3, <2>4 DEF TypeOK, Typed
<1>. QED  BY <1>1, InvariantHolds, PTL

\* The pass code window, and the message after a right pass code, come after a
\* right user ID or the button that is read as one (syslcd.c's
\* handle_proto_data), whatever is still on the line or on a stack.
THEOREM PassCodeNeedsId == Spec => []AuthNeedsUserId
<1>1. IInv => AuthNeedsUserId
  BY DEF IInv, Coherent
<1>. QED  BY <1>1, InvariantHolds, PTL

\* main's downloads find the address that instancemd wrote, unless instancemd
\* died: wanconnect waits for it, and nobody else writes ipaddress.txt.
THEOREM AddressIsFound == Spec => []MainFindsAddress
<1>1. IInv => MainFindsAddress
  <2>. SUFFICES ASSUME IInv, At("main", "read_address") PROVE Addressed
    BY DEF MainFindsAddress, Addressed
  <2>. DEFINE top == Top("main")
              n   == Len(boot)
  <2>1. Typed /\ BootStack /\ AddressThen
    BY DEF IInv, Coherent
  <2>2. top.prog \in {"MD_Download", "SD_Download"} /\ top = boot[n] /\ n \in Nat /\ n >= 1
    <3>1. Known(top.prog, top.at, Command("main")) /\ Command("main").op = "read_address"
          /\ top = boot[n]
      BY <2>1, BootCommand DEF At
    <3>. QED  BY <2>1, <3>1, BootBelow DEF Known
  <2>3. n >= 2
    BY <2>1, <2>2 DEF BootStack
  <2>4. Calls(boot[n - 1], top.prog) /\ n - 1 \in 1 .. n
    BY <2>1, <2>3, TopCalled
  <2>5. PastInstance(boot[n - 1], FALSE)
    BY <2>2, <2>4 DEF Calls, PastInstance
  <2>. QED  BY <2>1, <2>4, <2>5, AddressBelow
<1>. QED  BY <1>1, InvariantHolds, PTL

\* main reaches its clock loop with fingerprints in the store and, unless
\* configname died, the name of the college on the panel, both from one
\* configuration (configname.c).
THEOREM ClockIsConfigured == Spec => []ClockMeansConfigured
<1>1. IInv => ClockMeansConfigured
  <2>. SUFFICES ASSUME IInv, AtClock PROVE store /\ Named
    BY DEF ClockMeansConfigured, Named
  <2>1. Typed /\ BootStack /\ CollegeThen /\ StoreThen
    BY DEF IInv, Coherent
  <2>2. Top("main").prog = "main" /\ Top("main").at > Len(Script[Top("main").prog])
    BY DEF AtClock, AtEnd
  <2>3. Top("main").at > 14 /\ Top("main").at \in Nat
    BY <2>1, <2>2, Lengths, BootBelow, StackTyped DEF Threads
  <2>4. store
    <3>1. PastTouch(Top("main"), TRUE)
      BY <2>2, <2>3 DEF PastTouch
    <3>. QED  BY <2>1, <3>1, StoreTop
  <2>5. PastConfig(Top("main"), TRUE)
    BY <2>2, <2>3 DEF PastConfig
  <2>. QED  BY <2>1, <2>4, <2>5, CollegeTop
<1>. QED  BY <1>1, InvariantHolds, PTL

\* A download that main noted is whole, unless it is being written or
\* something went wrong with a fetch of it: two threads that write one file at
\* once, and configname's removal of all of them, do not on their own.
THEOREM DownloadsFetchedOrBlamed == Spec => []FetchedOrBlamed
<1>1. IInv => FetchedOrBlamed
  <2>. SUFFICES ASSUME IInv PROVE FetchedOrBlamed
    OBVIOUS
  <2>1. Typed /\ BootStack /\ NotedThen /\ FetchedThen
    BY DEF IInv, Coherent
  <2>2. ASSUME NEW file \in Downloads, Noted(file) \in globals,
               files[file].writers = {}, files[file].state # "whole"
        PROVE  Blamed(file)
    <3>1. 1 \in 1 .. Len(boot) /\ boot[1].prog = "main"
      BY <2>1, BootBelow DEF BootStack
    <3>2. PastFetch(file, boot[1], FALSE)
      BY <2>1, <2>2, <3>1 DEF NotedThen, PastFetch
    <3>. QED  BY <2>1, <2>2, <3>1, <3>2, FetchedBelow DEF Broken
  <2>3. /\ "master" \in Downloads /\ Noted("master") = "md"
        /\ "session" \in Downloads /\ Noted("session") = "sd"
    BY DEF Downloads, Noted
  <2>. QED  BY <2>2, <2>3 DEF FetchedOrBlamed, Blamed
<1>. QED  BY <1>1, InvariantHolds, PTL

\* No step but a power cut, or the death of instancemd, lets a device go on that
\* was turned away, the server's change of mind included (instancemd.c:73).
THEOREM RejectedStays == Spec => RejectedForever
<1>1. ASSUME IInv, [Next]_vars
      PROVE  [Rejected => \/ Rejected'
                          \/ "instancemd" \in spoiled'
                          \/ counts'.cuts > counts.cuts]_vars
  <2>1. Typed /\ BootStack /\ RejectedAsks
    BY <1>1 DEF IInv, Coherent
  <2>2. ASSUME NEW t \in Threads, Step(t) \/ Touch(t)
        PROVE  Rejected => Rejected' \/ "instancemd" \in spoiled'
    BY <2>1, <2>2, RejectedStep DEF Blame
  <2>3. boot' = boot => (Rejected => Rejected')
    BY DEF Rejected, boot
  <2>. QED  BY <1>1, <2>2, <2>3, HandleKeeps, InputKeeps, NetKeeps, PowerCutKeeps DEF Next
<1>. QED  BY <1>1, InvariantHolds, PTL DEF Spec, RejectedForever
=============================================================================
