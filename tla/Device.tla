------------------------------- MODULE Device -------------------------------
(***************************************************************************)
(* The running device: syslcd's main thread, which boots it by running one *)
(* program after the other, and syslcd's event thread, which answers the   *)
(* user's key presses and for that runs programs of its own, at the same   *)
(* time, against the same panel, the same files and the same network.      *)
(*                                                                         *)
(* A thread is a stack of programs: the one on top runs, the ones below    *)
(* wait in system() for it.  Each command of a program is a step.          *)
(*                                                                         *)
(* Outside the program are the user, the network, the central server       *)
(* (which knows this device or does not yet), the panel and the mains.     *)
(* How frames get from the panel to the event thread is UartThread's       *)
(* matter; here a frame is handled in its turn, and a lost one is as if    *)
(* the user had not sent it.                                               *)
(***************************************************************************)
EXTENDS Programs, FiniteSets

CONSTANTS
    Digits,         \* what the user may enter: sequences of six digits
    Buttons,        \* the buttons the user may press, of 0 .. 3
    CheckAt,        \* the failed ping at which a download program shows its hint: 4
    Budgets         \* bounds: how many presses of a download button, other
                    \* presses and entries, changes of the network and power
                    \* cuts a behaviour may have together

ASSUME DeviceAssumption ==
    /\ Digits \subseteq [1 .. 6 -> 0 .. 9]
    /\ Buttons \subseteq 0 .. 3
    /\ CheckAt \in Nat
    /\ Budgets \subseteq [downloads : Nat, inputs : Nat, changes : Nat, cuts : Nat]
    /\ Budgets # {}

Threads == {"main", "uart"}

VARIABLES
    stack,      \* per thread: its programs, innermost last
    panel,      \* what the panel shows
    line,       \* frames on their way from the panel
    globals,    \* the globals of syslcd that have been set to 1
    address,    \* ipaddress.txt: "missing", "empty" or "written"
    files,      \* the downloads: what they hold, which threads write them, and
                \* how the writers of the present overlap that are done did
    store,      \* /mnt holds fingerprints
    net,        \* the cloud answers
    registered, \* the server knows this device
    counts,     \* download presses, other inputs, network changes and power cuts so far
    idGiven,    \* history: a user ID was accepted since power-on
    buttonAsId, \* history: a button was accepted as a user ID since power-on
    spoiled     \* history: the downloads of main with a fetch of which something
                \* went wrong, and of instancemd and configname those that
                \* died, since power-on

vars == <<stack, panel, line, globals, address, files, store, net, registered,
          counts, idGiven, buttonAsId, spoiled>>

Files == {"master", "session", "config"}

\* A program and where it stands.  fails counts failed pings until there are
\* more than CheckAt; addr is the address it read; crc, that it got the file's
\* checksum; reply, the first answer of the server to instancemd.
Activation == [prog : ProgramNames, at : Nat, fails : 0 .. CheckAt + 1,
               addr : {"none", "empty", "written"}, crc : BOOLEAN,
               reply : {"none", "true", "false"}]

Start(prog) == [prog |-> prog, at |-> 1, fails |-> 0, addr |-> "none", crc |-> FALSE,
                reply |-> "none"]

ButtonFrame == [type : {"button"}, num : Buttons]
EntryFrame  == [type : {"user", "password"}, digits : Digits]

File(state) == [state |-> state, writers |-> {}, done |-> {}]

Windows == {"NONE", "LOGO", "MAIN", "BUTTON", "USER_INPUT", "PASSWORD_INPUT"}

TypeOK ==
    /\ \A t \in Threads : \A i \in 1 .. Len(stack[t]) : stack[t][i] \in Activation
    /\ DOMAIN panel = DOMAIN PanelReset /\ panel.gui \in Windows
    /\ {panel.red, panel.green} \subseteq {"off", "on"} /\ panel.college \in BOOLEAN
    /\ \A i \in 1 .. Len(line) : line[i] \in ButtonFrame \cup EntryFrame
    /\ globals \subseteq {"windown_selected", "data_mode_selected", "md", "sd"}
    /\ address \in {"missing", "empty", "written"}
    /\ files \in [Files -> [state : {"absent", "bad", "whole"}, writers : SUBSET Threads,
                         done : SUBSET BOOLEAN]]
    /\ {store, net, registered, idGiven, buttonAsId} \subseteq BOOLEAN
    /\ \E b \in Budgets : \A what \in DOMAIN b : counts[what] \in 0 .. b[what]
    /\ spoiled \subseteq {"master", "session", "instancemd", "configname"}

\* syslcd is started on a panel that may still show the buttons of an earlier
\* run, and either for the first time or with the files of an earlier boot.
Init ==
    /\ stack = [main |-> <<Start("main")>>, uart |-> <<>>]
    /\ panel \in {PanelReset, [PanelReset EXCEPT !.gui = "BUTTON"]}
    /\ line = <<>>
    /\ globals = {}
    /\ \/ /\ address = "missing" /\ store = FALSE
          /\ files = [file \in Files |-> File("absent")]
       \/ /\ address = "written" /\ store = TRUE
          /\ files = [file \in Files |-> File("whole")]
    /\ net \in BOOLEAN
    /\ registered \in BOOLEAN
    /\ counts = [downloads |-> 0, inputs |-> 0, changes |-> 0, cuts |-> 0]
    /\ idGiven = FALSE
    /\ buttonAsId = FALSE
    /\ spoiled = {}

-----------------------------------------------------------------------------
\* The command a thread is at.
Running(t) == stack[t] # <<>>
Top(t)     == stack[t][Len(stack[t])]
AtEnd(t)   == Running(t) /\ Top(t).at > Len(Script[Top(t).prog])
Command(t) == Script[Top(t).prog][Top(t).at]
At(t, op)  == Running(t) /\ ~AtEnd(t) /\ Command(t).op = op

Below(t)   == SubSeq(stack[t], 1, Len(stack[t]) - 1)
Onward(a)  == [a EXCEPT !.at = a.at + 1]

\* The thread's top program goes on as a, after running the scripts progs,
\* the last of them first.
Goes(t, a, progs) ==
    stack' = [stack EXCEPT ![t] =
                Append(Below(t), a) \o [k \in 1 .. Len(progs) |-> Start(progs[k])]]

\* The thread's top program ends at once.
Dies(t) == stack' = [stack EXCEPT ![t] = Below(t)]

\* The file a program fetches.
FileOf(prog) ==
    CASE prog = "MD_Download" -> "master"
      [] prog = "SD_Download" -> "session"
      [] prog = "configname"  -> "config"

Blame(what) == spoiled' = spoiled \cup {what}

\* What steps of the threads leave alone.
outside == <<net, registered, counts>>

\* A message to the panel; the reset of the panel.
ShowMessage(t) ==
    /\ At(t, "show")
    /\ panel' = Apply(Command(t).changes, panel)
    /\ Goes(t, Onward(Top(t)), <<>>)
    /\ UNCHANGED <<line, globals, address, files, store, outside, idGiven, buttonAsId, spoiled>>

ResetPanel(t) ==
    /\ At(t, "reset")
    /\ panel' = PanelReset
    /\ Goes(t, Onward(Top(t)), <<>>)
    /\ UNCHANGED <<line, globals, address, files, store, outside, idGiven, buttonAsId, spoiled>>

SetGlobal(t) ==
    /\ At(t, "set")
    /\ globals' = globals \cup {Command(t).global}
    /\ Goes(t, Onward(Top(t)), <<>>)
    /\ UNCHANGED <<panel, line, address, files, store, outside, idGiven, buttonAsId, spoiled>>

RunProgram(t) ==
    /\ At(t, "run")
    /\ Goes(t, Onward(Top(t)), <<Command(t).prog>>)
    /\ UNCHANGED <<panel, line, globals, address, files, store, outside, idGiven, buttonAsId, spoiled>>

\* The top program returns to the one that ran it.  main does not return: at
\* its end it is in the clock loop.
Return(t) ==
    /\ AtEnd(t)
    /\ Top(t).prog # "main"
    /\ Dies(t)
    /\ UNCHANGED <<panel, line, globals, address, files, store, outside, idGiven, buttonAsId, spoiled>>

\* A slip: ping_fun's success branch falls into "return 0".
PingNeverDone(t) ==
    /\ At(t, "ping")
    /\ Goes(t, Top(t), <<IF ~net THEN "PingFail"
                         ELSE IF Top(t).prog = "wanconnect" THEN "WanPingOk"
                         ELSE "DownloadPingOk">>)
    /\ UNCHANGED <<panel, line, globals, address, files, store, outside, idGiven, buttonAsId, spoiled>>

\* ping_fun: it answers, and the program goes on; it does not, and the
\* program will ping again.  The download programs show a hint at one of the
\* failures.
Ping(t) ==
    /\ At(t, "ping")
    /\ LET a     == Top(t)
           fails == IF a.fails > CheckAt THEN a.fails ELSE a.fails + 1
           hint  == IF fails # CheckAt THEN <<>>
                    ELSE IF a.prog = "MD_Download" THEN <<"MDCheck">>
                    ELSE IF a.prog = "SD_Download" THEN <<"SDCheck">> ELSE <<>>
       IN  IF net
           THEN Goes(t, Onward(a), <<IF a.prog = "wanconnect" THEN "WanPingOk" ELSE "DownloadPingOk">>)
           ELSE Goes(t, [a EXCEPT !.fails = fails], hint \o <<"PingFail">>)
    /\ UNCHANGED <<panel, line, globals, address, files, store, outside, idGiven, buttonAsId, spoiled>>

\* fopen and fscanf of ipaddress.txt: a missing file ends the program.
ReadAddress(t) ==
    /\ At(t, "read_address")
    /\ IF address = "missing"
       THEN Dies(t) /\ Blame(FileOf(Top(t).prog))
       ELSE Goes(t, [Onward(Top(t)) EXCEPT !.addr = address], <<>>) /\ UNCHANGED spoiled
    /\ UNCHANGED <<panel, line, globals, address, files, store, outside, idGiven, buttonAsId>>

\* sys_call returns its own stack: when a reply came, the caller reads it,
\* reads something else, or dies.
AskCrc(t) ==
    /\ At(t, "ask_crc")
    /\ \/ \E crc \in IF net /\ Top(t).addr = "written" THEN BOOLEAN ELSE {FALSE} :
            /\ Goes(t, [Onward(Top(t)) EXCEPT !.crc = crc], <<>>)
            /\ IF crc THEN UNCHANGED spoiled ELSE Blame(FileOf(Top(t).prog))
       \/ Dies(t) /\ Blame(FileOf(Top(t).prog))
    /\ UNCHANGED <<panel, line, globals, address, files, store, outside, idGiven, buttonAsId>>

\* configname asks for its checksum without an address.  It closes the pipe
\* in the loop that reads it and reads on: when a reply came, it has it,
\* has something else, or dies.
AskConfigCrc(t) ==
    /\ At(t, "ask_config_crc")
    /\ \/ \E crc \in IF net THEN BOOLEAN ELSE {FALSE} :
            Goes(t, [Onward(Top(t)) EXCEPT !.crc = crc], <<>>) /\ UNCHANGED spoiled
       \/ net /\ Dies(t) /\ Blame("configname")
    /\ UNCHANGED <<panel, line, globals, address, files, store, outside, idGiven, buttonAsId>>

\* "curl ... > file": the shell empties the file first.
OpenFile(t) ==
    /\ At(t, "open")
    /\ files' = [files EXCEPT ![Command(t).file] =
                   [state |-> "bad", writers |-> @.writers \cup {t},
                    done |-> IF @.writers = {} THEN {} ELSE @.done]]
    /\ Goes(t, Onward(Top(t)), <<>>)
    /\ UNCHANGED <<panel, line, globals, address, store, outside, idGiven, buttonAsId, spoiled>>

\* ... and curl has filled it, or not.  What two writers that overlap leave
\* is what one of them wrote; if the file was removed meanwhile nothing is
\* left of it.
CloseFile(t) ==
    /\ At(t, "close")
    /\ LET file == Command(t).file
           good == net /\ Top(t).crc
           left == files[file].writers \ {t}
           done == files[file].done \cup {good}
       IN  /\ IF t \in files[file].writers
              THEN \E ok \in IF left = {} THEN done ELSE {FALSE} :
                     files' = [files EXCEPT ![file] =
                                 [state |-> IF ok THEN "whole" ELSE "bad", writers |-> left,
                                  done |-> IF left = {} THEN {} ELSE done]]
              ELSE UNCHANGED files
           /\ IF net \/ file = "config" THEN UNCHANGED spoiled ELSE Blame(file)
    /\ Goes(t, Onward(Top(t)), <<>>)
    /\ UNCHANGED <<panel, line, globals, address, store, outside, idGiven, buttonAsId>>

\* instancemd: fopen for writing, the answers of the server, fclose.
TruncateAddress(t) ==
    /\ At(t, "truncate_address")
    /\ address' = "empty"
    /\ Goes(t, Onward(Top(t)), <<>>)
    /\ UNCHANGED <<panel, line, globals, files, store, outside, idGiven, buttonAsId, spoiled>>

\* A slip: instancemd looks at its latest answer.
AskInstanceAnew(t) ==
    /\ At(t, "ask_instance")
    /\ \/ LET asked == [Top(t) EXCEPT !.reply = IF net /\ registered THEN "true" ELSE "false"]
          IN  /\ IF asked.reply = "true" THEN Goes(t, Onward(asked), <<>>)
                                         ELSE Goes(t, asked, <<"Invalid">>)
              /\ UNCHANGED spoiled
       \/ Dies(t) /\ Blame("instancemd")
    /\ UNCHANGED <<panel, line, globals, address, files, store, outside, idGiven, buttonAsId>>

\* Later answers are stored where they are not looked at: only the first
\* decides.  instancemd reads on from pipes it has closed, its own address's
\* each time, and puts more into instance_ip than it holds: what it read may
\* be something else, and it may die, the address's file still empty.
AskInstance(t) ==
    /\ At(t, "ask_instance")
    /\ \/ \E reply \in IF Top(t).reply # "none" THEN {Top(t).reply}
                       ELSE IF net /\ registered THEN {"true", "false"} ELSE {"false"} :
            LET asked == [Top(t) EXCEPT !.reply = reply]
            IN  /\ IF reply = "true" THEN Goes(t, Onward(asked), <<>>)
                                     ELSE Goes(t, asked, <<"Invalid">>)
                /\ UNCHANGED spoiled
       \/ Dies(t) /\ Blame("instancemd")
    /\ UNCHANGED <<panel, line, globals, address, files, store, outside, idGiven, buttonAsId>>

WriteAddress(t) ==
    /\ At(t, "write_address")
    /\ address' = "written"
    /\ Goes(t, Onward(Top(t)), <<>>)
    /\ UNCHANGED <<panel, line, globals, files, store, outside, idGiven, buttonAsId, spoiled>>

\* configname: rm -r download/*, rm /mnt/*, cp -r fingerprint/* /mnt/, and
\* the college name out of config.db.
RmDownloads(t) ==
    /\ At(t, "rm_downloads")
    /\ files' = [file \in Files |-> File("absent")]
    /\ Goes(t, Onward(Top(t)), <<>>)
    /\ UNCHANGED <<panel, line, globals, address, store, outside, idGiven, buttonAsId, spoiled>>

RmStore(t) ==
    /\ At(t, "rm_store")
    /\ store' = FALSE
    /\ Goes(t, Onward(Top(t)), <<>>)
    /\ UNCHANGED <<panel, line, globals, address, files, outside, idGiven, buttonAsId, spoiled>>

CpStore(t) ==
    /\ At(t, "cp_store")
    /\ store' = (files["config"].state = "whole")
    /\ Goes(t, Onward(Top(t)), <<>>)
    /\ UNCHANGED <<panel, line, globals, address, files, outside, idGiven, buttonAsId, spoiled>>

College(t) ==
    /\ At(t, "college")
    /\ panel' = [panel EXCEPT !.college = @ \/ files["config"].state = "whole"]
    /\ Goes(t, Onward(Top(t)), <<>>)
    /\ UNCHANGED <<line, globals, address, files, store, outside, idGiven, buttonAsId, spoiled>>

\* mlx_fingerprint_test takes a touch for verification only when it has
\* loaded a fingerprint; without one it waits for ever.
Touch(t) ==
    /\ At(t, "touch")
    /\ store
    /\ Goes(t, Onward(Top(t)), <<>>)
    /\ UNCHANGED <<panel, line, globals, address, files, store, outside, idGiven, buttonAsId, spoiled>>

\* After an accepted pass code: the copies of the sync messages.
ShowCopies(t) ==
    /\ At(t, "copies")
    /\ Goes(t, Onward(Top(t)), IF {"md", "sd"} \subseteq globals THEN <<"Copies">> ELSE <<>>)
    /\ UNCHANGED <<panel, line, globals, address, files, store, outside, idGiven, buttonAsId, spoiled>>

Step(t) ==
    \/ ShowMessage(t) \/ ResetPanel(t) \/ SetGlobal(t) \/ RunProgram(t) \/ Return(t) \/ Ping(t)
    \/ ReadAddress(t) \/ AskCrc(t) \/ AskConfigCrc(t) \/ OpenFile(t) \/ CloseFile(t)
    \/ TruncateAddress(t) \/ AskInstance(t) \/ WriteAddress(t)
    \/ RmDownloads(t) \/ RmStore(t) \/ CpStore(t) \/ College(t) \/ ShowCopies(t)

-----------------------------------------------------------------------------
\* strncmp of six bytes that are digits, not characters: a zero ends the
\* comparison.
Secret == <<1, 0, 1, 0, 1, 0>>
Equals(digits) ==
    \A k \in 1 .. 6 : (\A m \in 1 .. k - 1 : digits[m] # 0) => digits[k] = Secret[k]

\* The user ID the event thread reads out of a button frame.
ButtonDigits(num) == [k \in 1 .. 6 |-> IF k = 1 THEN num ELSE 0]

\* The case for a button has its break only when a window is selected;
\* without, it runs on into the case for a user ID.
FallsThrough(f) == f.type = "button" /\ "windown_selected" \notin globals

\* What handle_proto_data does with a frame.
Handler(f) ==
    CASE f.type = "user"     -> IF Equals(f.digits) THEN "UserValid" ELSE "UserInvalid"
      [] f.type = "password" -> IF Equals(f.digits) THEN "PassValid" ELSE "PassInvalid"
      [] FallsThrough(f)     -> IF Equals(ButtonDigits(f.num)) THEN "UserValid" ELSE "UserInvalid"
      [] OTHER -> IF "data_mode_selected" \notin globals THEN "Nothing"
                  ELSE <<"ButtonMD", "ButtonSD", "ButtonUser", "ButtonSOS">>[f.num + 1]

\* handle_proto_data of the oldest frame begins.
Handle ==
    /\ ~Running("uart")
    /\ line # <<>>
    /\ LET f == Head(line)
       IN  /\ stack' = [stack EXCEPT !["uart"] = <<Start(Handler(f))>>]
           /\ idGiven' = (idGiven \/ (f.type = "user" /\ Equals(f.digits)))
           /\ buttonAsId' = (buttonAsId \/ (FallsThrough(f) /\ Equals(ButtonDigits(f.num))))
    /\ line' = Tail(line)
    /\ UNCHANGED <<panel, globals, address, files, store, outside, spoiled>>

\* One more of what is bounded.
Counted(what) ==
    /\ \E b \in Budgets : \A other \in DOMAIN b :
         counts[other] + (IF other = what THEN 1 ELSE 0) <= b[other]
    /\ counts' = [counts EXCEPT ![what] = @ + 1]

\* The user presses or enters what the window shown asks for.
Input ==
    /\ \/ /\ panel.gui = "BUTTON"
          /\ \E num \in Buttons :
               /\ line' = Append(line, [type |-> "button", num |-> num])
               /\ Counted(IF num \in {0, 1} THEN "downloads" ELSE "inputs")
       \/ /\ panel.gui = "USER_INPUT"
          /\ \E d \in Digits : line' = Append(line, [type |-> "user", digits |-> d])
          /\ Counted("inputs")
       \/ /\ panel.gui = "PASSWORD_INPUT"
          /\ \E d \in Digits : line' = Append(line, [type |-> "password", digits |-> d])
          /\ Counted("inputs")
    /\ UNCHANGED <<stack, panel, globals, address, files, store, net, registered, idGiven,
                   buttonAsId, spoiled>>

NetChanges ==
    /\ Counted("changes")
    /\ net' = ~net
    /\ UNCHANGED <<stack, panel, line, globals, address, files, store, registered, idGiven,
                   buttonAsId, spoiled>>

\* "contact admin": the server comes to know the device.
Register ==
    /\ ~registered
    /\ registered' = TRUE
    /\ UNCHANGED <<stack, panel, line, globals, address, files, store, net, counts, idGiven,
                   buttonAsId, spoiled>>

\* Power fails and returns: only files survive.
PowerCut ==
    /\ Counted("cuts")
    /\ stack' = [main |-> <<Start("main")>>, uart |-> <<>>]
    /\ panel' = PanelReset
    /\ line' = <<>>
    /\ globals' = {}
    /\ files' = [file \in Files |-> File(files[file].state)]
    /\ idGiven' = FALSE /\ buttonAsId' = FALSE /\ spoiled' = {}
    /\ UNCHANGED <<address, store, net, registered>>

Next ==
    \/ \E t \in Threads : Step(t) \/ Touch(t)
    \/ Handle \/ Input \/ NetChanges \/ Register \/ PowerCut

Spec == Init /\ [][Next]_vars

\* Both threads are scheduled; a touch, a key press, the network and the
\* server's administrator may never come.
FairSpec == Spec /\ WF_vars(Step("main")) /\ WF_vars(Step("uart") \/ Handle)

-----------------------------------------------------------------------------
\* main at the end of the boot, in its clock loop.
AtClock == AtEnd("main") /\ Top("main").prog = "main"

\* instancemd has been turned away by the server.
Rejected == \E i \in 1 .. Len(stack["main"]) : stack["main"][i].reply = "false"

(***************************************************************************)
(* Safety.                                                                 *)
(***************************************************************************)

\* Nobody reaches the pass code window, or the message that follows a right
\* pass code, before a right user ID -- except through the button that is
\* read as a user ID because it was pressed before main had selected the
\* window (the break inside the condition, syslcd.c:354): the SD button then
\* is a right user ID.
AuthNeedsUserId ==
    panel.gui = "PASSWORD_INPUT" \/ panel.line1 = "Authentication Successful"
        => idGiven \/ buttonAsId

\* Once main has noted a download as done, its file is whole unless someone
\* is writing it or something went wrong with fetching it since power-on: the
\* network was away, the address was read between instancemd's fopen and
\* fclose, or sys_call's reply was lost.  Neither the order of main's
\* programs (configname removes every download) nor a press of the button at
\* any moment damages it alone.
FetchedOrBlamed ==
    \A done \in {<<"md", "master">>, <<"sd", "session">>} :
        done[1] \in globals /\ files[done[2]].writers = {} /\ files[done[2]].state # "whole"
            => done[2] \in spoiled

\* main's own downloads find the address that instancemd wrote, whatever the
\* power did between instancemd's fopen and fclose in an earlier boot, unless
\* instancemd died in between in this one.
MainFindsAddress ==
    At("main", "read_address") => address = "written" \/ "instancemd" \in spoiled

\* The boot reaches the clock loop only with a fingerprint, since the program
\* that main waits for verifies nothing without one; and, unless configname
\* died before it emptied /mnt, only when the configuration was fetched whole.
ClockMeansConfigured ==
    AtClock => store /\ (panel.college \/ "configname" \in spoiled)

(***************************************************************************)
(* Action property.                                                        *)
(***************************************************************************)

\* A device once turned away stays so until the power is cut or instancemd
\* dies, whatever the server comes to know: instancemd asks on, but stores
\* every later answer where it does not look (i is 4 after the loop at
\* instancemd.c:73).
RejectedForever ==
    [][Rejected => \/ Rejected'
                   \/ "instancemd" \in spoiled'
                   \/ counts'.cuts > counts.cuts]_vars

(***************************************************************************)
(* Liveness.                                                               *)
(***************************************************************************)

\* With a network that stays, the boot ends for good: in the clock loop, in
\* front of the fingerprint sensor, or turned away; and the event thread has
\* answered everything the user sent and waits for more.
BootSettles ==
    <>[]net => <>[]( /\ AtClock \/ At("main", "touch") \/ Rejected
                     /\ ~Running("uart") /\ line = <<>>)

\* With a network that stays, the panel says so in the end, and goes on
\* saying so: no failure message, LED 3 green and not red, in whatever order
\* the commands of the two threads' programs, which may both be switching
\* its colours, reach it.
NetworkShown ==
    <>[]net => <>[](/\ panel.line1 # "Network Not Connected..."
                    /\ panel.red = "off" /\ panel.green = "on")
=============================================================================
