------------------------------ MODULE Programs ------------------------------
(***************************************************************************)
(* The device's programs as straight-line scripts: what each sends to the  *)
(* panel and what it does to files and to other programs, in the order of  *)
(* the code.  Sleeps, logging, the building of URLs and the icons (which   *)
(* decorate the messages) are left out.                                    *)
(*                                                                         *)
(* The panel is an external board reached through mlx_proto_*: a command   *)
(* overwrites what it names and nothing else.  One step of a script shows  *)
(* one message: the blanking of the lines around it belongs to it.         *)
(***************************************************************************)
EXTENDS Integers, Sequences

\* Commands: change what the panel shows, to the values of a record; run
\* another program and wait for it; set a global of syslcd; empty a file and
\* fill it; the rest have no argument.
Show(changes) == [op |-> "show", changes |-> changes]
Run(prog)     == [op |-> "run", prog |-> prog]
Set(global)   == [op |-> "set", global |-> global]
Open(file)    == [op |-> "open", file |-> file]
Close(file)   == [op |-> "close", file |-> file]
Do(op)        == [op |-> op]

\* Slips the properties must notice: LED 3 told to blink, as LED 1 is; its red
\* left as a failure set it; the address never closed and so never written;
\* a sensor that is not waited for; the downloads before the connection; the
\* wrong window after a wrong user ID.
WanPingOkBlink ==
    <<Show([line1 |-> "Network Connected"]), Show([red |-> "off"]), Show([green |-> "off"]),
      Show([green |-> "blink"]), Show([line1 |-> ""])>>

DownloadPingOkRedStays ==
    <<Show([green |-> "off"]), Show([green |-> "on"]), Show([line1 |-> ""])>>

InstancemdUnclosed ==
    <<Do("truncate_address"), Do("ask_instance"), Show([line1 |-> "Valid IntelliSYS"])>>

FingerprintNoWait ==
    <<Show([line1 |-> "Please Authenticate-Principal"]),
      Show([line1 |-> "Authentication successful"])>>

MainDownloadsFirst ==
    <<Do("reset"), Set("windown_selected"), Set("data_mode_selected"),
      Show([gui |-> "LOGO"]), Show([gui |-> "MAIN"]), Show([gui |-> "BUTTON"]),
      Run("MD_Download"), Set("md"), Run("wanconnect"),
      Show([line1 |-> "", gui |-> "BUTTON"]), Run("SD_Download"), Set("sd"),
      Run("mlx_fingerprint_test"), Show([line1 |-> ""])>>

UserInvalidWindow ==
    <<Show([line1 |-> "Invalid User ID-Principal"]),
      Show([line1 |-> "Enter User ID-Principal", line2 |-> "", line3 |-> ""]),
      Show([gui |-> "PASSWORD_INPUT"])>>

(***************************************************************************)
(* ping_fun of wanconnect and of the two download programs: the success    *)
(* branches differ, the failure branches do not.  LED 3 has two colours,   *)
(* and each is switched by a program of its own, mlx_comm_test -l.         *)
(***************************************************************************)
WanPingOk ==
    <<Show([line1 |-> "Network Connected"]),
      Show([red |-> "off"]), Show([green |-> "off"]), Show([green |-> "on"]),
      Show([line1 |-> ""])>>

DownloadPingOk ==
    <<Show([red |-> "off"]), Show([green |-> "off"]), Show([green |-> "on"]),
      Show([line1 |-> ""])>>

PingFail ==
    <<Show([line1 |-> "Network Not Connected..."]),
      Show([green |-> "off"]), Show([red |-> "off"]), Show([red |-> "on"])>>

(***************************************************************************)
(* MD_Download and SD_Download: read the address once, ping until it       *)
(* answers, ask for the checksum of the file, fetch the file, and show     *)
(* that it was synced.                                                     *)
(***************************************************************************)
MDDownload ==
    <<Do("read_address"), Do("ping"),
      Show([line1 |-> "", line2 |-> "Master Data Syncing...", line3 |-> ""]),
      Do("ask_crc"), Open("master"), Close("master"),
      Show([line2 |-> "Master Data Synced with KenCloud"])>>

SDDownload ==
    <<Do("read_address"), Do("ping"),
      Show([line1 |-> "", line3 |-> "Session Data Syncing..."]),
      Do("ask_crc"), Open("session"), Close("session"),
      Show([line3 |-> "Session Data Synced with KenCloud"])>>

\* What is shown at one of the failed pings (CheckAt).
MDCheck == <<Show([line2 |-> "Check connectivity"])>>
SDCheck == <<Show([line3 |-> "Check connectivity"])>>

(***************************************************************************)
(* wanconnect and the three programs it runs.                              *)
(***************************************************************************)
Wanconnect ==
    <<Show([line1 |-> ""]), Do("ping"), Run("instancemd"), Run("configname"),
      Do("ping"), Run("synctime"), Show([line1 |-> "Time Synced with KenCloud"]),
      Show([line1 |-> "Geo Location Authenticated"]), Show([line1 |-> ""])>>

\* The address goes into a buffered file that is closed, and so written,
\* only after the message.
Instancemd ==
    <<Do("truncate_address"), Do("ask_instance"),
      Show([line1 |-> "Valid IntelliSYS"]), Do("write_address")>>

Invalid == <<Show([line1 |-> "Invalid IntelliSYS,contact admin"])>>

\* The fingerprint store is emptied whether or not there is anything to
\* fill it with.
Configname ==
    <<Do("ask_config_crc"), Do("rm_downloads"), Open("config"), Close("config"),
      Do("rm_store"), Do("cp_store"), Do("college")>>

\* The time goes to the panel's clock, which is no part of this module.
Synctime == <<>>

\* mlx_fingerprint_test, seen from main: it ends itself after the first
\* touch it verifies, whether or not the finger matched.
Fingerprint ==
    <<Show([line1 |-> "Please Authenticate-Principal"]), Do("touch"),
      Show([line1 |-> "Authentication successful"])>>

(***************************************************************************)
(* main of syslcd up to its clock loop, and the handler of its event       *)
(* thread, one script for each way through handle_proto_data that does     *)
(* anything to the panel.                                                  *)
(***************************************************************************)
Main ==
    <<Do("reset"), Set("windown_selected"), Set("data_mode_selected"),
      Show([gui |-> "LOGO"]), Show([gui |-> "MAIN"]), Show([gui |-> "BUTTON"]),
      Run("wanconnect"), Show([line1 |-> "", gui |-> "BUTTON"]),
      Run("MD_Download"), Set("md"), Run("SD_Download"), Set("sd"),
      Run("mlx_fingerprint_test"), Show([line1 |-> ""])>>

ButtonMD   == <<Show([line1 |-> "", line2 |-> "", line3 |-> ""]), Run("MD_Download")>>
ButtonSD   == <<Show([line1 |-> "", line3 |-> ""]), Run("SD_Download")>>
ButtonUser ==
    <<Show([line1 |-> "Enter User ID-Principal", line2 |-> "", line3 |-> ""]),
      Show([gui |-> "USER_INPUT"])>>
ButtonSOS  ==
    <<Show([line1 |-> "", line2 |-> "SOS Sent to Authorised Person", line3 |-> ""])>>

UserValid ==
    <<Show([line1 |-> "Valid User ID-Principal"]),
      Show([line1 |-> "Enter Pass Code-Principal", line2 |-> "", line3 |-> ""]),
      Show([gui |-> "PASSWORD_INPUT"])>>
UserInvalid ==
    <<Show([line1 |-> "Invalid User ID-Principal"]),
      Show([line1 |-> "Enter User ID-Principal", line2 |-> "", line3 |-> ""]),
      Show([gui |-> "USER_INPUT"])>>

\* Leaving the pass code window shows the button window it was opened from.
PassValid ==
    <<Show([line1 |-> "Authentication Successful"]), Show([line1 |-> ""]),
      Show([gui |-> "BUTTON"]), Do("copies")>>
Copies ==
    <<Show([line2 |-> "Master Data Synced with Kencloud"]),
      Show([line3 |-> "Session Data Synced with Kencloud"])>>
PassInvalid ==
    <<Show([line1 |-> "Invalid Pass Code-Principal"]),
      Show([line1 |-> "Enter Pass Code-Principal", line2 |-> "", line3 |-> ""]),
      Show([gui |-> "PASSWORD_INPUT"])>>

\* Every script by its name.
Script ==
    [main |-> Main, wanconnect |-> Wanconnect, instancemd |-> Instancemd,
     configname |-> Configname, synctime |-> Synctime,
     MD_Download |-> MDDownload, SD_Download |-> SDDownload,
     mlx_fingerprint_test |-> Fingerprint,
     WanPingOk |-> WanPingOk, DownloadPingOk |-> DownloadPingOk, PingFail |-> PingFail,
     MDCheck |-> MDCheck, SDCheck |-> SDCheck, Invalid |-> Invalid,
     ButtonMD |-> ButtonMD, ButtonSD |-> ButtonSD, ButtonUser |-> ButtonUser,
     ButtonSOS |-> ButtonSOS, Nothing |-> <<>>,
     UserValid |-> UserValid, UserInvalid |-> UserInvalid,
     PassValid |-> PassValid, PassInvalid |-> PassInvalid, Copies |-> Copies]

ProgramNames == DOMAIN Script

-----------------------------------------------------------------------------
\* The panel: three text lines, the window, the colours of LED 3 and the
\* college name.
PanelReset == [line1 |-> "", line2 |-> "", line3 |-> "", gui |-> "NONE",
               red |-> "off", green |-> "off", college |-> FALSE]

\* The panel after some of it changed.
Apply(changes, panel) ==
    [part \in DOMAIN panel |-> IF part \in DOMAIN changes THEN changes[part] ELSE panel[part]]
=============================================================================
