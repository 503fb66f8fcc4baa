-------------------------------- MODULE NetUi --------------------------------
(***************************************************************************)
(* The Wi-Fi page (gui/prp_net_ui.c) over PrpNet: it forks prp-net, looks  *)
(* every 500 ms whether the process it follows has ended, and then reads   *)
(* the answer file; after too many looks it gives up and leaves the        *)
(* process running.  Neither that nor closing the page stops the user from *)
(* starting the next process beside it.  Password, SSID and layout are left*)
(* out, and so is the simulator's mock, which forks nothing.               *)
(***************************************************************************)
EXTENDS PrpNet

CONSTANTS
  ScanTicks,     \* looks before "Scan timed out" (24 in the code)
  ConnectTicks   \* looks before "Connection timed out" (60 in the code)

ASSUME PageAssumption == /\ ScanTicks \in Nat
                         /\ ConnectTicks \in Nat

VARIABLES
  overlay,       \* is the page open (N.overlay)?
  ccShown,       \* is the region selector visible?
  networks,      \* does the dropdown hold networks to pick from?
  status,        \* N.status
  connected,     \* N.connected
  scanTimer, scanPid, scanTicks,
  connectTimer, connectPid, connectTicks,
  before         \* history: the processes of a kind that had ended when the page
                 \* last removed the answer file of that kind

scanVars == <<scanTimer, scanPid, scanTicks>>
connectVars == <<connectTimer, connectPid, connectTicks>>
pageVars == <<overlay, ccShown, networks, status, connected>>
vars == <<netVars, scanVars, connectVars, pageVars, before>>

Statuses == {"", "not connected", "scanning", "found", "no networks",
             "scan timed out", "pick first", "connecting", "connected",
             "need region", "check password", "timed out", "could not start"}

Init == /\ NetInit
        /\ overlay = FALSE /\ ccShown = FALSE /\ networks = FALSE
        /\ status = "" /\ connected = FALSE
        /\ scanTimer = FALSE /\ scanPid = NoJob /\ scanTicks = 0
        /\ connectTimer = FALSE /\ connectPid = NoJob /\ connectTicks = 0
        /\ before = [k \in Kinds |-> {}]

Note(k) ==
  before' = [before EXCEPT ![k] = {p \in Jobs : kind[p] = k /\ at[p] = "exit"}]

-----------------------------------------------------------------------------
(* Scan. *)

UnlinkScan == /\ scanFile' = "absent"
              /\ scanOut' = {}
              /\ UNCHANGED statusFile

\* do_scan: forks, or says that it could not.
DoScan(p) ==
  /\ ~scanTimer
  /\ UnlinkScan
  /\ Note("scan")
  /\ \/ /\ Fork(p, "scan")
        /\ scanTimer' = TRUE /\ scanPid' = p /\ scanTicks' = 0
        /\ status' = "scanning"
     \/ /\ scanPid' = NoJob
        /\ status' = "could not start"
        /\ UNCHANGED <<scanTimer, scanTicks, jobVars>>
  /\ UNCHANGED <<radioVars, country, connectVars, connected>>

\* prp_net_ui_show opens a page with an empty list and scans at once.
Show(p) == /\ ~overlay
           /\ overlay' = TRUE
           /\ ccShown' = FALSE
           /\ networks' = FALSE
           /\ DoScan(p)

ScanBtn(p) == /\ overlay
              /\ DoScan(p)
              /\ UNCHANGED <<overlay, ccShown, networks>>

StopScan == scanTimer' = FALSE /\ scanPid' = NoJob /\ UNCHANGED scanTicks

\* scan_poll: the process has ended, so its file is read.
ScanPoll == /\ scanTimer
            /\ at[scanPid] = "exit"
            /\ StopScan
            /\ networks' = (scanFile = "list")
            /\ status' = IF scanFile = "list" THEN "found" ELSE "no networks"
            /\ UNCHANGED <<overlay, ccShown, connected, connectVars, netVars,
                           before>>

\* scan_poll: it has not.
ScanTick == /\ scanTimer
            /\ at[scanPid] # "exit"
            /\ \/ /\ scanTicks < ScanTicks
                  /\ scanTicks' = scanTicks + 1
                  /\ UNCHANGED <<scanTimer, scanPid, status>>
               \/ /\ scanTicks >= ScanTicks
                  /\ StopScan
                  /\ status' = "scan timed out"
            /\ UNCHANGED <<overlay, ccShown, networks, connected, connectVars,
                           netVars, before>>

-----------------------------------------------------------------------------
(* Connect. *)

PickFirst == /\ overlay
             /\ ~networks
             /\ status' = "pick first"
             /\ UNCHANGED <<overlay, ccShown, networks, connected, scanVars,
                            connectVars, netVars, before>>

\* connect_btn_cb persists the picked region even when it starts nothing.
PickRegion(picked) == /\ picked => ccShown
                      /\ IF picked THEN SetCountry ELSE UNCHANGED country

ConnectBusy == /\ overlay /\ networks /\ connectTimer
               /\ \E picked \in BOOLEAN : PickRegion(picked)
               /\ UNCHANGED <<jobVars, fileVars, radioVars, pageVars, scanVars,
                              connectVars, before>>

\* (mutant of UnlinkStatus) the answer to the last request is left in place.
StatusKept == UNCHANGED fileVars

UnlinkStatus == /\ statusFile' = "absent"
                /\ UNCHANGED <<scanFile, scanOut>>

ConnectBtn(p) ==
  /\ overlay /\ networks /\ ~connectTimer
  /\ \E picked \in BOOLEAN : PickRegion(picked)
  /\ UnlinkStatus
  /\ Note("connect")
  /\ \/ /\ Fork(p, "connect")
        /\ connectTimer' = TRUE /\ connectPid' = p /\ connectTicks' = 0
        /\ status' = "connecting"
     \/ /\ connectPid' = NoJob
        /\ status' = "could not start"
        /\ UNCHANGED <<connectTimer, connectTicks, jobVars>>
  /\ UNCHANGED <<radioVars, overlay, ccShown, networks, connected, scanVars>>

StopConnect ==
  connectTimer' = FALSE /\ connectPid' = NoJob /\ UNCHANGED connectTicks

\* What the page makes of the answer file.  When there is none the buffer is
\* compared uninitialised: either branch may be taken.
ReadAnswer ==
  \/ /\ statusFile = "ok"
     /\ connected' = TRUE /\ status' = "connected"
     /\ UNCHANGED ccShown
  \/ /\ statusFile \in {"need-country", "absent"}
     /\ ccShown' = TRUE /\ status' = "need region"
     /\ UNCHANGED connected
  \/ /\ statusFile \in {"fail", "empty", "absent"}
     /\ status' = "check password"
     /\ UNCHANGED <<connected, ccShown>>

ConnectPoll == /\ connectTimer
               /\ at[connectPid] = "exit"
               /\ StopConnect
               /\ ReadAnswer
               /\ UNCHANGED <<overlay, networks, scanVars, netVars, before>>

\* (mutant of ConnectTick) the looks are not counted.
ConnectTickUncounted == /\ connectTimer
                        /\ at[connectPid] # "exit"
                        /\ UNCHANGED vars

ConnectTick == /\ connectTimer
               /\ at[connectPid] # "exit"
               /\ \/ /\ connectTicks < ConnectTicks
                     /\ connectTicks' = connectTicks + 1
                     /\ UNCHANGED <<connectTimer, connectPid, status>>
                  \/ /\ connectTicks >= ConnectTicks
                     /\ StopConnect
                     /\ status' = "timed out"
               /\ UNCHANGED <<overlay, ccShown, networks, connected, scanVars,
                              netVars, before>>

\* net_close: the timers go, the processes stay.
NetClose == /\ overlay
            /\ overlay' = FALSE
            /\ scanTimer' = FALSE
            /\ connectTimer' = FALSE
            /\ UNCHANGED <<scanPid, scanTicks, connectPid, connectTicks, ccShown,
                           networks, status, connected, netVars, before>>

-----------------------------------------------------------------------------
Next == \/ \E p \in Jobs : Show(p) \/ ScanBtn(p) \/ ConnectBtn(p)
        \/ ScanPoll \/ ScanTick
        \/ PickFirst \/ ConnectBusy \/ ConnectPoll \/ ConnectTick
        \/ NetClose
        \/ /\ Join \/ Drop \/ \E p \in Jobs : JobStep(p)
           /\ UNCHANGED <<scanVars, connectVars, pageVars, before>>

Spec == Init /\ [][Next]_vars

\* LVGL calls a live timer again and again.  A process may hang for ever: that
\* is what the timeouts are for.
FairSpec == /\ Spec
            /\ WF_vars(ScanPoll \/ ScanTick)
            /\ WF_vars(ConnectPoll \/ ConnectTick)

-----------------------------------------------------------------------------
(* Properties. *)

\* Every variable holds a value of its type.
TypeOK == /\ NetTypeOK
          /\ {overlay, ccShown, networks, connected} \subseteq BOOLEAN
          /\ status \in Statuses
          /\ {scanTimer, connectTimer} \subseteq BOOLEAN
          /\ {scanPid, connectPid} \subseteq Jobs \cup {NoJob}
          /\ scanTicks \in 0 .. ScanTicks
          /\ connectTicks \in 0 .. ConnectTicks
          /\ before \in [Kinds -> SUBSET Jobs]

\* The page starts to say "Connected", or to show networks, only on the word
\* of a process that had not ended when the page removed the answer file for
\* this request: never on an answer from before it, although the process it
\* waited for may have died unheard and older ones still write.
VerdictIsFresh ==
  [][/\ status' = "connected" /\ status # "connected" =>
          \E p \in Jobs \ before["connect"] : kind[p] = "connect" /\ said[p] = "ok"
     /\ status' = "found" /\ status # "found" =>
          \E p \in Jobs \ before["scan"] : kind[p] = "scan" /\ said[p] = "list"]_vars

\* A connect says "ok" only on an address handed out by its own udhcpc or by a
\* later one, never on an address left by the network before: whatever other
\* connects and lost links do to the radio in between.
OkRestsOnLease == \A p \in Jobs : said[p] = "ok" => p \in granted

\* "Scanning" and "Connecting" end even when the process hangs.
BusyEnds == /\ scanTimer ~> ~scanTimer
            /\ connectTimer ~> ~connectTimer
=============================================================================
