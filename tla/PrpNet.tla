------------------------------- MODULE PrpNet -------------------------------
(***************************************************************************)
(* prp-net (initramfs/rootfs/usr/bin/prp-net): the processes `prp-net scan`*)
(* and `prp-net connect` that the Wi-Fi page forks, the two files in /tmp  *)
(* they answer through, and the one radio they share.  Nothing stops two   *)
(* of them from running at once.                                           *)
(***************************************************************************)
EXTENDS Naturals

CONSTANTS
  MaxJobs,      \* bound: how many prp-net processes the page forks
  ChildMayDie   \* may a process end (failed exec, OOM) before it has answered?

ASSUME JobsAssumption == /\ MaxJobs \in Nat \ {0}
                         /\ ChildMayDie \in BOOLEAN

VARIABLES
  kind,        \* kind[p]: "scan" or "connect"
  at,          \* at[p]: how far process p has come
  region,      \* region[p]: did p find a regulatory country when it started?
  said,        \* said[p]: the answer p has given
  statusFile,  \* /tmp/prp-net-status: absent, or its first word
  scanFile,    \* /tmp/prp-net-scan: absent, empty or a list
  scanOut,     \* the scans whose open output is the current scan file
  radio,       \* the process whose network block wpa_supplicant holds, or 0
  assoc,       \* is the radio associated (wpa_state COMPLETED)?
  addr,        \* has the interface an IPv4 address?
  granted,     \* history: the connects since whose own udhcpc a lease was had
  country      \* does /etc/prp/wifi-country exist?

jobVars == <<kind, at, region, said>>
fileVars == <<statusFile, scanFile, scanOut>>
radioVars == <<radio, assoc, addr, granted>>
netVars == <<jobVars, fileVars, radioVars, country>>

Jobs == 1 .. MaxJobs
NoJob == 0
Kinds == {"scan", "connect"}
Places == {"none", "start", "ready", "wait", "dhcp", "lease", "filter", "exit"}
Answers == {"nothing", "ok", "need-country", "fail", "list"}

NetTypeOK ==
  /\ kind \in [Jobs -> Kinds]
  /\ at \in [Jobs -> Places]
  /\ region \in [Jobs -> BOOLEAN]
  /\ said \in [Jobs -> Answers]
  /\ statusFile \in {"absent", "empty", "ok", "need-country", "fail"}
  /\ scanFile \in {"absent", "empty", "list"}
  /\ scanOut \subseteq Jobs
  /\ radio \in Jobs \cup {NoJob}
  /\ assoc \in BOOLEAN
  /\ addr \in BOOLEAN
  /\ granted \subseteq Jobs
  /\ country \in BOOLEAN

NetInit ==
  /\ kind = [p \in Jobs |-> "scan"]
  /\ at = [p \in Jobs |-> "none"]
  /\ region = [p \in Jobs |-> FALSE]
  /\ said = [p \in Jobs |-> "nothing"]
  /\ statusFile = "absent"
  /\ scanFile = "absent"
  /\ scanOut = {}
  /\ radio = NoJob
  /\ assoc = FALSE
  /\ addr = FALSE
  /\ granted = {}
  /\ country = FALSE

Running(p) == at[p] \notin {"none", "exit"}

\* The lowest number not yet used names the next process.
Fresh(p) == at[p] = "none" /\ \A q \in Jobs : q < p => at[q] # "none"

Fork(p, k) == /\ Fresh(p)
              /\ at' = [at EXCEPT ![p] = "start"]
              /\ kind' = [kind EXCEPT ![p] = k]
              /\ UNCHANGED <<region, said>>

-----------------------------------------------------------------------------
Step(p, k, from, to) == /\ kind[p] = k
                        /\ at[p] = from
                        /\ at' = [at EXCEPT ![p] = to]
                        /\ UNCHANGED kind

\* echo "<answer>" >"$STATUS_OUT", then return.
Answer(p, from, answer) == /\ Step(p, "connect", from, "exit")
                           /\ said' = [said EXCEPT ![p] = answer]
                           /\ statusFile' = answer
                           /\ UNCHANGED <<region, scanFile, scanOut>>

\* The country is read when the script starts; the answer file is emptied.
ReadCountry(p) == /\ region' = [region EXCEPT ![p] = country]
                  /\ UNCHANGED <<said, scanOut, radioVars, country>>

BeginConnect(p) == /\ Step(p, "connect", "start", "ready")
                   /\ ReadCountry(p)
                   /\ statusFile' = "empty"
                   /\ UNCHANGED scanFile

BeginScan(p) == /\ Step(p, "scan", "start", "ready")
                /\ ReadCountry(p)
                /\ scanFile' = "empty"
                /\ UNCHANGED statusFile

\* No interface, or wpa_supplicant does not come up.
ConnectNoRadio(p) == /\ Answer(p, "ready", "fail")
                     /\ UNCHANGED <<radioVars, country>>
ScanNoRadio(p) == /\ Step(p, "scan", "ready", "exit")
                  /\ UNCHANGED <<region, said, fileVars, radioVars, country>>

\* Every network is removed before the new one is added and enabled.
Tune(p) == /\ Step(p, "connect", "ready", "wait")
           /\ radio' = p
           /\ assoc' = FALSE
           /\ UNCHANGED <<region, said, fileVars, addr, granted, country>>

\* wpa_state is the interface's, whichever process configured the network.
SeeJoined(p) == /\ assoc
                /\ Step(p, "connect", "wait", "dhcp")
                /\ UNCHANGED <<region, said, fileVars, radioVars, country>>

GiveUp(p) == /\ ~assoc
             /\ Answer(p, "wait", "fail")
             /\ UNCHANGED <<radioVars, country>>

\* (mutant of Lease) the script has no deconfig branch.
LeaseKept(leased) == /\ addr' = (leased \/ addr)
                     /\ granted' = IF leased
                                   THEN granted \cup {q \in Jobs : at'[q] = "lease"}
                                   ELSE granted

\* The script of udhcpc flushes the address, and sets one when there is a lease.
Lease(leased) == /\ addr' = leased
                 /\ granted' = IF leased
                               THEN granted \cup {q \in Jobs : at'[q] = "lease"}
                               ELSE granted

Dhcp(p) == /\ Step(p, "connect", "dhcp", "lease")
           /\ \E leased \in BOOLEAN : (leased => assoc) /\ Lease(leased)
           /\ UNCHANGED <<region, said, fileVars, radio, assoc, country>>

\* Without an address on a 5 GHz channel the missing country is to blame.
Report(p) ==
  /\ \/ addr /\ Answer(p, "lease", "ok")
     \/ ~addr /\ Answer(p, "lease", "fail")
     \/ ~addr /\ assoc /\ ~region[p] /\ Answer(p, "lease", "need-country")
  /\ UNCHANGED <<radioVars, country>>

\* `... >"$SCAN_OUT"`: the file is emptied when the pipeline starts and filled
\* when sort has seen all of its input.
FilterScan(p) == /\ Step(p, "scan", "ready", "filter")
                 /\ scanFile' = "empty"
                 /\ scanOut' = scanOut \cup {p}
                 /\ UNCHANGED <<region, said, statusFile, radioVars, country>>

WriteScan(p) ==
  /\ Step(p, "scan", "filter", "exit")
  /\ \E found \in {"nothing", "list"} :
       /\ said' = [said EXCEPT ![p] = found]
       /\ scanFile' = IF p \in scanOut /\ found = "list" THEN "list" ELSE scanFile
  /\ UNCHANGED <<region, statusFile, scanOut, radioVars, country>>

Die(p) == /\ ChildMayDie
          /\ Running(p)
          /\ at' = [at EXCEPT ![p] = "exit"]
          /\ UNCHANGED <<kind, region, said, fileVars, radioVars, country>>

JobStep(p) == \/ BeginConnect(p) \/ BeginScan(p)
              \/ ConnectNoRadio(p) \/ ScanNoRadio(p)
              \/ Tune(p) \/ SeeJoined(p) \/ GiveUp(p) \/ Dhcp(p) \/ Report(p)
              \/ FilterScan(p) \/ WriteScan(p)
              \/ Die(p)

\* The access point accepts the network block that wpa_supplicant holds, and
\* the link may be lost again; the interface keeps its address then.
Join == /\ radio # NoJob
        /\ ~assoc
        /\ assoc' = TRUE
        /\ UNCHANGED <<jobVars, fileVars, radio, addr, granted, country>>

Drop == /\ assoc
        /\ assoc' = FALSE
        /\ UNCHANGED <<jobVars, fileVars, radio, addr, granted, country>>

\* `prp-net set-country`, which the page waits for.
SetCountry == country' = TRUE
=============================================================================
