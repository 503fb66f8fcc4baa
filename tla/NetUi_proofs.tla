---------------------------- MODULE NetUi_proofs ----------------------------
(***************************************************************************)
(* Proofs about the Wi-Fi page over prp-net, for every number of processes *)
(* that run beside one another and every patience of the page: whose       *)
(* answers the page may show, and on what address a connect says "ok".     *)
(***************************************************************************)
EXTENDS NetUi, TLAPS

-----------------------------------------------------------------------------
(* The inductive invariant.                                                *)

\* A process speaks with its last step, and is silent ever after.
SpeaksLast == \A p \in Jobs : said[p] # "nothing" => at[p] = "exit"

\* What had ended when an answer file was removed has ended for good.
BeforeEnded == \A k \in Kinds : \A p \in before[k] : at[p] = "exit"

\* An address that is there when p is about to report was handed out by p's
\* own udhcpc or a later one: its script has flushed whatever was there.
LeaseInv == \A p \in Jobs : at[p] = "lease" /\ addr => p \in granted

\* The answer files hold what a process wrote after they were removed.
StatusInv == statusFile = "ok" => \E p \in Jobs \ before["connect"] :
                                    kind[p] = "connect" /\ said[p] = "ok"
ScanInv == scanFile = "list" => \E p \in Jobs \ before["scan"] :
                                  kind[p] = "scan" /\ said[p] = "list"

NetInv == SpeaksLast /\ BeforeEnded /\ LeaseInv /\ OkRestsOnLease /\ StatusInv
          /\ ScanInv

-----------------------------------------------------------------------------
(* Types. *)

\* A process that is forked, or takes a step, stays a process.
LEMMA ForkType ==
  ASSUME TypeOK, NEW p \in Jobs, NEW k \in Kinds, Fork(p, k)
  PROVE  /\ kind' \in [Jobs -> Kinds] /\ at' \in [Jobs -> Places]
         /\ region' \in [Jobs -> BOOLEAN] /\ said' \in [Jobs -> Answers]
  BY DEF TypeOK, NetTypeOK, Fork, Kinds, Places

LEMMA StepType ==
  ASSUME TypeOK, NEW p \in Jobs, NEW k, NEW from, NEW to \in Places,
         Step(p, k, from, to)
  PROVE  kind' \in [Jobs -> Kinds] /\ at' \in [Jobs -> Places]
  BY DEF TypeOK, NetTypeOK, Step

\* The looks, from none to the last.
LEMMA NoTicks == 0 \in 0 .. ScanTicks /\ 0 \in 0 .. ConnectTicks
  BY PageAssumption

LEMMA OneMoreTick ==
  ASSUME NEW bound \in Nat, NEW n \in 0 .. bound, n < bound
  PROVE  n + 1 \in 0 .. bound
  OBVIOUS

LEMMA InitType == Init => TypeOK
  <1> SUFFICES ASSUME Init PROVE TypeOK
    OBVIOUS
  <1>1. NetTypeOK
    BY DEF Init, NetInit, NetTypeOK, Kinds, Places, Answers, NoJob
  <1>2. scanTicks \in 0 .. ScanTicks /\ connectTicks \in 0 .. ConnectTicks
    <2>1. scanTicks = 0 /\ connectTicks = 0
      BY DEF Init
    <2>2. QED
      BY <2>1, NoTicks
  <1>3. status \in Statuses
    BY DEF Init, Statuses
  <1>4. before \in [Kinds -> SUBSET Jobs]
    BY DEF Init
  <1>5. QED
    BY <1>1, <1>2, <1>3, <1>4 DEF Init, TypeOK

LEMMA JobStepType ==
  ASSUME TypeOK, NEW p \in Jobs, JobStep(p)
  PROVE  NetTypeOK'
  <1>1. CASE BeginConnect(p)
    BY <1>1, StepType
    DEF TypeOK, NetTypeOK, BeginConnect, Places, Answers, fileVars, radioVars, ReadCountry
  <1>2. CASE BeginScan(p)
    BY <1>2, StepType
    DEF TypeOK, NetTypeOK, BeginScan, Places, Answers, fileVars, radioVars, ReadCountry
  <1>3. CASE ConnectNoRadio(p)
    BY <1>3, StepType
    DEF TypeOK, NetTypeOK, ConnectNoRadio, Places, Answers, fileVars, radioVars, Answer
  <1>4. CASE ScanNoRadio(p)
    BY <1>4, StepType
    DEF TypeOK, NetTypeOK, ScanNoRadio, Places, Answers, fileVars, radioVars
  <1>5. CASE Tune(p)
    BY <1>5, StepType
    DEF TypeOK, NetTypeOK, Tune, Places, Answers, fileVars, radioVars
  <1>6. CASE SeeJoined(p)
    BY <1>6, StepType
    DEF TypeOK, NetTypeOK, SeeJoined, Places, Answers, fileVars, radioVars
  <1>7. CASE GiveUp(p)
    BY <1>7, StepType
    DEF TypeOK, NetTypeOK, GiveUp, Places, Answers, fileVars, radioVars, Answer
  <1>8. CASE Dhcp(p)
    BY <1>8, StepType
    DEF TypeOK, NetTypeOK, Dhcp, Lease, Places, Answers, fileVars, radioVars
  <1>9. CASE Report(p)
    BY <1>9, StepType
    DEF TypeOK, NetTypeOK, Report, Places, Answers, fileVars, radioVars, Answer
  <1>10. CASE FilterScan(p)
    BY <1>10, StepType
    DEF TypeOK, NetTypeOK, FilterScan, Places, Answers, fileVars, radioVars
  <1>11. CASE WriteScan(p)
    BY <1>11, StepType
    DEF TypeOK, NetTypeOK, WriteScan, Places, Answers, fileVars, radioVars
  <1>12. CASE Die(p)
    BY <1>12
    DEF TypeOK, NetTypeOK, Die, Running, Places, fileVars, radioVars
  <1>13. QED
    BY <1>1, <1>2, <1>3, <1>4, <1>5, <1>6, <1>7, <1>8, <1>9, <1>10, <1>11, <1>12 DEF JobStep

\* do_scan.
LEMMA DoScanType ==
  ASSUME TypeOK, NEW p \in Jobs, DoScan(p)
  PROVE  /\ NetTypeOK' /\ status' \in Statuses
         /\ connected' \in BOOLEAN /\ connectTimer' \in BOOLEAN
         /\ connectPid' \in Jobs \cup {NoJob}
         /\ connectTicks' \in 0 .. ConnectTicks
         /\ scanTimer' \in BOOLEAN
         /\ scanPid' \in Jobs \cup {NoJob}
         /\ scanTicks' \in 0 .. ScanTicks
         /\ before' \in [Kinds -> SUBSET Jobs]
  <1>1. /\ kind' \in [Jobs -> Kinds] /\ at' \in [Jobs -> Places]
        /\ region' \in [Jobs -> BOOLEAN] /\ said' \in [Jobs -> Answers]
    <2>1. CASE Fork(p, "scan")
      BY <2>1, ForkType DEF Kinds
    <2>2. CASE UNCHANGED jobVars
      BY <2>2 DEF TypeOK, NetTypeOK, jobVars
    <2>3. QED
      BY <2>1, <2>2 DEF DoScan
  <1>2. NetTypeOK'
    BY <1>1 DEF TypeOK, NetTypeOK, DoScan, UnlinkScan, radioVars
  <1>3. QED
    BY <1>2, NoTicks DEF TypeOK, DoScan, Note, connectVars, Statuses

\* connect_btn_cb, when it starts a process or tries to.
LEMMA ConnectBtnType ==
  ASSUME TypeOK, NEW p \in Jobs, ConnectBtn(p)
  PROVE  TypeOK'
  <1>1. /\ kind' \in [Jobs -> Kinds] /\ at' \in [Jobs -> Places]
        /\ region' \in [Jobs -> BOOLEAN] /\ said' \in [Jobs -> Answers]
    <2>1. CASE Fork(p, "connect")
      BY <2>1, ForkType DEF Kinds
    <2>2. CASE UNCHANGED jobVars
      BY <2>2 DEF TypeOK, NetTypeOK, jobVars
    <2>3. QED
      BY <2>1, <2>2 DEF ConnectBtn
  <1>2. country' \in BOOLEAN
    BY DEF ConnectBtn, PickRegion, SetCountry, TypeOK, NetTypeOK
  <1>3. NetTypeOK'
    BY <1>1, <1>2 DEF TypeOK, NetTypeOK, ConnectBtn, UnlinkStatus, radioVars
  <1>4. QED
    BY <1>3, NoTicks DEF TypeOK, ConnectBtn, Note, scanVars, Statuses

\* The page's other handlers leave the processes and their files alone.
LEMMA PageType ==
  ASSUME TypeOK,
         \/ ScanPoll \/ ScanTick \/ PickFirst \/ ConnectBusy
         \/ ConnectPoll \/ ConnectTick \/ NetClose
  PROVE  TypeOK'
  <1>1. CASE ScanPoll
    BY <1>1 DEF TypeOK, NetTypeOK, ScanPoll, StopScan, Statuses, netVars,
                jobVars, fileVars, radioVars, connectVars, NoJob
  <1>2. CASE ScanTick
    <2>1. scanTicks \in 0 .. ScanTicks /\ ScanTicks \in Nat
      BY PageAssumption DEF TypeOK
    <2>2. CASE scanTicks < ScanTicks /\ scanTicks' = scanTicks + 1
               /\ UNCHANGED <<scanTimer, scanPid, status>>
      <3>1. scanTicks' \in 0 .. ScanTicks
        BY <2>1, <2>2, OneMoreTick
      <3>2. QED
        BY <1>2, <2>2, <3>1
        DEF TypeOK, NetTypeOK, ScanTick, netVars, jobVars, fileVars, radioVars,
            connectVars
    <2>3. CASE StopScan /\ status' = "scan timed out"
      BY <1>2, <2>3
      DEF TypeOK, NetTypeOK, ScanTick, StopScan, Statuses, netVars, jobVars,
          fileVars, radioVars, connectVars, NoJob
    <2>4. QED
      BY <1>2, <2>2, <2>3 DEF ScanTick
  <1>3. CASE PickFirst
    BY <1>3 DEF TypeOK, NetTypeOK, PickFirst, Statuses, netVars, jobVars,
                fileVars, radioVars, scanVars, connectVars
  <1>4. CASE ConnectBusy
    BY <1>4 DEF TypeOK, NetTypeOK, ConnectBusy, PickRegion, SetCountry, jobVars,
                fileVars, radioVars, scanVars, connectVars, pageVars
  <1>5. CASE ConnectPoll
    BY <1>5 DEF TypeOK, NetTypeOK, ConnectPoll, StopConnect, ReadAnswer, Statuses,
                netVars, jobVars, fileVars, radioVars, scanVars, NoJob
  <1>6. CASE ConnectTick
    <2>1. connectTicks \in 0 .. ConnectTicks /\ ConnectTicks \in Nat
      BY PageAssumption DEF TypeOK
    <2>2. CASE connectTicks < ConnectTicks /\ connectTicks' = connectTicks + 1
               /\ UNCHANGED <<connectTimer, connectPid, status>>
      <3>1. connectTicks' \in 0 .. ConnectTicks
        BY <2>1, <2>2, OneMoreTick
      <3>2. QED
        BY <1>6, <2>2, <3>1
        DEF TypeOK, NetTypeOK, ConnectTick, netVars, jobVars, fileVars, radioVars,
            scanVars
    <2>3. CASE StopConnect /\ status' = "timed out"
      BY <1>6, <2>3
      DEF TypeOK, NetTypeOK, ConnectTick, StopConnect, Statuses, netVars, jobVars,
          fileVars, radioVars, scanVars, NoJob
    <2>4. QED
      BY <1>6, <2>2, <2>3 DEF ConnectTick
  <1>7. CASE NetClose
    BY <1>7 DEF TypeOK, NetTypeOK, NetClose, netVars, jobVars, fileVars, radioVars
  <1>8. QED
    BY <1>1, <1>2, <1>3, <1>4, <1>5, <1>6, <1>7

\* Every variable of the page and of prp-net holds a value of its type.
THEOREM TypeCorrect == Spec => []TypeOK
  <1>1. TypeOK /\ [Next]_vars => TypeOK'
    <2> SUFFICES ASSUME TypeOK, [Next]_vars PROVE TypeOK'
      OBVIOUS
    <2>1. CASE \E p \in Jobs : Show(p) \/ ScanBtn(p)
      <3>1. PICK p \in Jobs : Show(p) \/ ScanBtn(p)
        BY <2>1
      <3>2. DoScan(p)
        BY <3>1 DEF Show, ScanBtn
      <3>3. {overlay, ccShown, networks}' \subseteq BOOLEAN
        BY <3>1 DEF Show, ScanBtn, TypeOK
      <3>4. QED
        BY <3>2, <3>3, DoScanType DEF TypeOK
    <2>2. CASE \E p \in Jobs : ConnectBtn(p)
      BY <2>2, ConnectBtnType
    <2>3. CASE \/ ScanPoll \/ ScanTick \/ PickFirst \/ ConnectBusy
               \/ ConnectPoll \/ ConnectTick \/ NetClose
      BY <2>3, PageType
    <2>4. CASE /\ Join \/ Drop \/ \E p \in Jobs : JobStep(p)
               /\ UNCHANGED <<scanVars, connectVars, pageVars, before>>
      <3>1. NetTypeOK'
        BY <2>4, JobStepType
        DEF TypeOK, NetTypeOK, Join, Drop, jobVars, fileVars
      <3>2. QED
        BY <2>4, <3>1 DEF TypeOK, scanVars, connectVars, pageVars
    <2>5. CASE UNCHANGED vars
      BY <2>5 DEF TypeOK, NetTypeOK, vars, netVars, jobVars, fileVars, radioVars,
                  scanVars, connectVars, pageVars
    <2>6. QED
      BY <2>1, <2>2, <2>3, <2>4, <2>5 DEF Next
  <1>2. QED
    BY <1>1, InitType, PTL DEF Spec

-----------------------------------------------------------------------------
(* The inductive invariant is kept: the steps of prp-net. *)

\* A process that has ended, or has spoken, is not one that takes a step.
LEMMA StepperRuns ==
  ASSUME TypeOK, NEW p \in Jobs, JobStep(p)
  PROVE  /\ at[p] # "exit"
         /\ kind' = kind
         /\ \A q \in Jobs \ {p} : at'[q] = at[q] /\ said'[q] = said[q]
         /\ \A q \in Jobs : at[q] = "exit" => at'[q] = "exit"
  BY DEF JobStep, BeginConnect, BeginScan, ConnectNoRadio, ScanNoRadio, Tune,
         SeeJoined, GiveUp, Dhcp, Report, FilterScan, WriteScan, Die, Answer,
         ReadCountry, Step, Running, TypeOK, NetTypeOK

LEMMA JobStepSpeaks ==
  ASSUME TypeOK, SpeaksLast, NEW p \in Jobs, JobStep(p)
  PROVE  SpeaksLast'
  <1>1. said'[p] # "nothing" => at'[p] = "exit"
    <2>1. said[p] = "nothing"
      BY StepperRuns DEF SpeaksLast
    <2>2. QED
      BY <2>1
      DEF JobStep, BeginConnect, BeginScan, ConnectNoRadio, ScanNoRadio, Tune,
          SeeJoined, GiveUp, Dhcp, Report, FilterScan, WriteScan, Die, Answer,
          ReadCountry, Step, TypeOK, NetTypeOK
  <1>2. QED
    BY <1>1, StepperRuns DEF SpeaksLast

\* Only Dhcp brings a process to where it reports, or touches the address.
LEMMA JobStepLease ==
  ASSUME TypeOK, LeaseInv, NEW p \in Jobs, JobStep(p)
  PROVE  LeaseInv'
  <1>1. CASE Dhcp(p)
    <2>1. PICK leased \in BOOLEAN : Lease(leased)
      BY <1>1 DEF Dhcp
    <2>2. CASE leased
      BY <2>1, <2>2 DEF Lease, LeaseInv
    <2>3. CASE ~leased
      BY <2>1, <2>3 DEF Lease, LeaseInv
    <2>4. QED
      BY <2>2, <2>3
  <1>2. CASE ~Dhcp(p)
    <2>1. UNCHANGED <<addr, granted>>
      BY <1>2 DEF JobStep, BeginConnect, BeginScan, ConnectNoRadio, ScanNoRadio,
                  Tune, SeeJoined, GiveUp, Report, FilterScan, WriteScan, Die,
                  ReadCountry, radioVars
    <2>2. at'[p] # "lease"
      BY <1>2 DEF JobStep, BeginConnect, BeginScan, ConnectNoRadio, ScanNoRadio,
                  Tune, SeeJoined, GiveUp, Report, FilterScan, WriteScan, Die,
                  Answer, Step, TypeOK, NetTypeOK
    <2>3. QED
      BY <2>1, <2>2, StepperRuns DEF LeaseInv
  <1>3. QED
    BY <1>1, <1>2

\* The address a process says "ok" on.
LEMMA JobStepOk ==
  ASSUME TypeOK, NetInv, NEW p \in Jobs, JobStep(p)
  PROVE  OkRestsOnLease'
  <1>1. granted \subseteq granted'
    BY DEF JobStep, BeginConnect, BeginScan, ConnectNoRadio, ScanNoRadio, Tune,
           SeeJoined, GiveUp, Dhcp, Lease, Report, FilterScan, WriteScan, Die,
           ReadCountry, radioVars
  <1>2. said'[p] = "ok" => p \in granted
    <2>1. CASE Report(p)
      BY <2>1 DEF Report, Answer, Step, TypeOK, NetTypeOK, NetInv, LeaseInv
    <2>2. CASE ~Report(p)
      BY <2>2 DEF JobStep, BeginConnect, BeginScan, ConnectNoRadio, ScanNoRadio,
                  Tune, SeeJoined, GiveUp, Dhcp, FilterScan, WriteScan, Die,
                  Answer, ReadCountry, Step, TypeOK, NetTypeOK, NetInv,
                  OkRestsOnLease
    <2>3. QED
      BY <2>1, <2>2
  <1>3. QED
    BY <1>1, <1>2, StepperRuns DEF NetInv, OkRestsOnLease

\* An answer file changes hands only to a process that had not ended before.
LEMMA JobStepFiles ==
  ASSUME TypeOK, NetInv, NEW p \in Jobs, JobStep(p), before' = before
  PROVE  StatusInv' /\ ScanInv'
  <1>1. /\ said[p] = "nothing"
        /\ \A k \in Kinds : p \notin before[k]
    BY StepperRuns DEF NetInv, SpeaksLast, BeforeEnded
  <1>2. \/ statusFile' = statusFile
        \/ statusFile' # "ok"
        \/ kind[p] = "connect" /\ said'[p] = "ok"
    BY DEF JobStep, BeginConnect, BeginScan, ConnectNoRadio, ScanNoRadio, Tune,
           SeeJoined, GiveUp, Dhcp, Report, FilterScan, WriteScan, Die, Answer,
           Step, fileVars, TypeOK, NetTypeOK
  <1>3. \/ scanFile' = scanFile
        \/ scanFile' # "list"
        \/ kind[p] = "scan" /\ said'[p] = "list"
    BY DEF JobStep, BeginConnect, BeginScan, ConnectNoRadio, ScanNoRadio, Tune,
           SeeJoined, GiveUp, Dhcp, Report, FilterScan, WriteScan, Die, Answer,
           Step, fileVars, TypeOK, NetTypeOK
  <1>4. \A q \in Jobs : said[q] # "nothing" => said'[q] = said[q]
    BY <1>1, StepperRuns
  <1>5. kind' = kind
    BY StepperRuns
  <1>6. StatusInv'
    BY <1>1, <1>2, <1>4, <1>5 DEF NetInv, StatusInv, Kinds
  <1>7. ScanInv'
    BY <1>1, <1>3, <1>4, <1>5 DEF NetInv, ScanInv, Kinds
  <1>8. QED
    BY <1>6, <1>7

LEMMA JobStepInv ==
  ASSUME TypeOK, NetInv, NEW p \in Jobs, JobStep(p), before' = before
  PROVE  NetInv'
  <1>1. BeforeEnded'
    BY StepperRuns DEF NetInv, BeforeEnded, TypeOK
  <1>2. QED
    BY <1>1, JobStepSpeaks, JobStepLease, JobStepOk, JobStepFiles DEF NetInv

-----------------------------------------------------------------------------
(* The inductive invariant is kept: the page's handlers. *)

\* The process that is forked has not spoken, and nobody waited for it.
LEMMA ForkKeeps ==
  ASSUME TypeOK, SpeaksLast, NEW p \in Jobs, NEW k \in Kinds, Fork(p, k)
  PROVE  /\ said' = said
         /\ said[p] = "nothing"
         /\ at[p] = "none" /\ at'[p] = "start"
         /\ \A q \in Jobs \ {p} : kind'[q] = kind[q] /\ at'[q] = at[q]
  BY DEF Fork, Fresh, SpeaksLast, TypeOK, NetTypeOK

\* A fork, or none, beside the removal of the answer file of kind k: the other
\* kind's file keeps its answer, and this kind's is gone.
LEMMA RequestInv ==
  ASSUME TypeOK, NetInv, NEW p \in Jobs, NEW k \in Kinds, Note(k),
         Fork(p, k) \/ UNCHANGED jobVars, UNCHANGED radioVars,
         IF k = "scan" THEN scanFile' = "absent" /\ statusFile' = statusFile
                       ELSE statusFile' = "absent" /\ scanFile' = scanFile
  PROVE  NetInv'
  <1>1. /\ said' = said /\ addr' = addr /\ granted' = granted
        /\ \A q \in Jobs : /\ said[q] # "nothing" => kind'[q] = kind[q]
                           /\ at[q] = "exit" => at'[q] = "exit"
                           /\ at'[q] = "lease" => at[q] = "lease"
    BY ForkKeeps DEF NetInv, jobVars, radioVars
  <1>2. before' = [before EXCEPT ![k] = {q \in Jobs : kind[q] = k /\ at[q] = "exit"}]
    BY DEF Note
  <1>3. \A j \in Kinds : \A q \in before'[j] : q \in Jobs /\ at[q] = "exit"
    <2> SUFFICES ASSUME NEW j \in Kinds, NEW q \in before'[j]
                 PROVE  q \in Jobs /\ at[q] = "exit"
      OBVIOUS
    <2>1. CASE j = k
      BY <1>2, <2>1 DEF TypeOK
    <2>2. CASE j # k
      BY <1>2, <2>2 DEF TypeOK, NetInv, BeforeEnded
    <2>3. QED
      BY <2>1, <2>2
  <1>4. SpeaksLast' /\ BeforeEnded' /\ LeaseInv' /\ OkRestsOnLease'
    BY <1>1, <1>3
    DEF NetInv, SpeaksLast, BeforeEnded, LeaseInv, OkRestsOnLease
  <1>5. CASE k = "scan"
    <2>1. before'["connect"] = before["connect"]
      BY <1>2, <1>5 DEF TypeOK, Kinds
    <2>2. QED
      BY <1>1, <1>4, <1>5, <2>1 DEF NetInv, StatusInv, ScanInv
  <1>6. CASE k = "connect"
    <2>1. before'["scan"] = before["scan"]
      BY <1>2, <1>6 DEF TypeOK, Kinds
    <2>2. QED
      BY <1>1, <1>4, <1>6, <2>1 DEF NetInv, StatusInv, ScanInv
  <1>7. QED
    BY <1>5, <1>6 DEF Kinds

\* The other handlers leave the processes, their answers and the address alone.
LEMMA IdleInv ==
  ASSUME NetInv, UNCHANGED <<jobVars, fileVars, addr, granted, before>>
  PROVE  NetInv'
  BY DEF NetInv, SpeaksLast, BeforeEnded, LeaseInv, OkRestsOnLease, StatusInv,
         ScanInv, jobVars, fileVars

LEMMA NetInvInductive ==
  ASSUME TypeOK, NetInv, [Next]_vars
  PROVE  NetInv'
  <1>1. CASE \E p \in Jobs : Show(p) \/ ScanBtn(p)
    <2>1. PICK p \in Jobs : DoScan(p)
      BY <1>1 DEF Show, ScanBtn
    <2>2. QED
      BY <2>1, RequestInv DEF DoScan, UnlinkScan, Kinds
  <1>2. CASE \E p \in Jobs : ConnectBtn(p)
    BY <1>2, RequestInv DEF ConnectBtn, UnlinkStatus, Kinds
  <1>3. CASE \/ ScanPoll \/ ScanTick \/ PickFirst \/ ConnectBusy
             \/ ConnectPoll \/ ConnectTick \/ NetClose
    BY <1>3, IdleInv
    DEF ScanPoll, ScanTick, PickFirst, ConnectBusy, ConnectPoll, ConnectTick,
        NetClose, netVars, radioVars
  <1>4. CASE (Join \/ Drop) /\ UNCHANGED <<scanVars, connectVars, pageVars, before>>
    BY <1>4, IdleInv DEF Join, Drop
  <1>5. CASE /\ \E p \in Jobs : JobStep(p)
             /\ UNCHANGED <<scanVars, connectVars, pageVars, before>>
    BY <1>5, JobStepInv
  <1>6. CASE UNCHANGED vars
    BY <1>6, IdleInv DEF vars, netVars, radioVars
  <1>7. QED
    BY <1>1, <1>2, <1>3, <1>4, <1>5, <1>6 DEF Next

\* Who has spoken, on what address, and whose answers the two files hold.
THEOREM NetInvCorrect == Spec => []NetInv
  <1>1. Init => NetInv
    BY DEF Init, NetInit, NetInv, SpeaksLast, BeforeEnded, LeaseInv,
           OkRestsOnLease, StatusInv, ScanInv
  <1>2. TypeOK /\ NetInv /\ [Next]_vars => NetInv'
    BY NetInvInductive
  <1>3. QED
    BY <1>1, <1>2, TypeCorrect, PTL DEF Spec

-----------------------------------------------------------------------------
(* What the page says. *)

\* A connect says "ok" only on an address handed out by its own udhcpc or by a
\* later one, whatever else uses the radio.
THEOREM OkIsEarned == Spec => []OkRestsOnLease
  <1>1. NetInv => OkRestsOnLease
    BY DEF NetInv
  <1>2. QED
    BY <1>1, NetInvCorrect, PTL

\* A step that says "Connected" anew reads the answer of a connect; one that
\* says "found" anew reads the list of a scan.
LEMMA OnlyPollsTell ==
  ASSUME [Next]_vars
  PROVE  /\ status' = "connected" => ConnectPoll \/ status = "connected"
         /\ status' = "found" => ScanPoll \/ status = "found"
  <1>1. CASE \E p \in Jobs : Show(p) \/ ScanBtn(p) \/ ConnectBtn(p)
    BY <1>1 DEF Show, ScanBtn, DoScan, ConnectBtn
  <1>2. CASE \/ ScanPoll \/ ScanTick \/ PickFirst \/ ConnectBusy
             \/ ConnectPoll \/ ConnectTick \/ NetClose
    BY <1>2 DEF ScanPoll, ScanTick, PickFirst, ConnectBusy, ConnectPoll, ReadAnswer,
                ConnectTick, NetClose, pageVars
  <1>3. CASE UNCHANGED pageVars
    BY <1>3 DEF pageVars
  <1>4. QED
    BY <1>1, <1>2, <1>3 DEF Next, vars

\* What the page starts to say was written after it removed the answer file for
\* this request, however many older processes still run and write.
THEOREM VerdictIsOfThisRequest == Spec => VerdictIsFresh
  <1>1. NetInv /\ [Next]_vars =>
          [/\ status' = "connected" /\ status # "connected" =>
                \E p \in Jobs \ before["connect"] :
                  kind[p] = "connect" /\ said[p] = "ok"
           /\ status' = "found" /\ status # "found" =>
                \E p \in Jobs \ before["scan"] :
                  kind[p] = "scan" /\ said[p] = "list"]_vars
    <2>1. SUFFICES ASSUME NetInv, [Next]_vars
                   PROVE  /\ status' = "connected" /\ status # "connected" =>
                               \E p \in Jobs \ before["connect"] :
                                 kind[p] = "connect" /\ said[p] = "ok"
                          /\ status' = "found" /\ status # "found" =>
                               \E p \in Jobs \ before["scan"] :
                                 kind[p] = "scan" /\ said[p] = "list"
      OBVIOUS
    <2>2. ASSUME status' = "connected", status # "connected" PROVE statusFile = "ok"
      BY <2>1, <2>2, OnlyPollsTell DEF ConnectPoll, ReadAnswer
    <2>3. ASSUME status' = "found", status # "found" PROVE scanFile = "list"
      BY <2>1, <2>3, OnlyPollsTell DEF ScanPoll
    <2>4. QED
      BY <2>1, <2>2, <2>3 DEF NetInv, StatusInv, ScanInv
  <1>2. QED
    BY <1>1, NetInvCorrect, PTL DEF Spec, VerdictIsFresh
=============================================================================
