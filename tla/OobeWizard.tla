------------------------------ MODULE OobeWizard ------------------------------
(***************************************************************************)
(* The first-boot wizard (gui/oobe_wizard.c): one page per oobe stage of   *)
(* the blueprint, in the order PhaseOrder gives, then confirm, progress    *)
(* and done.  The progress page forks `peacock-oobe --apply` and follows   *)
(* its lines.  Every callback is one action; what the user typed on a page *)
(* is chosen when Next is pressed, for a page left by Back forgets it.     *)
(* Titles, descriptions, default values and layout are left out.           *)
(***************************************************************************)
EXTENDS PhaseOrder, SequencesExt

CONSTANTS
  Values,        \* what can be typed or picked; "" among them
  NoAnswers,     \* no answers file
  OldAnswers,    \* an answers file of an earlier wizard, or a torn one
  MaxWidgets,    \* length of bp_w[] (24 in the code)
  MaxSecrets,    \* length of sec_k[] (8 in the code)
  LogLines,      \* lines that fit into log_buf (2048 bytes in the code)
  MaxSays,       \* bound on the lines peacock-oobe prints before its verdict
  SaveMayFail,   \* may bp_answers_save fail or be cut short?
  StartMayFail   \* may pipe() or fork() fail?

ASSUME WizardAssumption ==
  /\ \A s \in Stages : s.fields \in Seq(Range(s.fields))
  /\ {MaxWidgets, MaxSecrets, MaxSays} \subseteq Nat
  /\ LogLines \in Nat \ {0, 1}
  /\ {SaveMayFail, StartMayFail} \subseteq BOOLEAN

VARIABLES
  root,          \* is the wizard on the screen (W.root)?
  page,          \* W.page
  shown,         \* fields with a widget on this page (W.bp_f)
  store,         \* W.ans: the answered keys and their values
  secrets,       \* W.sec_k, W.sec_v
  present,       \* is /sbin/peacock-oobe there?
  timer,         \* W.prog_timer: "none", "poll" or "mock"
  logged, told,  \* lines in log_buf; is the snag line one of them?
  file,          \* /tmp/oobe-answers.toml
  child, lines,  \* peacock-oobe, and its lines not read yet
  says,          \* how many lines it printed before its verdict
  used,          \* the answers and secrets it works with
  outcome        \* "none", or what it did: "applied" or "refused"

pageVars == <<root, page, shown, store, secrets>>
logVars == <<logged, told>>
applyVars == <<timer, logVars, file>>
childVars == <<child, lines, says, used, outcome>>
vars == <<orderVars, pageVars, present, applyVars, childVars>>

NStages == Len(order)
PageConfirm == NStages + 1
PageProgress == NStages + 2
PageDone == NStages + 3
StagePages == 1..NStages

Fields(p) == bp[order[p]].fields
Empty == [k \in {} |-> ""]

-----------------------------------------------------------------------------
(* Answers. *)

Answer(ans, key) == IF key \in DOMAIN ans THEN ans[key] ELSE ""

\* bp_when_eval, for an expression of one atom; no expression shows the field.
Holds(when, ans) ==
  \A atom \in when : (Answer(ans, atom.key) = atom.val) # atom.negated

\* bp_answers_set
SetAnswer(ans, key, v) ==
  [k \in DOMAIN ans \cup {key} |-> IF k = key THEN v ELSE ans[k]]

\* One round of render_stage_fields: a field whose `when` holds now gets a
\* widget, while there is room.
AddWidget(widgets, f, ans) ==
  IF Holds(f.when, ans) /\ Len(widgets) < MaxWidgets THEN Append(widgets, f)
                                                     ELSE widgets

\* The fields of page p with a widget, for the answers given so far.
Rendered(p, ans) ==
  LET fields == IF p \in StagePages THEN Fields(p) ELSE << >>
      after[n \in 0..Len(fields)] ==
        IF n = 0 THEN << >> ELSE AddWidget(after[n - 1], fields[n], ans)
  IN  after[Len(fields)]

\* What the widget of a field can hold.
Inputs(f) == IF f.type = "choice" THEN f.options ELSE Values

Rejects(f, v) == (f.required /\ v = "") \/ v \notin f.accepts

\* (mutant of CaptureField) passwords are answers like any other
CaptureInStore(captured, f, v) ==
  IF ~captured.ok THEN captured
  ELSE IF Rejects(f, v) THEN [captured EXCEPT !.ok = FALSE]
  ELSE [captured EXCEPT !.store = SetAnswer(@, f.key, v)]

\* One round of capture_stage_fields: after the first rejected field the loop
\* has returned; a password goes to the secrets, while there is room.
CaptureField(captured, f, v) ==
  IF ~captured.ok THEN captured
  ELSE IF Rejects(f, v) THEN [captured EXCEPT !.ok = FALSE]
  ELSE IF f.type # "password"
       THEN [captured EXCEPT !.store = SetAnswer(@, f.key, v)]
  ELSE IF \/ f.key \in DOMAIN captured.secrets
          \/ Cardinality(DOMAIN captured.secrets) < MaxSecrets
       THEN [captured EXCEPT !.secrets = SetAnswer(@, f.key, v)]
  ELSE captured

\* typed[n] is the content of the n-th widget.
Capture(typed) ==
  LET after[n \in 0..Len(shown)] ==
        IF n = 0 THEN [ok |-> TRUE, store |-> store, secrets |-> secrets]
                 ELSE CaptureField(after[n - 1], shown[n], typed[n])
  IN  after[Len(shown)]

-----------------------------------------------------------------------------
(* Pages. *)

WizardInit ==
  /\ root = FALSE /\ page = 0 /\ shown = << >>
  /\ store = Empty /\ secrets = Empty
  /\ present \in BOOLEAN
  /\ timer = "none"
  /\ logged = 0 /\ told = FALSE
  /\ file \in {NoAnswers, OldAnswers}
  /\ child = "none" /\ lines = << >> /\ says = 0 /\ used = NoAnswers
  /\ outcome = "none"

Init == OrderInit /\ WizardInit

\* bp_phase_order runs inside prp_oobe_show, before there is a page.
Ordering == OrderNext /\ UNCHANGED <<pageVars, present, applyVars, childVars>>

Show == /\ at = "done"
        /\ ~root /\ page = 0
        /\ root' = TRUE
        /\ UNCHANGED <<orderVars, page, shown, store, secrets, present,
                       applyVars, childVars>>

\* (mutant of GoTo) the page is rendered before the answers are captured
GoToStale(p) == page' = p /\ shown' = Rendered(p, store) /\ UNCHANGED root

\* render_page of another page than the progress page
GoTo(p) == page' = p /\ shown' = Rendered(p, store') /\ UNCHANGED root

NextWelcome == /\ root /\ page = 0
               /\ UNCHANGED <<store, secrets>>
               /\ GoTo(1)
               /\ UNCHANGED <<orderVars, present, applyVars, childVars>>

\* next_cb on a stage page: a rejected field keeps the page, but the fields
\* before it were captured.
NextStage ==
  /\ root /\ page \in StagePages
  /\ \E typed \in [1..Len(shown) -> Values] :
       /\ \A n \in 1..Len(shown) : typed[n] \in Inputs(shown[n])
       /\ LET captured == Capture(typed)
          IN  /\ store' = captured.store
              /\ secrets' = captured.secrets
              /\ IF captured.ok THEN GoTo(page + 1)
                                ELSE UNCHANGED <<root, page, shown>>
  /\ UNCHANGED <<orderVars, present, applyVars, childVars>>

\* back_cb; the footer is hidden from the progress page on.
Back == /\ root /\ page \in 1..PageConfirm
        /\ UNCHANGED <<store, secrets>>
        /\ GoTo(page - 1)
        /\ UNCHANGED <<orderVars, present, applyVars, childVars>>

-----------------------------------------------------------------------------
(* Progress. *)

\* wlog, n lines at once: what does not fit is dropped.
Fits(n) == logged + n <= LogLines
Wlog(n) == logged' = IF Fits(n) THEN logged + n ELSE LogLines

\* (mutant of SaveAnswers) an answers file that is there is kept
SaveOnce == file' = IF file = NoAnswers THEN [answers |-> store] ELSE file

\* bp_answers_save, whose result nobody reads.  The values are taken to come
\* back from the file as they went in: which do is said by AnswersSyntax.
SaveAnswers == \/ file' = [answers |-> store]
               \/ SaveMayFail /\ file' \in {file, OldAnswers}

\* render_progress with peacock-oobe: the log starts anew.
EnterProgress == /\ root /\ page = PageConfirm
                 /\ page' = PageProgress
                 /\ shown' = << >>
                 /\ told' = FALSE
                 /\ UNCHANGED <<orderVars, root, store, secrets, present>>

StartApply == /\ EnterProgress
              /\ present
              /\ logged' = 1
              /\ SaveAnswers
              /\ timer' = "poll"
              /\ child' = "forked"
              /\ lines' = << >>
              /\ says' = 0
              /\ used' = NoAnswers
              /\ outcome' = "none"

StartFails == /\ EnterProgress
              /\ present /\ StartMayFail
              /\ logged' = 2
              /\ SaveAnswers
              /\ UNCHANGED <<timer, childVars>>

StartMock == /\ EnterProgress
             /\ ~present
             /\ logged' = 0
             /\ timer' = "mock"
             /\ UNCHANGED <<file, childVars>>

\* mock_timer_cb, its six rounds as one
MockDone == /\ timer = "mock"
            /\ timer' = "none"
            /\ page' = PageDone
            /\ UNCHANGED <<orderVars, root, shown, store, secrets, present,
                           logVars, file, childVars>>

\* apply_finish(1)
FinishOk == /\ timer' = "none"
            /\ page' = PageDone
            /\ UNCHANGED <<root, shown, store, secrets, logVars>>

\* apply_finish(0), after n lines of its caller: an empty line, then the snag
\* line.
FinishSnag(n) == /\ timer' = "none"
                 /\ Wlog(n + 2)
                 /\ told' = Fits(n + 2)
                 /\ UNCHANGED pageVars

\* apply_poll, a whole line: parse_apply_line
PollLine == /\ timer = "poll"
            /\ lines # << >>
            /\ lines' = Tail(lines)
            /\ CASE Head(lines) = "say" -> /\ Wlog(1)
                                           /\ UNCHANGED <<told, timer, pageVars>>
                 [] Head(lines) = "DONE" -> FinishOk
                 [] Head(lines) = "ERROR" -> FinishSnag(1)
            /\ UNCHANGED <<orderVars, present, file, child, says, used, outcome>>

\* (mutants of PollEof) the child's end is looked for before the pipe is read;
\* it is taken for an empty pipe
PollEofEarly == /\ timer = "poll" /\ child = "gone"
                /\ FinishSnag(1)
                /\ UNCHANGED <<orderVars, present, file, childVars>>

PollEofWaits == /\ timer = "poll" /\ lines = << >> /\ child = "gone"
                /\ UNCHANGED vars

\* apply_poll, end of file: the child is gone and all its lines are read.
PollEof == /\ timer = "poll"
           /\ lines = << >>
           /\ child = "gone"
           /\ FinishSnag(1)
           /\ UNCHANGED <<orderVars, present, file, childVars>>

\* done_close_cb: wizard_close, exit(0)
Continue == /\ root /\ page = PageDone
            /\ root' = FALSE
            /\ UNCHANGED <<orderVars, page, shown, store, secrets, present,
                           applyVars, childVars>>

-----------------------------------------------------------------------------
(* peacock-oobe --apply, which is not in this repository: it reads its     *)
(* answers, prints lines, and ends with a verdict or without one.          *)

ChildReads == /\ child = "forked"
              /\ child' = "applying"
              /\ used' = [file |-> file, secrets |-> secrets]
              /\ UNCHANGED <<lines, says, outcome>>

\* Without a reader the line, and soon the child, is lost.
Says(line) == lines' = IF timer = "poll" THEN Append(lines, line) ELSE lines

ChildSays == /\ child = "applying" /\ says < MaxSays
             /\ says' = says + 1
             /\ Says("say")
             /\ UNCHANGED <<child, used, outcome>>

ChildVerdict == /\ child = "applying"
                /\ child' = "ending"
                /\ \/ outcome' = "applied" /\ Says("DONE")
                   \/ outcome' = "refused" /\ Says("ERROR")
                /\ UNCHANGED <<says, used>>

ChildExits == /\ child \in {"forked", "applying", "ending"}
              /\ child' = "gone"
              /\ UNCHANGED <<lines, says, used, outcome>>

ChildStep == /\ ChildReads \/ ChildSays \/ ChildVerdict \/ ChildExits
             /\ UNCHANGED <<orderVars, pageVars, present, applyVars>>

-----------------------------------------------------------------------------
Poll == PollLine \/ PollEof

Next == \/ Ordering \/ Show
        \/ NextWelcome \/ NextStage \/ Back
        \/ StartApply \/ StartFails \/ StartMock \/ MockDone
        \/ Poll \/ Continue
        \/ ChildStep

Spec == Init /\ [][Next]_vars

\* The function runs to its end, LVGL calls its timers, and a child that can go
\* on does; the user owes nothing.
FairSpec == /\ Spec
            /\ WF_vars(Ordering)
            /\ WF_vars(Poll)
            /\ WF_vars(MockDone)
            /\ WF_vars(ChildStep)

-----------------------------------------------------------------------------
(* Properties. *)

Keys == UNION {{f.key : f \in Range(s.fields)} : s \in Stages}

PasswordKeys ==
  UNION {{f.key : f \in {g \in Range(s.fields) : g.type = "password"}} :
         s \in Stages}

IsAnswers(ans) == DOMAIN ans \subseteq Keys /\ Range(ans) \subseteq Values

TypeOK ==
  /\ OrderTypeOK
  /\ root \in BOOLEAN /\ present \in BOOLEAN
  /\ page \in 0..PageDone
  /\ shown # << >> => page \in StagePages /\ Range(shown) \subseteq Range(Fields(page))
  /\ Len(shown) <= MaxWidgets
  /\ IsAnswers(store) /\ IsAnswers(secrets)
  /\ Cardinality(DOMAIN secrets) <= MaxSecrets
  /\ timer \in {"none", "poll", "mock"}
  /\ logged \in 0..LogLines /\ told \in BOOLEAN
  /\ child \in {"none", "forked", "applying", "ending", "gone"}
  /\ lines \in Seq({"say", "DONE", "ERROR"})
  /\ says \in 0..MaxSays
  /\ outcome \in {"none", "applied", "refused"}

\* The stages of a blueprint that can get a page.
AskedStages(b) == {k \in 1..Len(b) : k <= Cap /\ b[k].phase = Phase}

AskedFields(b) == UNION {Range(b[k].fields) : k \in AskedStages(b)}

AskedSecrets(b) == {f.key : f \in {g \in AskedFields(b) : g.type = "password"}}

\* Stage k requires stage j, or a stage that does, and so on.
ComesBefore(b, j, k) ==
  \A S \in SUBSET AskedStages(b) :
    /\ k \in S
    /\ \A m \in S, n \in AskedStages(b) :
         b[n].id # NoId /\ b[n].id \in b[m].requires => n \in S
    => j \in S

MayStayEmpty(f) == ~Rejects(f, "")

\* What bp_load does not check and the wizard relies on: no key is asked for by
\* two fields, a `when` looks only at pages that surely come before its own,
\* there is room for all passwords, and a field for which its page has no room
\* may stay empty.
AsksWell(b) ==
  /\ \A k \in AskedStages(b), j \in AskedStages(b) :
       \A f \in Range(b[k].fields), g \in Range(b[j].fields) :
         /\ f.key = g.key => f = g /\ j = k
         /\ (\E atom \in f.when : atom.key = g.key) => j # k /\ ComesBefore(b, j, k)
  /\ IsFiniteSet(AskedSecrets(b)) /\ Cardinality(AskedSecrets(b)) <= MaxSecrets
  /\ \A k \in AskedStages(b) : \A n \in DOMAIN b[k].fields :
       n > MaxWidgets => MayStayEmpty(b[k].fields[n])

\* Whatever way Back and Next were pressed, and whatever a rejected page had
\* already captured: the pages before this one are answered as they would be
\* asked now.  (A field shown because of an answer on an earlier page is asked
\* again when that answer changes.)
AnsweredSoFar ==
  root => \A p \in StagePages :
            p < page => \A f \in Range(Fields(p)) :
              Holds(f.when, store) =>
                ~Rejects(f, Answer(IF f.type = "password" THEN secrets ELSE store,
                                   f.key))

\* "captured passwords -- applied via --secret, never written to the answers
\* store": neither to the store nor to the file.
SecretsStayOut ==
  /\ DOMAIN store \cap PasswordKeys = {}
  /\ file \notin {NoAnswers, OldAnswers} =>
       DOMAIN file.answers \cap PasswordKeys = {}

\* peacock-oobe works with the answers the confirm page showed, not with an
\* older file, and nothing can change them while it runs.
AppliesWhatWasConfirmed ==
  used # NoAnswers => used = [file |-> [answers |-> store], secrets |-> secrets]

\* "You're ready to go" is said only of a setup that was applied, and the snag
\* line only of one that was not: the lines of a child that is gone are read
\* before its end of file.
VerdictIsTrue ==
  /\ page = PageDone /\ present => outcome = "applied"
  /\ told => outcome # "applied"

\* Every setup that could be started gets its verdict.
EveryApplyEnds == (timer # "none") ~> (timer = "none")
=============================================================================
