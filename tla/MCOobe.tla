-------------------------------- MODULE MCOobe --------------------------------
(***************************************************************************)
(* Blueprints for OobeWizard: small ones with every `requires`, without    *)
(* fields, and some with fields whose `when` looks at an earlier page.     *)
(***************************************************************************)
EXTENDS OobeWizard

CONSTANTS Ids

MCValues == {"", "x", "y"}

Stage(id, phase, requires, fields) ==
  [id |-> id, phase |-> phase, requires |-> requires, fields |-> fields]

Always == {}
When(key, val, negated) == {[key |-> key, val |-> val, negated |-> negated]}

PlainStages ==
  {Stage(id, phase, requires, << >>) :
     id \in Ids \cup {NoId}, phase \in {"install", "oobe"},
     requires \in SUBSET Ids}

\* Three stages with ids <<a, b, c>>, a repeated id, or a missing one; the
\* second may belong to the other phase.
PlainBlueprints ==
  LET Of(id) == {s \in PlainStages : s.id = id}
      OobeOf(id) == {s \in Of(id) : s.phase = "oobe"}
      Named(ids) == OobeOf(ids[1]) \X Of(ids[2]) \X OobeOf(ids[3])
      a == CHOOSE x \in Ids : TRUE
      b == CHOOSE x \in Ids \ {a} : TRUE
      c == CHOOSE x \in Ids \ {a, b} : TRUE
  IN  Named(<<a, b, c>>) \cup Named(<<a, a, b>>) \cup Named(<<a, NoId, b>>)

Field(key, type, required, accepts, when) ==
  [key |-> key, type |-> type, required |-> required, accepts |-> accepts,
   options |-> {"x", "y"}, when |-> when]

desktop == Field("desktop", "choice", FALSE, MCValues, Always)
host == Field("host", "text", TRUE, {"x", "y"}, Always)
note == Field("note", "text", FALSE, MCValues, Always)
theme == Field("theme", "text", TRUE, MCValues, When("desktop", "x", FALSE))
user == Field("user", "text", FALSE, {"", "y"}, When("host", "y", TRUE))
login == Field("login", "password", TRUE, MCValues, Always)
key == Field("key", "password", FALSE, {"x", "y"}, When("theme", "x", FALSE))

\* Asked in the order one, two, three, whatever the order of the file.
Asking(ids) ==
  LET one == Stage(ids[1], "oobe", {}, <<desktop, host, note>>)
      two == Stage(ids[2], "oobe", {ids[1]}, <<theme, user>>)
      three == Stage(ids[3], "oobe", {ids[2]}, <<login, key>>)
  IN  {<<one, two, three>>, <<three, two, one>>}

AskingBlueprints ==
  UNION {Asking(ids) : ids \in {f \in [1..3 -> Ids] :
                                  \A p, q \in 1..3 : f[p] = f[q] => p = q}}

MCStages == PlainStages \cup UNION {Range(b) : b \in AskingBlueprints}

\* No blueprint at all (the download failed) is one without stages.
MCBlueprints == PlainBlueprints \cup AskingBlueprints \cup {<< >>}

ASSUME BlueprintsAskWell == \A b \in MCBlueprints : AsksWell(b)
=============================================================================
