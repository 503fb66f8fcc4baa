------------------------------ MODULE PhaseOrder ------------------------------
(***************************************************************************)
(* bp_phase_order (gui/blueprint.c): the stages of one phase of a          *)
(* blueprint, ordered by `requires`.  The function goes over all stages    *)
(* again and again, each time taking the stages whose requirements are     *)
(* already taken, until a pass takes none.  One action per evaluation of   *)
(* the outer loop's condition and per stage looked at.                     *)
(***************************************************************************)
EXTENDS Integers, Sequences, FiniteSets

CONSTANTS
  Stages,       \* stage records with at least id, phase and requires
  Blueprints,   \* sequences of stages
  Phase,        \* the phase asked for
  NoId,         \* a stage without an id
  Cap,          \* length of emitted[] (256 in the code)
  Room          \* length of the caller's out[] (W.ord, 64 in the code)

ASSUME BlueprintAssumption == Blueprints \subseteq Seq(Stages) /\ Cap \in Nat

\* bp_phase_order is not told how long out[] is and neither it nor bp_load
\* counts the stages: it relies on blueprints that fit.
ASSUME RoomAssumption ==
  /\ Room \in Nat
  /\ \A b \in Blueprints :
       Cardinality({k \in 1..Len(b) : k <= Cap /\ b[k].phase = Phase}) <= Room

VARIABLES
  bp,           \* the blueprint
  at,           \* "pass": loop condition, "stage": loop body, "done": returned
  pass, i, progress,
  emitted,      \* the stages taken
  order         \* out[0 .. count-1]

orderVars == <<bp, at, pass, i, progress, emitted, order>>

Index == 1..Len(bp)
Scanned == {k \in Index : k <= Cap}
Wanted == {k \in Index : bp[k].phase = Phase}
Requires(k, j) == bp[j].id # NoId /\ bp[j].id \in bp[k].requires

\* (mutant of Ready) one requirement that is met is enough
ReadyByOne(k) ==
  \/ bp[k].requires = {}
  \/ \E id \in bp[k].requires : \A j \in Scanned \cap Wanted :
                                  bp[j].id = id => j \in emitted

\* (mutant of Ready) stages of the other phase hold a stage back too
ReadyAcrossPhases(k) == \A j \in Scanned : Requires(k, j) => j \in emitted

\* A stage is held back by every scanned stage of its phase that bears a
\* required id and is not taken yet.
Ready(k) == \A j \in Scanned \cap Wanted : Requires(k, j) => j \in emitted

OrderInit == /\ bp \in Blueprints
             /\ at = "pass"
             /\ pass = 0
             /\ i = 1
             /\ progress = FALSE
             /\ emitted = {}
             /\ order = << >>

Looping == pass < Len(bp) + 1 /\ Len(order) < Cardinality(Wanted)

BeginPass == /\ at = "pass"
             /\ Looping
             /\ at' = "stage"
             /\ i' = 1
             /\ progress' = FALSE
             /\ UNCHANGED <<bp, pass, emitted, order>>

Return == /\ at = "pass"
          /\ ~Looping
          /\ at' = "done"
          /\ UNCHANGED <<bp, pass, i, progress, emitted, order>>

Takes(k) == k \in Wanted /\ k \notin emitted /\ Ready(k)

Take == /\ at = "stage"
        /\ i \in Scanned
        /\ Takes(i)
        /\ order' = Append(order, i)
        /\ emitted' = emitted \cup {i}
        /\ progress' = TRUE
        /\ i' = i + 1
        /\ UNCHANGED <<bp, at, pass>>

Skip == /\ at = "stage"
        /\ i \in Scanned
        /\ ~Takes(i)
        /\ i' = i + 1
        /\ UNCHANGED <<bp, at, pass, progress, emitted, order>>

EndPass == /\ at = "stage"
           /\ i \notin Scanned
           /\ \/ /\ progress
                 /\ at' = "pass"
                 /\ pass' = pass + 1
              \/ /\ ~progress
                 /\ at' = "done"
                 /\ UNCHANGED pass
           /\ UNCHANGED <<bp, i, progress, emitted, order>>

OrderNext == BeginPass \/ Return \/ Take \/ Skip \/ EndPass

OrderSpec == OrderInit /\ [][OrderNext]_orderVars

-----------------------------------------------------------------------------
(* What the caller relies on. *)

OrderTypeOK ==
  /\ bp \in Blueprints
  /\ at \in {"pass", "stage", "done"}
  /\ pass \in 0..(IF at = "stage" THEN Len(bp) ELSE Len(bp) + 1)
  /\ i \in 1..(Len(bp) + 1)
  /\ progress \in BOOLEAN
  /\ emitted \subseteq Scanned \cap Wanted
  /\ order \in Seq(Index)

\* A stage's page comes after the page of every stage it requires, however the
\* file orders them.
RequirementsFirst ==
  \A p \in DOMAIN order :
    \A k \in Scanned \cap Wanted :
      Requires(order[p], k) => \E q \in 1..(p - 1) : order[q] = k

\* No stage has two pages.
EachOnce == \A p, q \in DOMAIN order : order[p] = order[q] => p = q

\* Stages that wait for each other: a cycle, or what depends on one.
Stuck(S) == \A k \in S : \E j \in S : Requires(k, j)

\* The function drops the stages of a cycle and those behind it, without a
\* word, and it drops no other: neither the limit on passes nor a pass that
\* takes nothing ends it too early.
DropsOnlyStuck ==
  at = "done" =>
    \A k \in Scanned \cap Wanted :
      k \notin emitted <=>
        \E S \in SUBSET (Scanned \cap Wanted) : k \in S /\ Stuck(S)

\* "stable topo sort": a file whose stages already come after what they
\* require keeps its order.
KeepsFileOrder ==
  (\A k, j \in Scanned \cap Wanted : Requires(k, j) => j < k) =>
    /\ \A p, q \in DOMAIN order : p < q => order[p] < order[q]
    /\ at = "done" => emitted = Scanned \cap Wanted

=============================================================================
