------------------------------- MODULE Choices -------------------------------
(***************************************************************************)
(* From a list of partitions to the one the user picked: the lines of      *)
(* prp-targets are joined to one text for an LVGL dropdown                 *)
(* (enumerate_install_targets, gui/prp_gui.c), the option picked is copied *)
(* out again (capture_step, gui/prp_wizard.c), and prp-install takes the   *)
(* first word of it.                                                       *)
(***************************************************************************)
EXTENDS Integers, Sequences, FiniteSets, FiniteSetsExt

CONSTANTS
  EOL,  \* '\n'
  SP    \* ' '

\* enumerate_install_targets: what does not fit is cut off, within a line too.
\* Lines are shorter than fgets' buffer, and there is one at least: the text
\* shown for an empty list is left out.
TargetList(lines, cap) ==
  LET Added(text, line) ==
        LET more == (IF text = << >> THEN << >> ELSE <<EOL>>) \o line
        IN  IF line = << >> THEN text
            ELSE text \o SubSeq(more, 1, Min({Len(more), cap - 1 - Len(text)}))
      list[n \in 0..Len(lines)] ==
        IF n = 0 THEN << >> ELSE Added(list[n - 1], lines[n])
  IN  list[Len(lines)]

\* (mutant of Selected) the options are counted from one
SelectedFromOne(options, n, size) ==
  LET ends == {0, Len(options) + 1} \cup {p \in DOMAIN options : options[p] = EOL}
      end == CHOOSE p \in ends : Cardinality({q \in ends : q < p}) = n - 1
      start == IF end = 0 THEN 1 ELSE Max({q \in ends : q < end}) + 1
  IN  SubSeq(options, start, Min({end - 1, start + size - 2}))

\* lv_dropdown_get_selected_str: the n-th of the options, cut to the buffer.
Selected(options, n, size) ==
  LET ends == {0, Len(options) + 1} \cup {p \in DOMAIN options : options[p] = EOL}
      end == CHOOSE p \in ends : Cardinality({q \in ends : q < p}) = n
      start == Max({q \in ends : q < end}) + 1
  IN  SubSeq(options, start, Min({end - 1, start + size - 2}))

Count(options) == Cardinality({p \in DOMAIN options : options[p] = EOL}) + 1

\* The first word of what --disk gets: the partition prp-install takes.
FirstWord(text) ==
  LET blanks == {p \in DOMAIN text : text[p] = SP}
  IN  IF blanks = {} THEN text ELSE SubSeq(text, 1, Min(blanks) - 1)
=============================================================================
