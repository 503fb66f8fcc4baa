SPECIFICATION Spec
CONSTANTS
  MaxExpr = 20
  MaxAtom = 10
  MaxKey = 1
  Unreadable = Unreadable
  Missing = Missing
  EOL = EOL
  SP = SP
  Pending = Pending
  TargetCap = 64
INVARIANTS WhenIsItsFormula TemplateIsFilledIn PlainAnswersComeBack InstallsWhatWasPicked AreaIsDrawn TouchGoesWhereItShows
CHECK_DEADLOCK FALSE
