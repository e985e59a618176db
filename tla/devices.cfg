SPECIFICATION Spec
CONSTANTS
  Callers = {a, b}
  Value = "v"
  Names <- MCNames
  Teams <- MCTeams
  Programs <- MCPrograms
  Props <- MCProps
  MaxAlarms = 2
  MaxMoves = 1
SYMMETRY CallerSymmetry
INVARIANTS TypeOK HonestCommands OffSilences InfoOfThisCall
