SPECIFICATION HistorySpec
CONSTANTS
  None = None
  h1 = h1
  h2 = h2
  i1 = i1
  i2 = i2
  n1 = n1
  n2 = n2
  ann = ann
  mod = mod
  f1 = f1
  Handlers <- TwoHandlers
  Requests = {i1, i2}
  NoteIds = {n1, n2}
  Users = {ann, mod}
  Mods = {mod}
  Forms = {f1}
  Calls <- SomeCalls
SYMMETRY Symmetric
INVARIANTS NotesOK BlockHolds
PROPERTIES StruckByName AnswersTrue BlockUndoneOnlyByOldForm ImplementsLog
