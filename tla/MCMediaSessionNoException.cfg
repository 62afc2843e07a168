SPECIFICATION Spec
CONSTANTS
  Clients = {c1, c2}
  Editors = {c1, c2}
  Songs = {1, 2}
  Names = {1, 2}
  MaxSongs = 3
  MaxRev = 2
  MaxEdits = 2
  NoDrag <- MCNoDrag
  Kinds <- ListKinds
  Lists <- ListsOf
  Patch <- patch
  Diff <- LineDiff
  AddIds <- addIdToPlaylistDiff
  ServerEdits <- DaemonEdits
  RestoreEdits <- restore
  Drags <- Draggable
  Edits <- DropsOn
INVARIANTS NoExceptionIsOk
CHECK_DEADLOCK FALSE
SYMMETRY Symmetry
