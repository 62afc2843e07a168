SPECIFICATION Spec
CONSTANTS
  Clients = {c1, c2}
  Editors = {c1}
  Songs = {1, 2}
  Names = {1}
  MaxSongs = 2
  MaxRev = 3
  MaxEdits = 2
  NoDrag <- MCNoDrag
  Kinds <- ListKinds
  Lists <- ListsOf
  Patch <- patch
  Diff <- LineDiff
  AddIds <- addIdToPlaylistDiff
  ServerEdits <- DaemonEdits
  RestoreEdits <- restore
  Drags <- Draggable
  Edits <- DropsOn
INVARIANTS TypeOK HoldersAgree Converged
CHECK_DEADLOCK FALSE
