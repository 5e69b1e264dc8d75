SPECIFICATION SearchSpec
CONSTANTS
  Modals = {o1}
  Abortable = {o1}
  NoModal = NoModal
  Branches = {"a"}
PROPERTY SettledEntriesAreRemoved
