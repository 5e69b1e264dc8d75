SPECIFICATION SearchSpec
CONSTANTS
  Modals = {s1, o1}
  Abortable = {o1}
  NoModal = NoModal
  Branches = {"a", "b"}
INVARIANTS
  TypeOK
  PendingIsOnStack
PROPERTIES
  SettledModalsLeave
  EscapeComesDown
  AnswersAreFollowedOnce
  SelectionIsKept
