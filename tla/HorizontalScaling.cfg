SPECIFICATION HorizontalSpec
CONSTANTS
  Ports = {0, 1, 2, 3, 4, 5}
  NumSlots = 16
  NumInitial = 3
  AddFails = TRUE
  OutFails = TRUE
  InFails = FALSE
INVARIANT HorizontalTypeOK PairsAccounted PartnerCovered PartnersEmptied
CHECK_DEADLOCK FALSE
