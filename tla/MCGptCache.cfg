CONSTANTS
  Slots <- TwoSlots
  Guids = {g1, g2}
  Types = {basic, efi}
  Zero = Zero
  Nothing = Nothing
  Faults = TRUE
  MaxOps = 4
SPECIFICATION Spec
SYMMETRY Interchangeable
INVARIANTS TypeOK EffectiveIsWhole
PROPERTIES ObjectsMatchDisk UpdateTakesEffect NoStaleWriteBack
