SPECIFICATION Spec
CONSTANTS
  Slots <- MCSlots
  Bios = "bios"
  LoadOrder <- MCOrder
  Images = {i1, i2}
  BuiltIn = BuiltIn
  Torn = Torn
  None = None
PROPERTY StepIsConfigured
