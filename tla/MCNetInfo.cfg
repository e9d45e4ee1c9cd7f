SPECIFICATION NetSpec
CONSTANTS
  Id = {0, 1}
  Pci = {"p1", "p2"}
  NoPci = "none"
  Broadcast = Broadcast
  Machines <- MCMachines
  Numberings <- MCNumberings
  MaxCalls = 2
INVARIANTS
  NetTypeOK
  AddressesBelongToTheirDevice
  NilMeansWritten
  EmptyOnlyWhenCutOff
