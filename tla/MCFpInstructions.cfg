CONSTANTS
  Half32 = 2
  Half64 = 4
  CodeSize = 2
  Others <- MCOthers
  GuestFills <- MCGuestFills
  OtherFills <- MCOtherFills
  Register <- MCRegister
  Vector <- MCVector
  ByteAt <- MCByteAt
SPECIFICATION MachineSpec
INVARIANT FlagsInv
INVARIANT ComputesAsArm
INVARIANT AddressesAsArm
INVARIANT GuestExecutes
