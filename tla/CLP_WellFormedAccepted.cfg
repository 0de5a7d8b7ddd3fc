\* Expected violation of WellFormedAccepted.
CONSTANTS MaxArgs <- MCMaxArgs
          FileNames <- MCOneFileName
          UBits <- MCUBits
          SizeBits <- MCSizeBits
SPECIFICATION Spec
INVARIANT WellFormedAccepted
CHECK_DEADLOCK FALSE
