\* Expected violation of StartsWithMachine.
CONSTANTS MaxArgs <- MCMaxArgs
          FileNames <- MCOneFileName
          UBits <- MCUBits
          SizeBits <- MCSizeBits
SPECIFICATION Spec
INVARIANT StartsWithMachine
CHECK_DEADLOCK FALSE
