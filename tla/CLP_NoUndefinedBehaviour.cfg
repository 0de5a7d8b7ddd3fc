\* Expected violation of NoUndefinedBehaviour.
CONSTANTS MaxArgs <- MCMaxArgs
          FileNames <- MCOneFileName
          UBits <- MCUBits
          SizeBits <- MCSizeBits
SPECIFICATION Spec
INVARIANT NoUndefinedBehaviour
CHECK_DEADLOCK FALSE
