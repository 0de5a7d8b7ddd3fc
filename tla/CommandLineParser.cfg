\* The parse of every command line of up to four arguments.  A parse ends
\* (returns or throws), so the final states have no successor.
CONSTANTS MaxArgs <- MCMaxArgs
          FileNames <- MCFileNames
          UBits <- MCUBits
          SizeBits <- MCSizeBits
SPECIFICATION Spec
INVARIANT TypeOK
INVARIANT ArgsHandledOnce
INVARIANT HelpSuppressesMachine
INVARIANT SingleMachineLoad
INVARIANT FileTypeByExtension
CHECK_DEADLOCK FALSE
