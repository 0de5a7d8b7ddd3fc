\* Expected violation of HelptextWrapped.  formatHelptext returns or throws: its final
\* states have no successor.
CONSTANTS
    MaxLen <- MCMaxLen
    MaxLength <- MCMaxLength
    MaxNames <- MCMaxNames
    MaxNameLen <- MCMaxNameLen
    Columns <- MCColumns
SPECIFICATION Spec
INVARIANT HelptextWrapped
CHECK_DEADLOCK FALSE
