SPECIFICATION FairSpec
CONSTANTS
    Latest = 3
    Major <- MCMajor
    Reporting <- MCReporting
    WithEdits <- MCWithEdits
    MaxFaults = 2
INVARIANTS
    RecipeLeadsBack
    DumpForWhatServes
PROPERTIES
    UpgradeCompletes
