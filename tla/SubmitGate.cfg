SPECIFICATION Spec
CONSTANTS
    MaxEdits = 2
    MaxPledges = 2
INVARIANT GateMirrorsWizard
