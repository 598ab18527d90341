SPECIFICATION Spec
CONSTANTS
    r1 = r1
    r2 = r2
    alone = alone
    Deployments <- Both
    Families <- ViewFamilies
    FamilyOf <- Family
    MaxEntries = 1
    Threshold = 2
    ResetTimeout = 2
    ComputeBound = 1
    MaxOutages = 1
INVARIANT StalenessBounded
INVARIANT NotHammered
SYMMETRY ReplicasAreAlike
