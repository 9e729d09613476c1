SPECIFICATION Spec
CONSTANTS
    btok = btok
    dtok = dtok
    h1 = h1
    h2 = h2
    Holders = {h1, h2}
    ReserveTokens = {btok, dtok}
    Scalar7 = 4
    SupplyScalar = 2
    Amounts = {1, 2}
    Shares <- AllShares
    Assigned = {6}
    Week = 2
    AllowanceLife = 2
    MaxTime = 3
    None = None
CONSTRAINT Bound
SYMMETRY HolderSymmetry
INVARIANTS RecordsNeverAhead EmissionsFunded
PROPERTIES ClaimableOnlyGrows NothingEarnedAtOnce
