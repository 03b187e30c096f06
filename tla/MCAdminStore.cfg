\* Two organizations, teams, keys, admin handlers and requests; two units of charges of a fraction.
CONSTANTS
    Orgs = {o1, o2}
    Teams = {t1, t2}
    Keys = {k1, k2}
    Names = {n1, n2}
    Admins = {a1, a2}
    Requests = {r1, r2}
    Balances = {8}
    Spends = {1, 19}
    Parts = 2
    NoRow = NoRow
    NoKey = NoKey
    NoTeam = NoTeam
SYMMETRY Symmetry
SPECIFICATION Spec
INVARIANTS IInv KeyInOrganizationOfTeam RecordsAttributable FlushesSucceed TotalIsCharges BalanceIsGrantLessCharges
CHECK_DEADLOCK FALSE
