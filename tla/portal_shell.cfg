SPECIFICATION ShellFairSpec
CONSTANTS
    Nobody = Nobody
    Iedc = Iedc
    Users = {u1, u2}
    Clubs = {c1}
    Accounts <- MCAccounts
    MaxActs = 2
CHECK_DEADLOCK FALSE
PROPERTIES
    PageSettles
    SentAwayOnlyWithoutPages
