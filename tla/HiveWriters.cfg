SPECIFICATION WritersSpec
CONSTANTS
    Tasks = {t1, t2}
    Nobody = Nobody
    Ops <- InHive
    Statements = 1
INVARIANT SuccessIsKept
