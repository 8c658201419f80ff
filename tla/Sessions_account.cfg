SPECIFICATION Spec
CONSTANTS
    s1 = s1
    s2 = s2
    q1 = q1
    t1 = t1
    t2 = t2
    Thread = {t1, t2}
    Session = {s1, s2}
    Reset = {q1}
    MaxPassword = 3
    MaxToken = 3
    NoSession = NoSession
    NoReset = NoReset
    NoWork = NoWork
SYMMETRY Symmetric
INVARIANTS TokensFormChain ReuseIsFatal SessionsProvePassword ReplacementsBuildOnCurrent
PROPERTIES RevocationIsFinal
