SPECIFICATION Spec
CONSTANTS
    b1 = b1
    b2 = b2
    l1 = l1
    l2 = l2
    l3 = l3
    v1 = v1
    v2 = v2
    None = None
    Browsers <- MCBrowsers
    Logins <- MCLogins
    OwnerOf <- MCOwnerOf
    Visits = {v1, v2}
SYMMETRY LoginSymmetry
INVARIANTS VerifierMatchesCode TransientsOneTime RetryPossible
