CONSTANTS
    Request = {r1, r2, r3}
    k1 = k1
    k2 = k2
    stranger = stranger
    own = own
    shared = shared
    base = base
    Token = {k1, k2, stranger}
    NoToken = NoToken
    Address = {a1, a2}
    Collection = {own, shared, base}
    Default = base
    NoCollection = NoCollection
    Provisioned = {own, base}
    Environments <- MCEnvironments
    Quota = 1
SYMMETRY MCSymmetry
SPECIFICATION Spec
INVARIANT OwnCorpus
INVARIANT RefusedForItsOwn
