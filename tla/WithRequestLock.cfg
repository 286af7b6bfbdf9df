CONSTANTS
    Chat = {c1, c2}
    Round = {r1}
    Delegate = {d1}
    Channel = {ch1}
    Limit = 1
    MaxResets = 1
SPECIFICATION FairSpec
INVARIANTS
    TypeOK
    NoSlotLeaks
    ModelBounded
PROPERTIES
    EveryoneServed
    EveryoneLeaves
