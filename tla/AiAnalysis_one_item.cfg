SPECIFICATION Spec
CONSTANTS
    n1 = n1
    a1 = a1
    a2 = a2
    Analyses = {n1}
    Items = {"item"}
    Accounts = {a1, a2}
    Priority <- SomePriorities
    Gateways <- SomeGateways
    Admins = {"admin"}
    MaxEvents = 2
INVARIANT TypeOK
INVARIANT ErrorHasReason
INVARIANT PicturesArrive
INVARIANT SettingsHold
