CONSTANTS
    rot1 = rot1
    rot2 = rot2
    mirror1 = mirror1
    mirror2 = mirror2
    multiply1 = multiply1
    multiply2 = multiply2
    dummy1 = dummy1
    dummy2 = dummy2
    None = None
    Names <- AllNames
    Executors <- AllExecutors
    NameOf <- NameFunction
    BuiltIn <- Constructed
SPECIFICATION Spec
INVARIANT OwnedOnce
PROPERTY RefinesRegistry
