SPECIFICATION Spec
CONSTANTS
    d1 = d1
    d2 = d2
    s38 = s38
    Devices = {d1, d2}
    Owners = {d1, d2}
    Sizes = {s38}
    Days = {1}
    MaxStyles = 1
    MaxItems = 2
    MaxEdits = 1
SYMMETRY Symmetry
CONSTRAINT OneFormOrTwoPieces
INVARIANTS
    TypeOK
    RedirectsEnd
PROPERTIES
    SavedStepsLeadOn
    DatesAreReplaced
    PublishedShopKeepsItsPath
