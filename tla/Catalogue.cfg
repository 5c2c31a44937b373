SPECIFICATION Spec
CONSTANTS
    r1 = r1
    r2 = r2
    p1 = p1
    p2 = p2
    p3 = p3
    Sessions = {r1, r2}
    Images = {p1, p2, p3}
    MinPhotos = 1
    MaxPhotos = 2
    MaxStyles = 2
    MaxDeaths = 1
SYMMETRY Symmetry
INVARIANTS
    TypeOK
    OneDraft
    BrokenPhotosWereBeingDeleted
    PhotosInOrder
