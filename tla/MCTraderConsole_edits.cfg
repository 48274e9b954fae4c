SPECIFICATION ConsoleSpec
CONSTANTS
    Products = {p1, p2}
    Prices = {1}
    Accounts = {a1}
    Categories = {c1}
    Segments = {s1}
    MaxPhotos = 2
    MaxTexts = 2
    MaxPreviews = 2
SYMMETRY Symmetry
INVARIANTS
    SerialEditsStick
    YesAnswersTheQuestion
