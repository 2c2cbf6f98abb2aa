SPECIFICATION Spec
CONSTANTS
    Width = 3
    Height = 4
    Glyphs = {"a", "b"}
    Texts <- MCTexts
    Titles = {2}
    Spots <- MCSpots
    MaxTyped = 2
    MaxKeys = 5
INVARIANTS
    TypeOK
    StoresNearScreen
    CursorSettles
    ScreenShowsText
