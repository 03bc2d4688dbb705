SPECIFICATION EntrySpec
CONSTANTS
    NoPact = NoPact
    traced = traced
    guessed = guessed
    one = one
    two = two
    Flows = {one, two}
    Pacts <- TwoPacts
    Served <- ServedPacts
    Modelled = {guessed}
    Gated = {traced}
    Segmented = {NoPact, guessed}
    MaxCount = 2
SYMMETRY AnyFlow
INVARIANT SetUpCurrent
PROPERTY NoLightLost
PROPERTY CreatedServable
