SPECIFICATION Spec
CONSTANTS
    Chars <- MCChars
    Names <- MCNames
    Ids <- MCIds
    Tails <- MCTails
    Other = Other
    MaxSent = 3
INVARIANTS TypeOK HandledStemFromSent LossesAreCuts CountKeepsUp
