SPECIFICATION Spec
CONSTANTS
    Paragraphs = {p1, p2}
    Fingerprints = {f1, f2}
    Reviewed = {f1}
    Limit = 1
    MaxAttempt = 1
    MaxTexts = 2
SYMMETRY Symmetry
INVARIANTS
    TranslationsKept
    ReviewBudgetHolds
    ApprovalIsOfText
PROPERTIES
    PaidOnce
