SPECIFICATION Spec
CONSTANTS
    Paragraphs = {p1}
    Fingerprints = {f1}
    Reviewed = {f1}
    Limit = 2
    MaxAttempt = 2
    MaxTexts = 2
INVARIANTS
    RepairPreserves
