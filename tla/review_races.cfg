\* Two cards, two commands in flight, two instants: grades cross, answers
\* are lost and retried, the screen moves on meanwhile.
CONSTANTS
    c1 = c1
    c2 = c2
    Cards = {1, 2}
    Calls = {c1, c2}
    Grades = {"again", "easy"}
    Limit = 2
    MaxTime = 1
    MaxInterval = 1
SPECIFICATION Spec
SYMMETRY Symmetry
INVARIANTS
    TypeOK
    CardReflectsAReview
    UncrossedGradesAllCount
    OnlyKeptCardsReviewed
    SittingShowsACard
PROPERTIES
    GradesAreAtomic
