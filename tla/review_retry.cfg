\* One command at a time, a schedule two instants ahead: a grade whose answer
\* is lost is given again before the card is due.
CONSTANTS
    c1 = c1
    c2 = c2
    Cards = {1, 2}
    Calls = {c1}
    Grades = {"good"}
    Limit = 2
    MaxTime = 1
    MaxInterval = 2
SPECIFICATION Spec
INVARIANT NoDoubleApply
