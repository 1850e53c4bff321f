SPECIFICATION Spec
CONSTANTS
    Switcher = {s1, s2}
    Sets = {a, b, c}
    None = None
    MaxFaults = 2
INVARIANTS SwitchedOrNot StillNamed NoRepair LossIsTold
