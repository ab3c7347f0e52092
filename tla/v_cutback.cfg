SPECIFICATION Spec
CONSTANTS
    None = None
    NoGoal = NoGoal
    Models = {"m1", "m2"}
    Bhais = {b1, b2}
    Goals = {"g1"}
    MaxSaid = 3
    MaxTroubles = 2
PROPERTIES
    NotCutBack
SYMMETRY Swapped
CHECK_DEADLOCK FALSE
