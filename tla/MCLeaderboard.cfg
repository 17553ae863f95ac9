SPECIFICATION Spec
CONSTANTS
    Learners = {u1, u2, u3, u4}
    Names <- MCNames
    Lower <- MCLower
    BoardLimit = 3
    Guest = Guest
    NoName = NoName
    Malformed = Malformed
    MaxSolved = 1
    MaxMeanwhile = 1
SYMMETRY LearnerSymmetry
INVARIANTS
    ListsThoseWhoAsked
    MarkedLineIsYours
    SoloPlacesCountThoseAhead
PROPERTIES
    CutSparesTheBestSolo
