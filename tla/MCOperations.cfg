SPECIFICATION Spec
INVARIANTS
    MachineNumbersFaithful
    ProofsSound
    DimensionsAgree
    SurfaceKeepsMeaning
    AnswersHonest
    NumbersHold
    PacksHonest
