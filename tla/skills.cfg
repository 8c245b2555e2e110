SPECIFICATION MCSpec
CONSTANTS
    Workers = {w1, w2}
    Ops = {o1, o2}
    v1 = v1
    v2 = v2
    s1 = s1
    Skills = {s1}
    Versions = {v1, v2}
    SkillOf <- MCSkillOf
    MaxTrouble = 1
    MaxGen = 3
    None = None
CHECK_DEADLOCK FALSE
INVARIANTS
    TypeOK
    ActiveIsServed
    IndexMatchesSkills
    ServedHasFiles
    PublishedOnce
PROPERTIES
    ImplementsCatalog
SYMMETRY Symmetry
ACTION_CONSTRAINT InTime
