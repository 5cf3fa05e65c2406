SPECIFICATION Spec
CONSTANTS
    o1 = o1  o2 = o2
    zoo = zoo  sea = sea
    ali = ali  badr = badr  carim = carim
    bus = bus  car = car
    amal = amal
    None = None
    Organizers = {o1}
    Trips = {zoo}
    People = {ali, badr, carim}
    Groups = {bus}
    Rounds = {1, 2}
    Students = {}
    Amounts = {0}
    MaxPeople = 2
    MaxGroups = 1
    MaxRounds = 2
    MaxVersion = 7
SYMMETRY MCSymmetry
INVARIANTS HeadcountIsRoster DependentsAccompanied
PROPERTIES PastRoundsFrozen
