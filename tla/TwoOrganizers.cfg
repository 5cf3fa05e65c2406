SPECIFICATION Spec
CONSTANTS
    o1 = o1  o2 = o2
    zoo = zoo  sea = sea
    ali = ali  badr = badr  carim = carim
    bus = bus  car = car
    amal = amal
    None = None
    Organizers = {o1, o2}
    Trips = {zoo}
    People = {ali}
    Groups = {}
    Rounds = {1, 2}
    Students = {amal}
    Amounts = {0, 1}
    MaxPeople = 2
    MaxGroups = 1
    MaxRounds = 2
    MaxVersion = 4
SYMMETRY MCSymmetry
INVARIANTS PagesAreFresh
PROPERTIES EditsAsSeen
