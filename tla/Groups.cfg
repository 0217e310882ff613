SPECIFICATION Spec
CONSTANTS
    owner = owner  a = a  c1 = c1  c2 = c2  p1 = p1
    Users = {owner, a}
    Owner = owner
    Calls = {c1, c2}
    Posts = {p1}
    MaxFaults = 1
INVARIANTS StaleIsPaid PostersSeeTheGroup
SYMMETRY Symmetry
