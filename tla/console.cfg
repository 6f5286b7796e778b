SPECIFICATION Spec
CONSTANTS
    home = home
    other = other
    Leads = {home, other}
    Home = home
    Slots = {1, 2}
    MaxWrites = 1
  
PROPERTY LockEnds
