SPECIFICATION Spec
CONSTANTS
    Runs = {r1}
    Locations = {home}
    Temp = temp
    Services = {wifi}
PROPERTY FailureIsUndone
