SPECIFICATION Spec
CONSTANTS
    Nodes = {n1, n2}
    Free = Free
PROPERTIES
    StartsWithinWindow
