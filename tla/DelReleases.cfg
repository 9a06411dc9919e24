SPECIFICATION Spec
CONSTANTS
    v1 = v1
    v2 = v2
    v3 = v3
    None = None
    a = a
    b = b
    Key = {a, b}
    Value = {v1, v2, v3}
    Cell = {1, 2, 3, 4}
PROPERTY DelReleases
CHECK_DEADLOCK FALSE
