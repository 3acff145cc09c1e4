CONSTANTS
    Users = {1, 2, 3}
    MaxBytes = 5
    ObjectSize = 2
SPECIFICATION HashmapSpec
CHECK_DEADLOCK FALSE
INVARIANT
    HashmapRehashReset
