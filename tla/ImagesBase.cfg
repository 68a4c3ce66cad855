SPECIFICATION Spec
CONSTANTS
    Entries = {e1}
    Catalogs = {{}, {e1}}
    Downloaders = {d1, d2}
    VMs = {n1}
    MaxVersion = 2
    MaxParts = 2
INVARIANT BaseUnchanged
CHECK_DEADLOCK FALSE
