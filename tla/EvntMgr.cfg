CONSTANTS
    Subscriber = {s1, s2}
    Event = {0, 1}
    MaxToken = 2
    MaxNotify = 2
SPECIFICATION Spec
INVARIANTS TypeOK NoLostWakeup InOrderOnce NoneSkipped OnlyRefusedDropped
PROPERTY EventsDrain
