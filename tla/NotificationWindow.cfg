SPECIFICATION FairSpec
CONSTANTS
    t1 = t1
    t2 = t2
    t3 = t3
    n1 = n1
    n2 = n2
    m1 = m1
    m2 = m2
    None = None
    Tasks = {t1, t2}
    Notifications = {n1, n2}
    Marks = {m1, m2}
    NotificationOf <- MCNotificationOf
    MarkOf <- MCMarkOf
    Invalid = {}
    MinAttempts = 1
    MaxAttempts = 1
    Faults = {}
PROPERTIES
    WindowHolds
