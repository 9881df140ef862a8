SPECIFICATION AlertsFairSpec
CONSTANTS
    QueueSize = 1
    MaxRetries = 2
    MaxDay = 2
    MaxAlerts = 4
INVARIANTS EventsAreAccounted ScheduledOnce
PROPERTIES ReportArrives
CHECK_DEADLOCK FALSE
