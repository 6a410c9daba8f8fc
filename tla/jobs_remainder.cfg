CONSTANTS
    d1 = d1
    d2 = d2
    d3 = d3
    Docs = {d1, d2, d3}
    BatchSize = 1
    Threshold = 2
    WeeklyCron = FALSE
    MaxRequests = 0
    MaxFaults = 0
    MaxTries = 5
SPECIFICATION Spec
CHECK_DEADLOCK FALSE
PROPERTY
    RemainderIsRequeued
