SPECIFICATION InputSpec
CONSTANTS
    MaxInteger = 40000
    MaxBigint = 50000
    Digits = 60000
    MaxOffset = 1000000
    MaxNumber = 2000000
    Now = 1000
    Soon = 3000
    LastMinute = 90000
    Plans <- SomePlans
INVARIANT DocumentedRequestsDoNotFail
INVARIANT StoredKeepsBounds
