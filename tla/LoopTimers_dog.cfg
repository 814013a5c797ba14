CONSTANTS Word = 12
          NumTimers = 1
          Delays = {0, 2}
          Pulse = 2
          Dogs = {0, 1, 2}
          Slow = 1
          MaxRequests = 1
SPECIFICATION Spec
INVARIANT FedInTime
