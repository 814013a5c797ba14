CONSTANTS Word = 24
          NumTimers = 2
          Delays = {0, 3}
          Pulse = 2
          Dogs = {0}
          Slow = 2
          MaxRequests = 2
SPECIFICATION Spec
PROPERTY FiresNotEarly
