CONSTANTS button = button
          led = led
          lamp = lamp
          Devs <- TwoDevs
          Pins <- OnePin
          CallbackReads = TRUE
          PulseOn = TRUE
          MaxRequests = 1
SPECIFICATION FairSpec
INVARIANT TypeOK
INVARIANT ChangeKept
PROPERTY ChangeHeard
PROPERTY ChangeNoticed
