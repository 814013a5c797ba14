CONSTANTS button = button
          led = led
          lamp = lamp
          Devs <- TwoDevs
          Pins <- OnePin
          CallbackReads = FALSE
          PulseOn = TRUE
          MaxRequests = 1
SPECIFICATION FairSpec
PROPERTY ChangeNoticed
