CONSTANTS Devs = {thermo, lux}
          Dbdel = 2
          MaxCalls = 3
SPECIFICATION Spec
INVARIANT AssertHolds
