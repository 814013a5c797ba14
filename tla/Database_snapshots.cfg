CONSTANTS Devs = {thermo, lux}
          Dbdel = 2
          MaxCalls = 5
SPECIFICATION Spec
INVARIANT TypeOK
INVARIANT ReportHonest
PROPERTY WholeSnapshots
