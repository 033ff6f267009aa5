SPECIFICATION SuiteSpec
CHECK_DEADLOCK FALSE
CONSTANTS MaxPairs = 2 MaxModes = 1 MaxLost = 1
          Payloads = {"media", "recordings"} NUnits = 2 Ips = {"i1"} Callers = {"c1"} Limit = 1
INVARIANTS FedSound OpSound AdmSound SecSound
PROPERTIES PairingSettles OpSettles AdmSettles SecSettles
