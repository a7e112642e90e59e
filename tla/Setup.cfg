SPECIFICATION FairSpec
CONSTANTS
  t1 = t1
  t2 = t2
  Tables = {t1, t2}
  AuditColumns = {op_type, cdc_version}
  Prepared <- MCPrepared
  MaxFaults = 2
  Probes = {p1}
INVARIANTS TypeOK CdcMeansReady FailureExplained RefusedByLeftover
PROPERTIES SlotLast Recovers
