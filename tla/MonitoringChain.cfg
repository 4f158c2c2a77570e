\* The chain-broken rule against the exported series.
CONSTANT MaxRestarts = 0
SPECIFICATION Spec
PROPERTY ChainBreakAlerts
