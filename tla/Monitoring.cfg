\* All four rules, one restart of the service.
CONSTANT MaxRestarts = 1
SPECIFICATION Spec
PROPERTY LastingConditionAlerts
