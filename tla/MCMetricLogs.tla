--------------------------- MODULE MCMetricLogs ---------------------------
EXTENDS MetricLogs
===========================================================================
