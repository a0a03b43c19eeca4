SPECIFICATION CxSpec
CHECK_DEADLOCK FALSE
INVARIANT CxParamsKept
