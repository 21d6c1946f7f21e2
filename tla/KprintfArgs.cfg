CONSTANT Calls <- MCCalls
SPECIFICATION Spec
CHECK_DEADLOCK FALSE
PROPERTY PrintsItsArguments
