SPECIFICATION Spec
CONSTANTS
    MaxCookies = 1
PROPERTIES
    TimesOut
\* One call is followed to its return.
CHECK_DEADLOCK FALSE
