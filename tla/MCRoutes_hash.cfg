CONSTANTS
 Api <- MCApi
 Reads <- MCReads
 Required <- MCRequired
 MaxLen = 5
 Width = 3
SPECIFICATION RoutesSpec
INVARIANTS EveryRouteServed
CHECK_DEADLOCK FALSE
