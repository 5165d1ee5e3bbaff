\* Two requests, a worker and the ticker; one of: the job, ten seconds, a failure.
SPECIFICATION Spec
CONSTANTS
    MaxUser = 1
    Requests = {r1, r2}
    Workers = {w1, w2}
    Ticker = w2
    Job = Job
    Nobody = Nobody
    UserRequestsOverlap = FALSE
    MaxHappenings = 1
INVARIANT TypeOK
INVARIANT CoherentUnlessOverlapped
INVARIANT RoutesNotOlderThanLoad
INVARIANT BuyRouteHasSellRoute
 
SYMMETRY Symmetry
\* The requests end.
CHECK_DEADLOCK FALSE
