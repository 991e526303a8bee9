CONSTANTS
    payment = payment
    booking = booking
    Clients = {c1, c2}
    Routes = {payment, booking}
    Passes500 = {booking}
    MaxConcurrentCalls <- Permits
    BurstCapacity <- Bursts
    SlidingWindow = 1
    HalfOpenCalls = 2
    Retries = 1
    MaxChanges <- Changes
SPECIFICATION FairGatewaySpec
INVARIANTS
    TypeOK
    PermitsConserved
    RefusedIsUnsent
    RoutesAreIsolated
    HalfOpenDecides
PROPERTIES
    PermitReturns
CHECK_DEADLOCK FALSE
