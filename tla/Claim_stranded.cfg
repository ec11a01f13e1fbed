SPECIFICATION ClaimSpec
CONSTANTS
    o1 = o1  o2 = o2  o3 = o3
    p1 = p1  p2 = p2
    r1 = r1  r2 = r2
    None = None
    Packages = {p1, p2}
    Orders = {o1, o2, o3}
    Riders = {r1}
    Legacy <- NoOldFile
    Wish <- WishTwo
    MaxFaults = 1
INVARIANT ClaimedIsCarried
CHECK_DEADLOCK FALSE
