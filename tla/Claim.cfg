SPECIFICATION ClaimFairSpec
CONSTANTS
    o1 = o1  o2 = o2  o3 = o3
    p1 = p1  p2 = p2
    r1 = r1  r2 = r2
    None = None
    Packages = {p1, p2}
    Orders = {o1, o2, o3}
    Riders = {r1, r2}
    Legacy <- OneOldFile
    Wish <- WishTwo
    MaxFaults = 2
INVARIANT HeldIsClaimed
PROPERTY OneOwner
PROPERTY AskedAgainHolds
CHECK_DEADLOCK FALSE
