SPECIFICATION Spec
CONSTANTS
    QuoteScale = 64
    MaxLiquidity = 240
    MinSqrtPrice = 2
    MaxSqrtPrice = 16
    BaseAmounts = {0, 1, 2, 3, 4, 5}
    QuoteAmounts = {0, 1, 2, 3, 4}
    SqrtPrices = {1, 2, 3, 4, 5, 6, 7, 8, 9, 10, 11, 12, 13, 14, 15, 16, 17}
INVARIANTS
    LargestAffordable
    RefusedForCause
CHECK_DEADLOCK FALSE
