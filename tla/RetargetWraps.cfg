CONSTANTS
    Width = 24
    ByteBits = 4
    accuracy = 20
    btc_low_rate = 20
    ltc_low_rate = 2
SPECIFICATION Spec
INVARIANT AdjustmentStepLimited
