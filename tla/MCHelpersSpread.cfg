CONSTANTS
    U32Max <- MCU32Max
    MainnetDai = MainnetDai
    KovanDai = KovanDai
    RinkebyDai = RinkebyDai
    RopstenDai = RopstenDai
    OtherAddr = OtherAddr
    Address <- MCAddress
    AttoExp <- MCAttoExp
    p1 = p1  p2 = p2  p3 = p3
    t1 = t1  t2 = t2  h1 = h1  h2 = h2  h3 = h3  u1 = u1  u2 = u2
    EthAddress <- MCEthAddress
    None = None
    RedeemLogMsg = RedeemLogMsg
    RefundLogMsg = RefundLogMsg
    TransferLogMsg = TransferLogMsg
SPECIFICATION Spec
INVARIANT SpreadNewIsPercent
