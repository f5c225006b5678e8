\* Two handlers next to the background refresher, one key.
SPECIFICATION Spec
CONSTANTS
    h1 = h1
    h2 = h2
    k1 = k1
    Refresher = bg
    Tasks <- TwoHandlers
    Keys <- OneKey
INVARIANT IssuedKeysStay
