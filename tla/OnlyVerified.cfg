CONSTANTS
    Accounts = {platform, alice, bob}
    Platform = platform
    Officers = {platform}
    Countries = {344}
    Zero = zero
    Caps = {0, 12}
    LockupEnds = {0, 1}
    MaxTime = 1
    Word = 21
    Denominator = 10
    MaxRate = 1
    Amounts = {10}
    Rates = {0, 1, 2}
    Collectors = {zero, platform}
    MaxFeatures = 2
SPECIFICATION Spec
SYMMETRY Symmetry
CONSTRAINT FewFeatures
PROPERTY OnlyVerifiedTrade
