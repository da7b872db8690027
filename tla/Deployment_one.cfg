\* One controller that may crash at any step; two intents share a key and a credential.
CONSTANTS
    c1 = c1
    c2 = c2
    i1 = i1
    i2 = i2
    k1 = k1
    cred1 = cred1
    noIntent = noIntent
    NoIntent <- noIntent
    Controllers <- MCOneController
    Intents <- MCTwoIntents
    Keys <- MCKeys
    KeyOf <- MCKeyOfTwo
    Creds <- MCCreds
    CredOf <- MCCredOfTwo
SPECIFICATION FairSpec
INVARIANTS
    KeyIsUnique
    StopBarsDeploy
PROPERTIES
    CallsReturn
