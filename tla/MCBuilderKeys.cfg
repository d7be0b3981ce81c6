CONSTANTS
    Ids = {"s1", "s2", "t1"}
    DraftIds = {"d1", "d2"}
    Templates <- MCTemplates
    AiPlans = {}
    MaxHistory = 2
    Looks = {0}
    TypeOf <- MCTypeOf
    MaxErrors = 0
    MaxConcurrent = 3
    MaxTimers = 1
    PublicOnce <- MCPublicOnce
    PublicPolled <- MCPublicPolled
    PublicLast <- MCPublicLast
    AuthedPolled <- MCAuthedPolled
    AuthedOnce <- MCAuthedOnce
    Batches = {}
SPECIFICATION EditorSpec
PROPERTY
    KeysEditTheOpenDraft
CHECK_DEADLOCK FALSE
