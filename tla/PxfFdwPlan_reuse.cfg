\* Dispatcher and segment backends, one-shot and cached plans.
CONSTANTS
    NULL = NULL
    Roles = {"dispatch", "execute"}
SPECIFICATION Spec
INVARIANT PlanPrivateLive
