SPECIFICATION MasterSpec
INVARIANT RingOnlyOnHook
