SPECIFICATION KeySpec
CONSTANTS
    None = None
    Fds = {3, 4}
INVARIANTS
    KeyTypeOK
    KeyFromFirstSource
    DescriptorsClosed
    TextsWiped
CHECK_DEADLOCK FALSE
