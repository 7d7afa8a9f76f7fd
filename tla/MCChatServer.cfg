SPECIFICATION Spec
CONSTANTS USER_LIMIT = 3 Fds = {f1, f2, f3} NULL = NULL Wild = Wild
SYMMETRY Descriptors
INVARIANTS TableIsSound TextsAreSound
