\* A member who acts twice, another member, two requests that fail.
CONSTANTS
    Me = me
    Others = {o}
    MaxClicks = 2
    MaxFails = 1
    MaxPolls = 1
SPECIFICATION Spec
INVARIANTS TypeOK OneAtATime
PROPERTIES OwnActionShown BoardCatchesUp ButtonsComeBack
CHECK_DEADLOCK FALSE
