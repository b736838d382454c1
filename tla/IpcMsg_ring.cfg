SPECIFICATION FairSpec
CONSTANTS
    Types = {A, B}
    Bodies = {x}
    Receivers = {r1, r2}
    Masks = {{}, {A}, {B}}
    MAX_QUEUED_MSGS = 3
INVARIANT MailboxOK
PROPERTIES
    MQSpec
    DeliveredToOne
