SPECIFICATION FairSpec
CONSTANTS
    Types = {A, B}
    Bodies = {x}
    Receivers = {r1, r2}
    Masks = {{A}, {B}}
    MAX_QUEUED_MSGS = 2
PROPERTY Delivered
