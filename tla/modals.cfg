SPECIFICATION Spec
CONSTANTS
    Subviews <- SomeSubviews
    None = None
    Gestures <- AllGestures
    MaxNesting = 1
    MaxContexts = 2
INVARIANTS
    TypeOK
    ModalAnswerable
    ReturnPathsAgree
    EscBacksOut
PROPERTIES
    FocusFitsMode
