\* Two keys or buttons at a time.
CONSTANTS
    Keyboard <- Keys
    Buttons <- Mouse
    Escape = "ESCAPE"
    Moves <- ToMove
    Fires <- ToFire
    Rebindable <- Order
    Default <- Config
    MaxHeld = 2
SPECIFICATION Spec
INVARIANTS
    BindingsAreSound
    ResetRestores
    KeyWaitIsOnScreen
PROPERTIES
    StuckOnlyWhenAway
