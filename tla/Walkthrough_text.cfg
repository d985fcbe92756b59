SPECIFICATION Spec
CONSTANTS
    FrameGap = 60
    Unwritten = "nowhere"
INVARIANTS TextShowsEveryPicture
