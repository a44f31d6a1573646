CONSTANTS
    Dirs = {1, 2, 3, 4}
    Track <- MCTrack
    VideoTrack = "videos"
    Leading <- MCLeading
    MaxTime = 0
SPECIFICATION Spec
PROPERTY NeverRefused
