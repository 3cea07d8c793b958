SPECIFICATION FairSpec
CONSTANT Frames = {0, 1, 2}
INVARIANT ShowsLatest
PROPERTY CallIsAnswered
PROPERTY PictureIntact
PROPERTY CallReturns
