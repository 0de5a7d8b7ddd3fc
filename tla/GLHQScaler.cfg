\* The edge texture and the GL state of the hq scaler over a 3x3 frame.
CONSTANTS
    Width <- MCWidth
    Height <- MCHeight
    Pixels <- MCPixels
SPECIFICATION Spec
INVARIANT TypeOK
INVARIANT EdgeTextureCorrect
INVARIANT HqDrawSeesItsTextures
