------------------------------ MODULE GLHQScaler ------------------------------
(***************************************************************************)
(* The OpenGL state the hq scaler sets up and relies on                   *)
(* (src/src/video/GLHQScaler.cc): the constructor creates the edge        *)
(* texture and, for the factors 2, 3 and 4, a linearize, an offset and a  *)
(* weight texture, each bound on the active texture unit as it is made;   *)
(* it then points the shader's samplers at units 0-4.  scaleImage binds   *)
(* the textures of its factor on units 4, 3, 2, 1, makes unit 0 active    *)
(* and activates the hq program, or deactivates it, and draws the source  *)
(* colour texture.  uploadBlock (GLHQEdges) binds the edge texture on     *)
(* whatever unit is active before it uploads rows.                        *)
(*                                                                         *)
(* GL is one state machine shared by all these calls: which texture each  *)
(* unit holds, which unit is active and whether the program is active     *)
(* outlive each call.  ColourTexture::drawRect (GLUtil, not in the        *)
(* source) binds its texture on the active unit and draws; the draw is    *)
(* recorded with the program state and what each sampler reads.          *)
(* The GL 2.0 path of the constructor is taken (GLEW_VERSION_2_0).        *)
(***************************************************************************)
EXTENDS Integers, Sequences

CONSTANTS Width, Height, Pixels

VARIABLES
    frame, tex,        \* the paint frame and the edge texture (GLHQEdges)
    activeUnit,        \* glActiveTexture: the unit bind() acts on
    bound,             \* bound[u]: the texture bound on unit u
    programActive,     \* scalerProgram is the current program
    samplerUnit,       \* the sampler uniforms: the unit each sampler reads
    linearize,         \* linearize[i]: the bytes of linearizeTexture[i]
    lastDraw           \* the last drawRect: program state and what it read

E == INSTANCE GLHQEdges

vars == <<frame, tex, activeUnit, bound, programActive, samplerUnit, linearize, lastDraw>>

Units    == 0..4
Samplers == {"colorTex", "edgeTex", "linearTex", "offsetTex", "weightTex"}
\* A texture: its kind and, for the per-factor ones, the index factor - 2.
Tex(kind, i) == [kind |-> kind, index |-> i]
Colour    == Tex("colour", 0)      \* the source ColourTexture
EdgeTex   == Tex("edge", 0)
Linear(i) == Tex("linear", i)
Offset(i) == Tex("offset", i)
Weight(i) == Tex("weight", i)
NoTexture == Tex("none", 0)
NoDraw    == [program |-> FALSE, factor |-> 0, reads |-> [s \in Samplers |-> NoTexture]]

\* buf[j] = (int)(((256 * j + 128) / (double)n2) + 0.5), stored in a byte.
LinearByte(j, n2) == ((512 * j + 256 + n2) \div (2 * n2)) % 256

\* The linearize ramp of factor i + 2: n2 = n * n bytes.
LinearRamp(i) == LET n2 == (i + 2) * (i + 2) IN [j \in 0..n2 - 1 |-> LinearByte(j, n2)]

(* The constructor: every texture is bound on unit 0 as it is created,    *)
(* the last one weightTexture[2]; the program is activated to set the     *)
(* sampler uniforms and stays active.                                     *)
Init ==
    /\ E!Init
    /\ activeUnit = 0
    /\ bound = [u \in Units |-> IF u = 0 THEN Weight(2) ELSE NoTexture]
    /\ programActive = TRUE
    /\ samplerUnit = [colorTex |-> 0, edgeTex |-> 1, linearTex |-> 2, offsetTex |-> 3, weightTex |-> 4]
    /\ linearize = [i \in 0..2 |-> LinearRamp(i)]
    /\ lastDraw = NoDraw

(* ColourTexture::drawRect: bind the source on the active unit and draw.  *)
(* The samplers and the factor are used only by the hq program.           *)
DrawnWith(b, prog, f) ==
    /\ bound' = [b EXCEPT ![activeUnit'] = Colour]
    /\ lastDraw' = [program |-> prog, factor |-> IF prog THEN f ELSE 0,
                    reads |-> IF prog THEN [s \in Samplers |-> bound'[samplerUnit[s]]]
                              ELSE NoDraw.reads]

\* Fault: the hq textures are bound, but unit 1 is left active.
HqBindingsNoUnit0(f) ==
    /\ activeUnit' = 1
    /\ DrawnWith([bound EXCEPT ![4] = Weight(f - 2), ![3] = Offset(f - 2),
                               ![2] = Linear(f - 2), ![1] = EdgeTex], TRUE, f)

\* The hq branch: units 4, 3, 2, 1 get the textures of factor f, unit 0
\* is made active, then the source is drawn with the program active.
HqBindings(f) ==
    /\ activeUnit' = 0
    /\ DrawnWith([bound EXCEPT ![4] = Weight(f - 2), ![3] = Offset(f - 2),
                               ![2] = Linear(f - 2), ![1] = EdgeTex], TRUE, f)

\* The else branch: scalerProgram->deactivate(), then the plain draw.
Plain(f) ==
    /\ UNCHANGED activeUnit
    /\ DrawnWith(bound, FALSE, f)

(* scaleImage: the factors from the widths and the line counts; the hq    *)
(* program only for 320-pixel lines scaled alike by more than 1.          *)
ScaleImage(srcStartY, srcEndY, srcWidth, dstStartY, dstEndY, dstWidth) ==
    LET factorX == dstWidth \div srcWidth
        factorY == (dstEndY - dstStartY) \div (srcEndY - srcStartY)
        hq      == srcWidth = Width /\ factorX > 1 /\ factorX = factorY
    IN  /\ IF hq THEN HqBindings(factorX) ELSE Plain(factorX)
        /\ programActive' = lastDraw'.program
        /\ UNCHANGED <<frame, tex, samplerUnit, linearize>>

(* uploadBlock: the edge rows of GLHQEdges; for a 320-pixel line the edge *)
(* texture is bound on the active unit for glTexSubImage2D.               *)
UploadBlock(srcStartY, srcEndY, lineWidth) ==
    /\ E!UploadBlock(srcStartY, srcEndY, lineWidth)
    /\ bound' = IF lineWidth # Width THEN bound ELSE [bound EXCEPT ![activeUnit] = EdgeTex]
    /\ UNCHANGED <<activeUnit, programActive, samplerUnit, linearize, lastDraw>>

(* Blocks of the frame; scaleImage of a 2-line block (only the line       *)
(* count enters the GL state) to 2, 4, 5, 6 or 8 lines (factors 1, 2, 2   *)
(* rounded down, 3, 4), from 320-pixel lines or wider ones, to widths of  *)
(* 1 to 4 times 320.                                                      *)
Next ==
    \/ \E s, e \in 0..Height, w \in {Width, Width + 1} : s <= e /\ UploadBlock(s, e, w)
    \/ \E sw \in {Width, 2 * Width}, dw \in {k * Width : k \in 1..4}, dh \in {2, 4, 5, 6, 8} :
          ScaleImage(0, 2, sw, 0, dh, dw)

Spec == Init /\ [][Next]_vars

-----------------------------------------------------------------------------
Textures == {Colour, EdgeTex, NoTexture} \cup {Linear(i) : i \in 0..2}
                \cup {Offset(i) : i \in 0..2} \cup {Weight(i) : i \in 0..2}

TypeOK ==
    /\ E!TypeOK
    /\ activeUnit \in Units
    /\ bound \in [Units -> Textures]
    /\ programActive \in BOOLEAN
    /\ samplerUnit \in [Samplers -> Units]
    /\ \A i \in 0..2 : linearize[i] \in [0..(i + 2) * (i + 2) - 1 -> 0..255]
    /\ lastDraw \in [program : BOOLEAN, factor : 0..4, reads : [Samplers -> Textures]]

(* Every draw made with the hq program active is a 320-pixel draw scaled  *)
(* by 2, 3 or 4, and each sampler of the shader reads the texture meant  *)
(* for it: the source on colorTex, the edge texture, and the linearize,   *)
(* offset and weight textures of that factor.  The units, the active unit *)
(* and the program outlive each call, so this takes the constructor's     *)
(* uniforms, every earlier scaleImage (hq or not) and the uploadBlock     *)
(* binds in between to hold.                                              *)
HqDrawSeesItsTextures ==
    lastDraw.program =>
        /\ lastDraw.factor \in 2..4
        /\ lastDraw.reads = [colorTex  |-> Colour, edgeTex |-> EdgeTex,
                             linearTex |-> Linear(lastDraw.factor - 2),
                             offsetTex |-> Offset(lastDraw.factor - 2),
                             weightTex |-> Weight(lastDraw.factor - 2)]

(* The edge-texture rows uploaded are the edges of the frame (GLHQEdges). *)
EdgeTextureCorrect == E!EdgeTextureCorrect
==============================================================================
