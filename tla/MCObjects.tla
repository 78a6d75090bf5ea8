------------------------------- MODULE MCObjects -------------------------------
(* The objects of a patch that run in pd's own thread, and the routines for *)
(* pixels below them: frame stores, message routing, pixel arithmetic,      *)
(* planes, colours, the objects that scan an image, and the displays.  They *)
(* share no state, so a behaviour is one of one part, chosen initially.     *)
EXTENDS FrameObjects, PatchObjects, PixelArith, PixelPlanes, ColorConvert, Scanners, Display

VARIABLE part

MCTrigger == <<"pdp", "bang", "pdp">>
MCRates == {<<1, 1>>, <<4, 1>>, <<3, 2>>, <<0, 0>>, <<7, 1>>}
MCPixels == {-128, -127, -65, -2, -1, 0, 1, 5, 64, 127}
MCGains == {-9, -4, -1, 0, 1, 3, 4, 20}
MCKernels == {<<1, 2, 1, 0>>, <<4, 4, 0, 4>>, <<-4, 0, 4, 2>>, <<4, 4, 4, 0>>}
MCPolynomials == {<<0, 4, 0>>, <<1, 1, 2>>, <<-2, 0, 2>>, <<0, 2, -2>>, <<0, 1, 1, 2>>}
MCCoefficients == {[ma1 |-> 50, ma2 |-> -20, b0 |-> 40, b1 |-> 30, b2 |-> 10]}
MCImages ==
    [s \in {<<3, 2>>, <<2, 3>>, <<8, 4>>, <<4, 8>>} |->
        IF s[1] * s[2] = 6 THEN [0..5 -> {-128, 100}]
        ELSE {[p \in 0..31 |-> IF p = q THEN 120 ELSE IF p = (q * 5 + 3) % 32 THEN -90 ELSE p]
                 : q \in {0, 5, 6, 11, 13, 22, 31}}]
MCContrast == {-32, -1, 5, 31}
MCScanSizes == {<<3, 2>>}
TwoScanSizes == {<<3, 2>>, <<2, 2>>}
MCSumSizes == {<<2, 2>>, <<3, 2>>}
MCScanLevels == {-3, 0, 1, 2}
MCGreyLevels == {0, 3}
MCArrayValues == {-9, -4, -3, 0, 3, 5, 9}
MCViewSizes == {<<3, 3>>, <<4, 4>>}

ObjectsInit ==
    /\ part \in {"frames", "patch", "pixels", "planes", "colours", "scanners", "view", "sdl"}
    /\ FrameInit /\ PatchInit /\ PixelInit /\ PlanesInit /\ ConvInit /\ ScanInit /\ DisplayInit
    /\ (part = "frames" \/ fobj = "reg") /\ (part = "patch" \/ pobj = "route")
    /\ (part = "scanners" \/ sclass = "cog") /\ (part = "view" \/ view.class = "xv")

ObjectsNext ==
    \/ part = "frames" /\ FrameNext
       /\ UNCHANGED <<part, patchVars, pixcall, planecall, convcall, scanVars, displayVars>>
    \/ part = "patch" /\ PatchNext
       /\ UNCHANGED <<part, frameVars, pixcall, planecall, convcall, scanVars, displayVars>>
    \/ part = "pixels" /\ PixelNext
       /\ UNCHANGED <<part, frameVars, patchVars, planecall, convcall, scanVars, displayVars>>
    \/ part = "planes" /\ PlanesNext
       /\ UNCHANGED <<part, frameVars, patchVars, pixcall, convcall, scanVars, displayVars>>
    \/ part = "colours" /\ ConvNext
       /\ UNCHANGED <<part, frameVars, patchVars, pixcall, planecall, scanVars, displayVars>>
    \/ part = "scanners" /\ ScanNext
       /\ UNCHANGED <<part, frameVars, patchVars, pixcall, planecall, convcall, displayVars>>
    \/ part = "view" /\ ViewNext
       /\ UNCHANGED <<part, frameVars, patchVars, pixcall, planecall, convcall, scanVars, sdlVars>>
    \/ part = "sdl" /\ SdlNext
       /\ UNCHANGED <<part, frameVars, patchVars, pixcall, planecall, convcall, scanVars, viewVars>>

ObjectsSpec ==
    ObjectsInit /\ [][ObjectsNext]_<<part, frameVars, patchVars, pixcall, planecall, convcall, scanVars, displayVars>>

(* What the routines compute agrees with its reference: the arithmetic on   *)
(* pixels, its lanes and its filters at the ends of 16 bits, and the        *)
(* conversion of colours into the planes of a packet and back               *)
(* (pdp_imageproc_portable.c, pdp_llconv_portable.c, pdp_llconv.c).         *)
RoutinesSound == PixelsExact /\ ColoursSound
================================================================================
