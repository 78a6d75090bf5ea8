---------------------------- MODULE PixelPlanes ----------------------------
(* Where the image routines read and write: the dispatchers that hand the   *)
(* planes of a packet to a routine, plasma, the flips, and the resamplers   *)
(* of pdp_imageproc_portable.c, pdp_imageproc_gcc_mmx.c and pdp_resample.c. *)
(* A plane is a function from offsets; what matters of a pixel is where it  *)
(* is, or a small value.  Words have WordBits bits and coordinates twice    *)
(* as many.  Every call of a routine is an action.                          *)
EXTENDS Integers, Sequences, FiniteSets, SequencesExt, FiniteSetsExt, Bitwise

CONSTANTS
    WordBits,      (* width of a pixel *)
    Sides,         (* widths and heights of planes *)
    Contrast       (* pixels that are interpolated *)

VARIABLE planecall

PlanesIdle == [op |-> "none"]
PlaneCall(op, args, out) == planecall' = [op |-> op, args |-> args, out |-> out]
Offsets(w, h) == 0..w * h - 1

--------------------------------------------------------------------------------
(* Dispatch: an image is its encoding, width, height and depth.  The result *)
(* is the sequence of planes handed to the routine, as offset, width and    *)
(* height, the same in all buffers.                                         *)
Channel(mask, i) == (mask \div 2^i) % 2 = 1
(* Mutant: the last chroma plane starts at twice the size of the first. *)
PlanesUnscaled(im) ==
    LET size == im.w * im.h
    IN IF im.encoding = "MCHP" THEN [i \in 1..im.d |-> <<(i - 1) * size, im.w, im.h>>]
       ELSE IF im.encoding = "YV12" THEN <<<<0, im.w, im.h>>, <<size, im.w \div 2, im.h \div 2>>, <<2 * size, im.w \div 2, im.h \div 2>>>>
       ELSE <<<<0, im.w, im.h>>>>
Planes(im) ==
    LET size == im.w * im.h
    IN CASE im.encoding = "GREY" -> <<<<0, im.w, im.h>>>>
         [] im.encoding = "YV12" -> <<<<0, im.w, im.h>>, <<size, im.w \div 2, im.h \div 2>>,
                                      <<size + size \div 4, im.w \div 2, im.h \div 2>>>>
         [] im.encoding = "MCHP" -> [i \in 1..im.d |-> <<(i - 1) * size, im.w, im.h>>]
         [] OTHER -> <<>>
Chosen(chanmask, planes) ==
    LET n == SetToSortSeq({i \in 1..Len(planes) : Channel(chanmask, i - 1)}, <) IN [i \in 1..Len(n) |-> planes[n[i]]]
Mask(im, chanmask) == IF im.chanmask # 0 THEN im.chanmask ELSE chanmask
Shape(im) == <<im.encoding, im.w, im.h, im.d>>
pdp_imageproc_dispatch_1buf(im, chanmask) == Chosen(Mask(im, chanmask), Planes(im))
pdp_imageproc_dispatch_2buf(im, im1, chanmask) ==
    IF Shape(im) # Shape(im1) THEN <<>> ELSE Chosen(Mask(im, chanmask), Planes(im))
(* The third packet is not compared: the second is, twice. *)
pdp_imageproc_dispatch_3buf(im, im1, im2, chanmask) ==
    IF Shape(im) # Shape(im1) THEN <<>> ELSE Chosen(Mask(im, chanmask), Planes(im))

DataSize(im) ==
    LET size == im.w * im.h
    IN CASE im.encoding = "YV12" -> size + size \div 2 [] im.encoding = "MCHP" -> im.d * size [] OTHER -> size
pdp_imageproc_legalwidth(i) == IF i > 0 THEN ((i - 1) \div 8 + 1) * 8 ELSE 8
legal_round_down(i) == IF i > 8 THEN (i \div 8) * 8 ELSE 8

--------------------------------------------------------------------------------
(* Plasma: which pixels have been coloured, and whether one was used before *)
(* that.  New(im, p, from) colours p from the pixels of the set from.  The   *)
(* recursion stops at the first use of a pixel without a colour.            *)
New(im, p, from) == [done |-> im.done \cup {p}, bad |-> im.bad \/ ~(from \subseteq im.done)]

RECURSIVE _plasma_subdiv(_, _, _, _, _, _, _)
_plasma_subdiv(im, w, h, s, at, calc_left, calc_top) ==
    LET w0 == (w - 1) \div 2      h0 == (h - 1) \div 2
        w1 == w - w0              h1 == h - h0
        topright == at + w - 1    bottomleft == at + s * (h - 1)    bottomright == bottomleft + w - 1
        top == at + w0            left == at + s * h0
        bottom == bottomleft + w0 right == topright + s * h0        center == left + w0
        tops(i) == IF calc_top THEN New(i, top, {at, topright}) ELSE i
        lefts(i) == IF calc_left THEN New(i, left, {at, bottomleft}) ELSE i
        rights(i) == New(i, right, {topright, bottomright})
        bottoms(i) == New(i, bottom, {bottomleft, bottomright})
    IN IF im.bad THEN im
       ELSE IF w0 # 0 /\ h0 # 0 THEN
            LET c == New(bottoms(rights(lefts(tops(im)))), center, {top, bottom, left, right})
                q1 == _plasma_subdiv(c, w0 + 1, h0 + 1, s, at, TRUE, TRUE)
                q2 == _plasma_subdiv(q1, w1, h0 + 1, s, top, FALSE, TRUE)
                q3 == _plasma_subdiv(q2, w0 + 1, h1, s, left, TRUE, FALSE)
            IN _plasma_subdiv(q3, w1, h1, s, center, FALSE, FALSE)
       ELSE IF h0 # 0 THEN
            _plasma_subdiv(_plasma_subdiv(rights(lefts(im)), w, h0 + 1, s, at, TRUE, FALSE), w, h1, s, left, TRUE, FALSE)
       ELSE IF w0 # 0 THEN
            _plasma_subdiv(_plasma_subdiv(bottoms(tops(im)), w0 + 1, h, s, at, FALSE, TRUE), w1, h, s, top, FALSE, TRUE)
       ELSE im
pdp_imageproc_plasma_process(w, h) ==
    _plasma_subdiv([done |-> {0, w - 1, w * (h - 1), w * h - 1}, bad |-> FALSE], w, h, w, 0, TRUE, TRUE)

--------------------------------------------------------------------------------
(* Flips exchange pairs of pixels or of rows from the ends inwards.  The    *)
(* blocks of the pairs are apart: Partner(p, ...) is where the loop takes   *)
(* the pixel at p from.                                                     *)
RECURSIVE Partner(_, _, _, _, _)
Partner(p, l, r, step, size) ==
    IF l >= r THEN p
    ELSE IF p \in l..l + size - 1 THEN p + r - l
    ELSE IF p \in r..r + size - 1 THEN p - r + l
    ELSE Partner(p, l + step, r - step, step, size)
pdp_imageproc_flip_lr_process(w, h, data) ==
    [p \in Offsets(w, h) |-> LET row == (p \div w) * w IN data[Partner(p, row, row + w - 1, 1, 1)]]
pdp_llconv_flip_top_bottom(w, h, data) ==
    IF h <= 1 THEN data ELSE [p \in Offsets(w, h) |-> data[Partner(p, 0, w * (h - 1), w, w)]]

--------------------------------------------------------------------------------
(* Bilinear resampling: the four pixels read and the weights, from virtual  *)
(* coordinates of WordBits bits.                                            *)
Fp(virt, side) == virt * (side - 1)
Frac(fp) == fp % 2^WordBits
Bilinear(w, corner, fx, fy) == [reads |-> <<corner, corner + 1, corner + w, corner + w + 1>>, fx |-> fx, fy |-> fy]
pdp_resample_bilin(w, h, vx, vy) ==
    Bilinear(w, Fp(vx, w) \div 2^WordBits + (Fp(vy, h) \div 2^WordBits) * w, Frac(Fp(vx, w)), Frac(Fp(vy, h)))
(* Wide coordinates: 2 * WordBits bits, cut to WordBits bits. *)
Coordinate(c) == (c \div 2^WordBits) % 2^WordBits
(* The vector build keeps a bit less; a neighbour past the edge wraps to 0. *)
WrapToZero(x, max) == IF max > x THEN x ELSE 0
bilin_pixel(w, h, cx, cy) ==
    LET x == Coordinate(cx) \div 2          y == Coordinate(cy) \div 2
        ix == (x * 2 * (w - 1)) \div 2^WordBits iy == ((y * 2 * (h - 1)) \div 2^WordBits) * w
    IN [reads |-> <<ix + iy, WrapToZero(ix + 1, w) + iy, ix + WrapToZero(iy + w, w * h),
                    WrapToZero(ix + 1, w) + WrapToZero(iy + w, w * h)>>,
        fx |-> Frac(x * 2 * (w - 1)), fy |-> Frac(y * 2 * (h - 1))]

Signed32(x) == ((x + 2^(2 * WordBits - 1)) % 2^(2 * WordBits)) - 2^(2 * WordBits - 1)
Weighted(f, a, b) == Signed32((2^WordBits - f) * a + f * b) \div 2^WordBits
InterpolatePortable(b, v) == Weighted(b.fy, Weighted(b.fx, v[1], v[2]), Weighted(b.fx, v[3], v[4]))
Slope(f, a, b) == a + (Signed32((b - a) * f) \div 2^WordBits)
InterpolateVector(b, v) == Slope(b.fy, Slope(b.fx, v[1], v[2]), Slope(b.fx, v[3], v[4]))

(* The affine walk over the output: the coordinate of pixel i of row j, kept *)
(* by adding increments (portable), or pairs of them (vectors).             *)
Wide(x) == x % 2^(2 * WordBits)
RECURSIVE Added(_, _, _)
Added(c, inc, n) == IF n = 0 THEN c ELSE Added(Wide(c + inc), inc, n - 1)
resample_affinemap_walk(origin, row, col, i, j) == Added(Added(origin, col, j), row, i)
pixel_resample_linmap_s16(origin, row, col, i, j) ==
    LET lane == i % 2
        start == Added(Wide(origin + lane * row), col, j)
    IN Added(start, Wide(2 * row), i \div 2)

(* pdp_resample.c.  scale_nn leaves 12 bits of its 32 bit word before the   *)
(* point, 6 here: images wider than 2047, or 31, overflow.                  *)
scale_bilin_coordinate(dst, i) == ((i * ((2^(2 * WordBits - 2)) \div dst)) \div 2^(WordBits - 2)) % 2^WordBits
NearestFraction == 2 * WordBits - 6
scale_nn_index(src, dst, i) ==
    LET scale == Signed32(src * 2^NearestFraction)
    IN (i * (IF scale < 0 THEN -((-scale) \div dst) ELSE scale \div dst)) \div 2^NearestFraction
pdp_resample_halve(w, h, data) ==
    [p \in Offsets(w \div 2, h \div 2) |->
        LET q == 2 * (p \div (w \div 2)) * w + 2 * (p % (w \div 2))
        IN (data[q] + data[q + 1] + data[q + w] + data[q + w + 1]) \div 4]
DoubleWrites(w, x, y) == LET d == 4 * y * w + 2 * x IN {d, d + 1, d + 2 * w, d + 2 * w + 1}
pdp_resample_double(w, h, data) ==
    [d \in Offsets(2 * w, 2 * h) |->
        data[CHOOSE p \in Offsets(w, h) : d \in DoubleWrites(w, p % w, p \div w)]]

--------------------------------------------------------------------------------
ImageSet ==
    [encoding : {"GREY", "YV12", "MCHP"}, w : {8, 16}, h : {8}, d : {1, 4}, chanmask : {0, 2, 7}]
Dispatch == \E im \in ImageSet, im1 \in ImageSet, chanmask \in 0..15 :
    /\ im1.chanmask = 0 /\ im1.w = 8
    /\ PlaneCall("dispatch", <<im, im1, chanmask>>,
         [one |-> pdp_imageproc_dispatch_1buf(im, chanmask), two |-> pdp_imageproc_dispatch_2buf(im, im1, chanmask),
          three |-> pdp_imageproc_dispatch_3buf(im, im1, im1, chanmask)])
Plasma == \E w, h \in Sides : PlaneCall("plasma", <<w, h>>, pdp_imageproc_plasma_process(w, h))
Flip == \E w, h \in Sides :
    LET data == [p \in Offsets(w, h) |-> p]
        lr == pdp_imageproc_flip_lr_process(w, h, data)
    IN PlaneCall("flip", <<w, h>>, [lr |-> lr, tb |-> pdp_llconv_flip_top_bottom(w, h, lr)])
Resample == \E w, h \in Sides, cx \in 0..2^WordBits - 1, cy \in {0, 1, 2^(WordBits - 1), 2^WordBits - 1} :
    LET x == cx * 2^WordBits + 3 y == cy * 2^WordBits + 5
    IN PlaneCall("resample", <<w, h, cx, cy>>,
         [portable |-> pdp_resample_bilin(w, h, Coordinate(x), Coordinate(y)), vector |-> bilin_pixel(w, h, x, y)])
Interpolate == \E v \in [1..4 -> Contrast], fx, fy \in {0, 1, 2^(WordBits - 1), 2^WordBits - 1} :
    LET b == [reads |-> v, fx |-> fx, fy |-> fy]
    IN PlaneCall("interpolate", <<v, fx, fy>>, [portable |-> InterpolatePortable(b, v), vector |-> InterpolateVector(b, v)])
Walk == \E origin, row, col \in {0, 1, 2^(2 * WordBits) - 3, 77}, i \in 0..7, j \in 0..2 :
    PlaneCall("walk", <<origin, row, col, i, j>>,
         [portable |-> resample_affinemap_walk(origin, row, col, i, j),
          vector |-> pixel_resample_linmap_s16(origin, row, col, i, j)])
Scale == \E sw, dw \in Sides \cup {5, 31} :
    PlaneCall("scale", <<sw, dw>>,
         [nearest |-> [i \in 0..dw - 1 |-> scale_nn_index(sw, dw, i)],
          bilinear |-> [i \in 0..dw - 1 |-> scale_bilin_coordinate(dw, i)]])
Resize == \E w, h \in Sides :
    LET data == [p \in Offsets(w, h) |-> (p * 7) % 13]
    IN PlaneCall("resize", <<w, h, data>>, pdp_resample_halve(2 * w, 2 * h, pdp_resample_double(w, h, data)))
Legal == \E i \in -9..40 : PlaneCall("legal", <<i>>, <<pdp_imageproc_legalwidth(i), legal_round_down(i)>>)
PlanesReturn == planecall' = PlanesIdle

PlanesInit == planecall = PlanesIdle
PlanesCall == Dispatch \/ Plasma \/ Flip \/ Resample \/ Interpolate \/ Walk \/ Scale \/ Resize \/ Legal
PlanesNext == \/ planecall = PlanesIdle /\ PlanesCall
              \/ planecall # PlanesIdle /\ PlanesReturn
PlanesSpec == PlanesInit /\ [][PlanesNext]_planecall

--------------------------------------------------------------------------------
Arg == planecall.args
Out == planecall.out
PixelsOf(plane) == plane[1]..plane[1] + plane[2] * plane[3] - 1

(* The dispatchers give a routine exactly the channels the mask asks for,   *)
(* each once, in planes that lie inside the packet's data and apart from    *)
(* each other; the mask of the packet goes before that of the call, and two *)
(* images of different shapes are left alone.                               *)
DispatchExact ==
    planecall.op = "dispatch" =>
        LET im == Arg[1]
            mask == IF im.chanmask = 0 THEN Arg[3] ELSE im.chanmask
            channels == CASE im.encoding = "GREY" -> 1 [] im.encoding = "YV12" -> 3 [] OTHER -> im.d
        IN /\ Len(Out.one) = Cardinality({i \in 0..channels - 1 : Channel(mask, i)})
           /\ \A i, j \in DOMAIN Out.one : i # j => PixelsOf(Out.one[i]) \cap PixelsOf(Out.one[j]) = {}
           /\ \A i \in DOMAIN Out.one : PixelsOf(Out.one[i]) \subseteq 0..DataSize(im) - 1
           /\ mask % 2^channels = 2^channels - 1 => UNION {PixelsOf(Out.one[i]) : i \in DOMAIN Out.one} = 0..DataSize(im) - 1
           /\ Out.two \in {<<>>, Out.one}
           /\ Out.three # <<>> => \A i \in DOMAIN Out.three : PixelsOf(Out.three[i]) \subseteq 0..DataSize(Arg[2]) - 1

(* Plasma colours every pixel of the plane and none outside, and never      *)
(* takes the colour of a pixel that has none yet, for every width and       *)
(* height the recursion comes down to.                                      *)
PlasmaCovers ==
    planecall.op = "plasma" => Out.done = Offsets(Arg[1], Arg[2]) /\ ~Out.bad

(* Both flips together turn the plane by half a turn. *)
FlipsTurn ==
    planecall.op = "flip" => \A p \in Offsets(Arg[1], Arg[2]) : Out.tb[p] = Arg[1] * Arg[2] - 1 - p

(* The resamplers read inside the plane for every coordinate, the result    *)
(* lies between the pixels it is taken from, the vector build visits the    *)
(* coordinates the portable one does, and scaling by nearest neighbour or   *)
(* bilinearly stays inside too.  Interpolation in vectors is left out: see  *)
(* VectorInterpolates.                                                      *)
Between(v, x) == x \in Min({v[i] : i \in 1..4}) - 1..Max({v[i] : i \in 1..4})
ResampleInside ==
    /\ planecall.op = "resample" =>
          \A b \in {Out.portable, Out.vector} : \A i \in 1..4 : b.reads[i] \in Offsets(Arg[1], Arg[2])
    /\ planecall.op = "interpolate" => Between(Arg[1], Out.portable)
    /\ planecall.op = "walk" => Out.portable = Out.vector
    /\ planecall.op = "scale" =>
          /\ \A i \in DOMAIN Out.nearest : Out.nearest[i] \in 0..Arg[1] - 1
          /\ Arg[1] = Arg[2] => \A i \in DOMAIN Out.nearest : Out.nearest[i] = i
          /\ \A i \in DOMAIN Out.bilinear : Out.bilinear[i] >= (IF i = 0 THEN 0 ELSE Out.bilinear[i - 1])
    /\ planecall.op = "resize" => Out = Arg[3]
    /\ planecall.op = "legal" =>
          /\ \A n \in {Out[1], Out[2]} : n % 8 = 0 /\ n > 0
          /\ Arg[1] > 0 => Out[1] \in Arg[1]..Arg[1] + 7 /\ (Arg[1] >= 8 => Out[2] \in Arg[1] - 7..Arg[1])

(* A routine sees each plane asked for once, with its own size; flips turn, *)
(* plasma covers the image, and resampling reads inside the source and      *)
(* keeps its order.                                                         *)
PlanesSound == DispatchExact /\ PlasmaCovers /\ FlipsTurn /\ ResampleInside

(* Interpolation in the vector build stays between the pixels too.  It does *)
(* not: the difference of two pixels times the fraction leaves a 32 bit     *)
(* word where the contrast is high.  A comment says the word is 64 bits     *)
(* wide on 64 bit machines, the code declares an int.                       *)
VectorInterpolates == planecall.op = "interpolate" => Between(Arg[1], Out.vector)
================================================================================
