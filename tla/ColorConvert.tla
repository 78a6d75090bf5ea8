---------------------------- MODULE ColorConvert ----------------------------
(* Conversion of raw images (system/image/pdp_llconv.c and                  *)
(* pdp_llconv_portable.c): bytes of a packed or planar format to the planes *)
(* of 16 bit pixels of a YV12 packet and back.  Bytes, words and            *)
(* coefficients have the code's widths.  A raw image is a function from     *)
(* byte offsets, a packet one from pixel offsets; a call is an action.      *)
EXTENDS Integers, Sequences, FiniteSets, SequencesExt, FiniteSetsExt

CONSTANTS
    Levels,        (* bytes tried for a colour component *)
    Widths,        (* columns, a multiple of 4 *)
    Heights        (* rows, a multiple of 2 *)

ASSUME ConvAssumption ==
    /\ \A x \in Levels : x \in Nat /\ x <= 255
    /\ \A w \in Widths : w \in Nat \ {0} /\ w % 4 = 0
    /\ \A h \in Heights : h \in Nat \ {0} /\ h % 2 = 0

VARIABLE convcall

ConvIdle == [op |-> "none"]
Bounded(x, lo, hi) == IF x < lo THEN lo ELSE IF x > hi THEN hi ELSE x
CLAMP8(x) == Bounded(x, 0, 255)
CLAMP16C(x) == Bounded(x, -32767, 32767)
Half(x) == x \div 2
Short(x) == ((x + 32768) % 65536) - 32768

(* The coefficients FP(x): x * 256 without its fraction *)
rgb2y(c) == 65 * c.r + 129 * c.g + 25 * c.b + 16 * 256
rgb2v(c) == 112 * c.r - 94 * c.g - 18 * c.b
rgb2u(c) == -(37 * c.r) - 74 * c.g + 112 * c.b

--------------------------------------------------------------------------------
(* rgb to planes: a block of 2 x 2 pixels is one pixel of chroma.  The      *)
(* colour of the block is that of its lower row: the third pixel starts the *)
(* sum again.                                                               *)
Component(src, at, i) == [r |-> src[at + i[1]], g |-> src[at + i[2]], b |-> src[at + i[3]]]
PlaneOf(w, h, p) == IF p < w * h THEN "y" ELSE IF p < w * h + (w * h) \div 4 THEN "v" ELSE "u"
ChromaAt(w, h, p) == (p - w * h) % ((w * h) \div 4)
(* the pixel offset of the upper left of chroma pixel c *)
BlockOf(w, c) == 2 * w * (c \div (w \div 2)) + 2 * (c % (w \div 2))
PacketPixels(w, h) == 0..w * h + (w * h) \div 2 - 1
rgb2yvu_planar16sub_indexed(src, w, h, index, stride) ==
    [p \in PacketPixels(w, h) |->
        LET at(q) == Component(src, q * stride, index)
            block == BlockOf(w, ChromaAt(w, h, p))
        IN CASE PlaneOf(w, h, p) = "y" -> CLAMP16C(Half(rgb2y(at(p))))
             [] PlaneOf(w, h, p) = "v" -> CLAMP16C(Half(rgb2v(at(block + w)) + rgb2v(at(block + w + 1))))
             [] OTHER -> CLAMP16C(Half(rgb2u(at(block + w)) + rgb2u(at(block + w + 1))))]
llconv_rgb2yvu_planar8sub(src, w, h) ==
    [p \in PacketPixels(w, h) |->
        LET at(q) == Component(src, q * 3, <<0, 1, 2>>)
            block == BlockOf(w, ChromaAt(w, h, p))
            left == at(block + w)
            right == at(block + w + 1)
        IN CASE PlaneOf(w, h, p) = "y" -> CLAMP8(rgb2y(at(p)) \div 256)
             [] PlaneOf(w, h, p) = "v" -> CLAMP8((rgb2v(left) + rgb2v(right)) \div 512 + 128)
             [] OTHER -> CLAMP8((rgb2u(left) + rgb2u(right)) \div 512 + 128)]

(* planes to rgb *)
ChromaOf(w, p) == (p \div (2 * w)) * (w \div 2) + (p % w) \div 2
llconv_yvu16planar2rgbpacked(src, w, h) ==
    [b \in 0..3 * w * h - 1 |->
        LET p == b \div 3
            v == src[w * h + ChromaOf(w, p)]
            u == src[w * h + (w * h) \div 4 + ChromaOf(w, p)]
            y1 == 297 * (src[p] * 2) - 16 * 256 * 256
            chroma == CASE b % 3 = 0 -> 408 * v [] b % 3 = 1 -> -(208 * v) - 100 * u [] OTHER -> 516 * u
        IN CLAMP8((chroma + y1) \div 65536)]

(* 8 bit planes, both ways *)
pixel_unpack_y(x) == x * 128
pixel_unpack_uv(x) == Short(x * 256 + 32768)
pixel_pack_y(x) == CLAMP8(x \div 128)
pixel_pack_uv(x) == ((x + 32768) % 65536) \div 256
llconv_yvu_planar_u8s16(src, n) == [p \in DOMAIN src |-> IF p < n THEN pixel_unpack_y(src[p]) ELSE pixel_unpack_uv(src[p])]
llconv_yvu_planar_s16u8(src, n) == [p \in DOMAIN src |-> IF p < n THEN pixel_pack_y(src[p]) ELSE pixel_pack_uv(src[p])]
llconv_yuv_planar_u8s16(src, n) ==
    LET quarter == n \div 4 IN
    [p \in DOMAIN src |->
        IF p < n THEN pixel_unpack_y(src[p])
        ELSE pixel_unpack_uv(src[IF p < n + quarter THEN p + quarter ELSE p - quarter])]
llconv_grey_s16u8(src) == [p \in DOMAIN src |-> pixel_pack_y(src[p])]

(* packed 4:2:2: byte 0 of a pair of pixels is Y or U, in words of four.    *)
(* The chroma of two rows is averaged in 16 bits, then its sign is flipped. *)
Packed422(src, w, h, y, u, v) ==
    [p \in PacketPixels(w, h) |->
        LET block == BlockOf(w, ChromaAt(w, h, p))
            byte(q, k) == src[(q \div 2) * 4 + k]
            chroma(k) == Short(byte(block, k) * 128 + byte(block + w, k) * 128 + 32768)
        IN CASE PlaneOf(w, h, p) = "y" -> src[p * 2 + y] * 128
             [] PlaneOf(w, h, p) = "v" -> chroma(v)
             [] OTHER -> chroma(u)]
llconv_yuyv_packed_u8s16(src, w, h) == Packed422(src, w, h, 0, 1, 3)
llconv_uyvy_packed_u8s16(src, w, h) == Packed422(src, w, h, 1, 0, 2)

(* The table: which conversions exist *)
pdp_llconv(stype, dtype, src, w, h) ==
    CASE <<stype, dtype>> = <<"YVU8", "YVU16">> -> llconv_yvu_planar_u8s16(src, w * h)
      [] <<stype, dtype>> = <<"YUV8", "YVU16">> -> llconv_yuv_planar_u8s16(src, w * h)
      [] <<stype, dtype>> = <<"YUYV", "YVU16">> -> llconv_yuyv_packed_u8s16(src, w, h)
      [] <<stype, dtype>> = <<"UYVY", "YVU16">> -> llconv_uyvy_packed_u8s16(src, w, h)
      [] <<stype, dtype>> = <<"RGB", "YVU8">> -> llconv_rgb2yvu_planar8sub(src, w, h)
      [] <<stype, dtype>> = <<"RGB", "YVU16">> -> rgb2yvu_planar16sub_indexed(src, w, h, <<0, 1, 2>>, 3)
      [] <<stype, dtype>> = <<"RGBA", "YVU16">> -> rgb2yvu_planar16sub_indexed(src, w, h, <<0, 1, 2>>, 4)
      [] <<stype, dtype>> = <<"BGR", "YVU16">> -> rgb2yvu_planar16sub_indexed(src, w, h, <<2, 1, 0>>, 3)
      [] <<stype, dtype>> = <<"BGRA", "YVU16">> -> rgb2yvu_planar16sub_indexed(src, w, h, <<2, 1, 0>>, 4)
      [] <<stype, dtype>> = <<"YVU16", "RGB">> -> llconv_yvu16planar2rgbpacked(src, w, h)
      [] <<stype, dtype>> = <<"YVU16", "YVU8">> -> llconv_yvu_planar_s16u8(src, w * h)
      [] <<stype, dtype>> = <<"GREY16", "GREY8">> -> llconv_grey_s16u8(src)

--------------------------------------------------------------------------------
(* An image whose left half has one colour and whose right half another.    *)
Colour == [r : Levels, g : Levels, b : Levels]
Bytes(format, w, h, left, right) ==
    LET stride == IF format \in {"RGB", "BGR"} THEN 3 ELSE 4
        order == IF format \in {"RGB", "RGBA"} THEN <<"r", "g", "b", "a">> ELSE <<"b", "g", "r", "a">>
        part(p) == IF p % w < w \div 2 THEN left ELSE right
    IN [i \in 0..w * h * stride - 1 |->
            LET name == order[(i % stride) + 1] IN IF name = "a" THEN 9 ELSE part(i \div stride)[name]]
FromRGB == \E format \in {"RGB", "RGBA", "BGR", "BGRA"}, w \in Widths, h \in Heights, left, right \in Colour :
    LET src == Bytes(format, w, h, left, right)
        image == pdp_llconv(format, "YVU16", src, w, h)
    IN convcall' = [op |-> "rgb", args |-> <<format, w, h, left, right>>,
                    out |-> [image |-> image, rgb |-> pdp_llconv("YVU16", "RGB", image, w, h),
                             planar |-> IF format = "RGB" THEN pdp_llconv("RGB", "YVU8", src, w, h) ELSE <<>>]]

(* Planes with the values of an 8 bit image, by plane and offset *)
Luma(p) == (p * 29) % 256
Chroma(plane, c) == IF plane = "u" THEN (c * 53 + 7) % 256 ELSE (200 - c * 31) % 256
FromPlanar == \E w \in Widths, h \in Heights, swapped \in BOOLEAN :
    LET n == w * h
        src == [p \in PacketPixels(w, h) |->
                  LET first == IF swapped THEN "u" ELSE "v"
                      second == IF swapped THEN "v" ELSE "u"
                  IN IF p < n THEN Luma(p)
                     ELSE Chroma(IF p < n + n \div 4 THEN first ELSE second, ChromaAt(w, h, p))]
        image == pdp_llconv(IF swapped THEN "YUV8" ELSE "YVU8", "YVU16", src, w, h)
    IN convcall' = [op |-> "planar", args |-> <<w, h>>,
                    out |-> [image |-> image, bytes |-> pdp_llconv("YVU16", "YVU8", image, w, h),
                             grey |-> pdp_llconv("GREY16", "GREY8", [p \in 0..n - 1 |-> image[p]], w, h)]]
FromPacked == \E w \in Widths, h \in Heights, format \in {"YUYV", "UYVY"} :
    LET y == IF format = "YUYV" THEN 0 ELSE 1
        src == [i \in 0..2 * w * h - 1 |->
                  LET c == ChromaOf(w, i \div 2)
                  IN IF i % 2 = y THEN Luma(i \div 2) ELSE Chroma(IF i % 4 < 2 THEN "u" ELSE "v", c)]
        image == pdp_llconv(format, "YVU16", src, w, h)
    IN convcall' = [op |-> "planar", args |-> <<w, h>>,
                    out |-> [image |-> image, bytes |-> pdp_llconv("YVU16", "YVU8", image, w, h), grey |-> <<>>]]
ConvReturn == convcall' = ConvIdle

ConvInit == convcall = ConvIdle
ConvNext ==
    \/ convcall = ConvIdle /\ (FromRGB \/ FromPlanar \/ FromPacked)
    \/ convcall # ConvIdle /\ ConvReturn
ConvSpec == ConvInit /\ [][ConvNext]_convcall

--------------------------------------------------------------------------------
Distance(x, y) == IF x < y THEN y - x ELSE x - y

(* A colour survives the way into a packet and back, whatever the order and *)
(* the number of the bytes of a pixel: each component returns within 3      *)
(* levels (black comes back lighter: the offset of the luma is subtracted   *)
(* after its gain).  The 8 bit planes are the 16 bit ones, packed.          *)
ColourReturns ==
    convcall.op = "rgb" =>
        LET w == convcall.args[2] h == convcall.args[3]
            want(p) == IF p % w < w \div 2 THEN convcall.args[4] ELSE convcall.args[5]
            rgb == convcall.out.rgb
        IN /\ \A p \in 0..w * h - 1 :
                /\ Distance(rgb[3 * p], want(p).r) <= 3
                /\ Distance(rgb[3 * p + 1], want(p).g) <= 3
                /\ Distance(rgb[3 * p + 2], want(p).b) <= 3
           /\ convcall.args[1] = "RGB" =>
                \A p \in PacketPixels(w, h) :
                    convcall.out.planar[p] =
                    IF p < w * h THEN pixel_pack_y(convcall.out.image[p]) ELSE pixel_pack_uv(convcall.out.image[p])

(* The planar and packed formats with the same luma and chroma give the     *)
(* same packet, and it comes back byte by byte: the planes are where the    *)
(* packet keeps V and U, whichever comes first in the source.               *)
FormatsAgree ==
    convcall.op = "planar" =>
        LET w == convcall.args[1] h == convcall.args[2]
            want(p) == IF p < w * h THEN Luma(p)
                       ELSE Chroma(IF p < w * h + (w * h) \div 4 THEN "v" ELSE "u", ChromaAt(w, h, p))
        IN \A p \in PacketPixels(w, h) : convcall.out.bytes[p] = want(p)

(* An image that goes from rgb to the planar format and back has its        *)
(* colours within the rounding of the fixed point, at its own place, and    *)
(* the packed and planar formats put the same components in the same        *)
(* planes.                                                                  *)
ColoursSound == ColourReturns /\ FormatsAgree
================================================================================
