----------------------------- MODULE PixelArith -----------------------------
(* The pixel arithmetic of system/image in its two C builds: "portable"     *)
(* (pdp_imageproc_portable.c) and "mmx" (pdp_imageproc_gcc_mmx.c, vectors   *)
(* of four), with the routines both share (pdp_imageproc_common.c).  A      *)
(* pixel is a signed word of Bits bits and an accumulator one of 2 * Bits   *)
(* bits (16 and 32 in the code, smaller here).  Every call of a routine is  *)
(* an action that picks its arguments and keeps its result beside them.     *)
EXTENDS Integers, Sequences, FiniteSets, SequencesExt, FiniteSetsExt, Bitwise

CONSTANTS
    Bits,          (* width of a pixel *)
    Pixels,        (* the pixels tried *)
    Gains,         (* the float parameters tried, in units of 1 / GainOne *)
    GainOne,
    Thresholds,    (* thresholds tried *)
    Kernels,       (* <<min1, zero, plus1, border>> of a convolution, as floats *)
    Polynomials,   (* coefficients of pdp_cheby, as floats *)
    Coefficients,  (* biquad coefficients *)
    Images         (* image contents, from their numbers of columns and rows *)

VARIABLE pixcall   (* the last call: its arguments and its result *)

NoCall == [op |-> "none"]
P == 2^(Bits - 1)
One == P - 1
Builds == {"portable", "mmx"}

Signed(x, n) == ((x + 2^(n - 1)) % 2^n) - 2^(n - 1)
s16(x) == Signed(x, Bits)
s32(x) == Signed(x, 2 * Bits)
Asr(x, n) == x \div 2^n
Clip(x, lo, hi) == IF x < lo THEN lo ELSE IF x > hi THEN hi ELSE x
CLAMP16(x) == Clip(x, -One, One)
Saturate(x) == Clip(x, -P, One)
mulhi(a, b) == Asr(a * b, Bits)
Truncate(n, d) == IF n >= 0 THEN n \div d ELSE -((-n) \div d)

float2fixed(f) == Truncate(Clip(f, -GainOne, GainOne) * One, GainOne)

--------------------------------------------------------------------------------
(* Operations on one pixel *)
ByBuild(build, portable, vector) == IF build = "portable" THEN portable ELSE vector

add_process(a, b) == CLAMP16(a + b)
add_process_mmx(a, b) == Saturate(a + b)
mul_process(a, b) == s16(Asr(a * b, Bits - 1))
mul_process_mmx(a, b) == mulhi(a, b)

(* A left gain of zero copies the right image. *)
mix_process(left, right, a, b) ==
    IF left = 0 THEN b ELSE CLAMP16(Asr(s32(a * left + b * right), Bits - 1))
mix_process_mmx(left, right, a, b) ==
    LET sum == Saturate(mulhi(left, a) + mulhi(right, b))
    IN IF left = 0 THEN b ELSE Saturate(sum + sum)

(* A gain is a word and a shift: doubled until it has Bits - 1 bits, at     *)
(* most Bits + 1 times.                                                     *)
Shift(f) ==
    LET mag == IF f < 0 THEN -f ELSE f
        enough == {k \in 0..Bits + 1 : mag * 2^k >= 2^(Bits - 2) * GainOne}
    IN IF enough = {} THEN Bits + 1 ELSE Min(enough)
gain_setgain(f) == s32(Truncate(f * 2^Shift(f), GainOne))
gain_setgain_mmx(f) == s16(Truncate(f * 2^Shift(f), GainOne))
gain_process(f, a) == CLAMP16(Asr(s32(gain_setgain(f) * a), Shift(f)))
gain_process_mmx(f, a) == Saturate(Asr(gain_setgain_mmx(f) * a, Shift(f)))

crot2d_row(m, n, c1, c2) == CLAMP16(Asr(s32(m * c1 + n * c2), Bits - 1))
crot2d_process(m, c1, c2) == <<crot2d_row(m[1], m[3], c1, c2), crot2d_row(m[2], m[4], c1, c2)>>

randmix_process(threshold, r, a, b) ==
    IF r < float2fixed(Clip(threshold, 0, GainOne)) THEN b ELSE a

(* Chebyshev polynomials: coefficients c[1] .. c[order + 1] *)
ChebyPortable(c, in) ==
    LET fixed(k) == Truncate(c[k + 1] * One, GainOne)
        s[k \in 1..Len(c) - 1] ==
            IF k = 1 THEN [t1 |-> in, t2 |-> One, acc |-> s32(fixed(0) + Asr(s32(in * fixed(1)), Bits - 1))]
            ELSE LET q == s[k - 1] IN LET t == s32(Asr(s32(q.t1 * in), Bits - 2) - q.t2)
                 IN [t1 |-> t, t2 |-> q.t1, acc |-> s32(q.acc + Asr(s32(fixed(k) * t), Bits - 1))]
    IN s[Len(c) - 1].acc
Twice(x) == Saturate(x + x)
pixel_cheby_s16_3plus(c, x) ==
    LET quarter(k) == Truncate(Clip(c[k + 1], -4 * GainOne, 4 * GainOne) * One, 4 * GainOne)
        s[k \in 1..Len(c) - 1] ==
            IF k = 1 THEN [t1 |-> x, t2 |-> One, acc |-> Saturate(mulhi(quarter(1), x) + Asr(quarter(0), 1))]
            ELSE LET q == s[k - 1] IN LET t == Twice(Twice(Saturate(mulhi(x, q.t1) - Asr(q.t2, 2))))
                 IN [t1 |-> t, t2 |-> q.t1, acc |-> Saturate(q.acc + mulhi(quarter(k), t))]
    IN Twice(Twice(Twice(s[Len(c) - 1].acc)))
cheby_process(build, c, passes, x) ==
    LET iterate[i \in 0..passes] ==
            IF i = 0 THEN x
            ELSE ByBuild(build, ChebyPortable(c, iterate[i - 1]), pixel_cheby_s16_3plus(c, iterate[i - 1]))
    IN ByBuild(build, CLAMP16(iterate[passes]), iterate[passes])

--------------------------------------------------------------------------------
(* Operations on a word of two pixels *)
Word == 2^(2 * Bits)
Lane == 2^Bits
Pair(top, bottom) == (top % Lane) * Lane + (bottom % Lane)
Top(w) == s16(w \div Lane)
Bottom(w) == s16(w % Lane)
Complement(w) == Word - 1 - w
_sign(w) == (IF Top(w) < 0 THEN (Lane - 1) * Lane ELSE 0) + (IF Bottom(w) < 0 THEN Lane - 1 ELSE 0)
_decouple(w) == IF (w \div Lane) % 2 = 1 THEN w - Lane ELSE w

abs_process(w) == w ^^ _sign(w)
zthresh_process(w) == w & Complement(_sign(w))
hardthresh_process(t, w) ==
    LET both == Pair(t, t)
        less == (_decouple(w ^^ _sign(w)) - both) % Word
        keep == Complement(_sign(less))
        zeroed == _decouple(less & keep)
    IN ((zeroed + (both & keep)) % Word) ^^ _sign(w)
softthresh_process(t, w) ==
    LET less == (_decouple(w ^^ _sign(w)) - Pair(t, t)) % Word
    IN _decouple(less & Complement(_sign(less))) ^^ _sign(w)
ispositive_process(w) == Complement(_sign(w))
sign_process(w) == _sign(w) ^^ Pair(One, One)
xor_process(w, v) == w ^^ v
and_process(w, v) == w & v
or_process(w, v) == w | v
not_process(w) == w ^^ (Word - 1)
mask_process(mask, w) == w & Pair(mask, mask)

--------------------------------------------------------------------------------
(* Convolution of a line in place: count pixels of data from base, stride  *)
(* apart; d = <<min1, zero, plus1, border>>.                                *)
ConvPixel(d, a, b, c) == CLAMP16(Asr(s32(a * d[1] + b * d[2] + c * d[3]), Bits - 1))
(* Mutant: the left neighbour is read after it was written. *)
ScanlineOverwrites(d, data, base, count, stride) ==
    LET s[i \in 0..count] ==
            IF i = 0 THEN data
            ELSE LET q == s[i - 1] IN LET at(j) == IF j \in 0..count - 1 THEN q[base + j * stride] ELSE d[4]
                 IN [q EXCEPT ![base + (i - 1) * stride] = ConvPixel(d, at(i - 2), at(i - 1), at(i))]
    IN s[count]
conv_scanline(d, data, base, count, stride) ==
    LET at(i) == base + i * stride
        s[i \in 0..count - 2] ==
            IF i = 0 THEN [data |-> data, a |-> d[4], b |-> data[at(0)], c |-> data[at(1)]]
            ELSE LET q == s[i - 1] IN
                 [data |-> [q.data EXCEPT ![at(i - 1)] = ConvPixel(d, q.a, q.b, q.c)],
                  a |-> q.data[at(i - 1)], b |-> q.data[at(i)], c |-> q.data[at(i + 1)]]
        e == s[count - 2]
        before == [e.data EXCEPT ![at(count - 2)] = ConvPixel(d, e.a, e.b, e.c)]
    IN [before EXCEPT ![at(count - 1)] = ConvPixel(d, e.data[at(count - 2)], e.data[at(count - 1)], d[4])]
conv_process(d, horizontal, passes, w, h, image) ==
    LET lines == IF horizontal THEN h ELSE w
        line(data, i) == IF horizontal THEN conv_scanline(d, data, i * w, w, 1)
                         ELSE conv_scanline(d, data, i, h, w)
        pass[n \in 0..lines * passes] ==
            IF n = 0 THEN image ELSE line(pass[n - 1], (n - 1) \div passes)
    IN pass[lines * passes]

--------------------------------------------------------------------------------
(* Biquad filters: c has the coefficients ma1, ma2, b0, b1, b2; a state is *)
(* the pair u1, u2.                                                         *)
Biquad(c, x, u) ==
    LET y == s32(Asr(c.b0 * x, Bits - 2) + u[1])
        a(m) == Asr(s32(m * y), Bits - 2)
    IN [y |-> y, u |-> <<s32(Asr(c.b1 * x, Bits - 2) + u[2] + a(c.ma1)), s32(Asr(c.b2 * x, Bits - 2) + a(c.ma2))>>]
biquad_df2(c, x, u) ==
    LET half == Twice(s16(mulhi(c.b0, x) + u[1]))
        y == Twice(half)
    IN [y |-> y, u |-> <<s16(s16(mulhi(c.b1, x) + u[2]) + mulhi(c.ma1, y)), s16(mulhi(c.b2, x) + mulhi(c.ma2, y))>>]
BiquadOf(build, c, x, u) ==
    ByBuild(build, LET r == Biquad(c, x, u) IN [r EXCEPT !.y = CLAMP16(r.y)], biquad_df2(c, x, u))
bqt_process(c, x, u) ==
    LET r == Biquad(c, x, u) IN [y |-> CLAMP16(r.y), u |-> <<CLAMP16(r.u[1]), CLAMP16(r.u[2])>>]
biquad_time(c, x, u) == biquad_df2(c, x, u)

(* A scan filters the pixels of data at the positions in path, one by one. *)
Scan(build, c, data, u, path) ==
    LET s[i \in 0..Len(path)] ==
            IF i = 0 THEN [data |-> data, u |-> u]
            ELSE LET q == s[i - 1] IN LET r == BiquadOf(build, c, q.data[path[i]], q.u)
                 IN [data |-> [q.data EXCEPT ![path[i]] = r.y], u |-> r.u]
    IN s[Len(path)]
(* The scans of one line: direction flags first and second of the axis.    *)
LinePath(horizontal, w, h, i) ==
    IF horizontal THEN [k \in 1..w |-> i * w + k - 1] ELSE [k \in 1..h |-> i + (k - 1) * w]
Directions(flags) == (IF "forth" \in flags THEN <<"forth">> ELSE <<>>) \o (IF "back" \in flags THEN <<"back">> ELSE <<>>)
Repeat(s, n) == FlattenSeq([i \in 1..n |-> s])
ScansOf(horizontal, flags, passes, w, h, i) ==
    LET way == Repeat(Directions(flags), passes)
    IN [k \in 1..Len(way) |->
            IF way[k] = "forth" THEN LinePath(horizontal, w, h, i) ELSE Reverse(LinePath(horizontal, w, h, i))]
RunScans(build, c, data, u, scans) ==
    LET s[i \in 0..Len(scans)] ==
            IF i = 0 THEN [data |-> data, u |-> u] ELSE LET q == s[i - 1] IN Scan(build, c, q.data, q.u, scans[i])
    IN s[Len(scans)]
(* The portable build: line after line, the state goes from each to the next. *)
bq_process_portable(c, horizontal, flags, passes, w, h, image, u) ==
    LET lines == IF horizontal THEN h ELSE w
    IN RunScans("portable", c, image, u, FlattenSeq([i \in 1..lines |-> ScansOf(horizontal, flags, passes, w, h, i - 1)]))

(* The vector build: four lines at a time in 4 x 4 blocks, which are       *)
(* transposed for the horizontal directions.                                *)
Four(lane(_)) == <<lane(1), lane(2), lane(3), lane(4)>>
unpacklo(a, b) == <<a[1], b[1], a[2], b[2]>>
unpackhi(a, b) == <<a[3], b[3], a[4], b[4]>>
transpose(v) ==
    LET ac == unpacklo(v[1], v[3]) ca == unpackhi(v[1], v[3])
        bd == unpacklo(v[2], v[4]) db == unpackhi(v[2], v[4])
    IN <<unpacklo(ac, bd), unpackhi(ac, bd), unpacklo(ca, db), unpackhi(ca, db)>>
antitranspose(v) == Reverse(transpose(Reverse(v)))
biquad_4x4(c, v, u) ==
    LET s[i \in 0..4] ==
            IF i = 0 THEN [v |-> v, u |-> u]
            ELSE LET q == s[i - 1] IN LET r == Four(LAMBDA l : biquad_df2(c, q.v[i][l], q.u[l]))
                 IN [v |-> [q.v EXCEPT ![i] = Four(LAMBDA l : r[l].y)], u |-> Four(LAMBDA l : r[l].u)]
    IN s[4]
biquad_4x4_t(c, v, u) ==
    LET r == biquad_4x4(c, transpose(v), u) IN [r EXCEPT !.v = transpose(r.v)]
biquad_4x4_a(c, v, u) ==
    LET r == biquad_4x4(c, antitranspose(v), u) IN [r EXCEPT !.v = antitranspose(r.v)]

(* One pass over a strip: block b of nb, at vector rows 0..3 below base.   *)
StripPass(horizontal, way, c, w, nb, data, u, base) ==
    LET order(b) == IF way = "forth" THEN b - 1 ELSE nb - b
        start(b) == base + order(b) * (IF horizontal THEN 4 ELSE 4 * w)
        rows(d, b) == Four(LAMBDA r : Four(LAMBDA l : d[start(b) + (r - 1) * w + l - 1]))
        loaded(d, b) == IF way = "forth" THEN rows(d, b) ELSE Reverse(rows(d, b))
        block(d, b, uu) ==
            IF ~horizontal THEN biquad_4x4(c, loaded(d, b), uu)
            ELSE IF way = "forth" THEN biquad_4x4_t(c, loaded(d, b), uu) ELSE biquad_4x4_a(c, loaded(d, b), uu)
        stored(v) == IF way = "forth" THEN v ELSE Reverse(v)
        s[b \in 0..nb] ==
            IF b = 0 THEN [data |-> data, u |-> u]
            ELSE LET q == s[b - 1] IN LET r == block(q.data, b, q.u)
                     v == stored(r.v)
                     at(p) == p - start(b)
                     inside(p) == at(p) >= 0 /\ at(p) \div w < 4 /\ at(p) % w < 4
                 IN [data |-> [p \in DOMAIN data |->
                                IF inside(p) THEN v[(at(p) \div w) + 1][(at(p) % w) + 1] ELSE q.data[p]],
                     u |-> r.u]
    IN s[nb]
bq_process_mmx(c, horizontal, flags, passes, w, h, image, u) ==
    LET strips == (IF horizontal THEN h ELSE w) \div 4
        nb == (IF horizontal THEN w ELSE h) \div 4
        way == Repeat(Directions(flags), passes)
        base(i) == IF horizontal THEN i * 4 * w ELSE i * 4
        s[n \in 0..strips * Len(way)] ==
            IF n = 0 THEN [data |-> image, u |-> u]
            ELSE LET q == s[n - 1] IN StripPass(horizontal, way[((n - 1) % Len(way)) + 1], c, w, nb,
                           q.data, q.u, base((n - 1) \div Len(way)))
    IN s[strips * Len(way)]

--------------------------------------------------------------------------------
Call(op, build, args, out) == pixcall' = [op |-> op, build |-> build, args |-> args, out |-> out]

PixelAdd == \E build \in Builds, a, b \in Pixels : Call("add", build, <<a, b>>, ByBuild(build, add_process(a, b), add_process_mmx(a, b)))
PixelMul == \E build \in Builds, a, b \in Pixels : Call("mul", build, <<a, b>>, ByBuild(build, mul_process(a, b), mul_process_mmx(a, b)))
PixelMix == \E build \in Builds, f, g \in Gains, a, b \in Pixels :
    LET left == float2fixed(f) right == float2fixed(g)
    IN Call("mix", build, <<f, g, a, b>>,
            ByBuild(build, mix_process(left, right, a, b), mix_process_mmx(left, right, a, b)))
PixelGain == \E build \in Builds, f \in Gains, a \in Pixels :
    Call("gain", build, <<f, a>>, ByBuild(build, gain_process(f, a), gain_process_mmx(f, a)))
PixelRotate == \E f, g \in Gains, a, b \in Pixels :
    LET m == <<float2fixed(f), float2fixed(-g), float2fixed(g), float2fixed(f)>>
    IN Call("crot2d", "portable", <<f, g, a, b>>, crot2d_process(m, a, b))
PixelRandmix == \E f \in Gains, r \in 0..One, a, b \in Pixels :
    r % 8 = 7 /\ Call("randmix", "portable", <<f, r, a, b>>, randmix_process(f, r, a, b))
PixelCheby == \E build \in Builds, c \in Polynomials, n \in {1, 2}, a \in Pixels :
    Call("cheby", build, <<c, n, a>>, cheby_process(build, c, n, a))
PixelThreshold == \E t \in Thresholds, a, b \in Pixels :
    LET w == Pair(a, b)
    IN Call("threshold", "portable", <<t, a, b>>,
            [hard |-> hardthresh_process(t, w), soft |-> softthresh_process(t, w), abs |-> abs_process(w),
             zero |-> zthresh_process(w), positive |-> ispositive_process(w), sign |-> sign_process(w)])
PixelLogic == \E a, b, m \in Pixels :
    LET w == Pair(a, b)
    IN Call("logic", "portable", <<a, b, m>>,
            [mask |-> mask_process(m, w), xor |-> xor_process(w, Pair(m, b)), and |-> and_process(w, Pair(m, b)),
             or |-> or_process(w, Pair(m, b)), not |-> not_process(w)])
PixelConv == \E k \in Kernels, horizontal \in BOOLEAN, passes \in {1, 2} :
    LET d == [i \in 1..4 |-> float2fixed(k[i])] IN
    \E size \in {<<3, 2>>, <<2, 3>>} : \E image \in Images[size] :
        Call("conv", "portable", <<d, horizontal, passes, size[1], size[2], image>>,
             conv_process(d, horizontal, passes, size[1], size[2], image))
PixelBiquad == \E build \in Builds, c \in Coefficients, horizontal \in BOOLEAN, passes \in {1, 2} :
    \E flags \in SUBSET {"forth", "back"} \ {{}}, size \in ByBuild(build, {<<3, 2>>, <<2, 3>>}, {<<8, 4>>, <<4, 8>>}) :
      \E image \in Images[size] :
        LET u == [l \in 1..4 |-> <<l, -l>>]
        IN Call("biquad", build, <<c, horizontal, flags, passes, size[1], size[2], image>>,
                IF build = "portable"
                THEN bq_process_portable(c, horizontal, flags, passes, size[1], size[2], image, u[1])
                ELSE bq_process_mmx(c, horizontal, flags, passes, size[1], size[2], image, u))
PixelBiquadTime == \E build \in Builds, c \in Coefficients, x, u \in Pixels :
    Call("bqt", build, <<c, x, u>>, ByBuild(build, bqt_process(c, x, <<u, -u>>), biquad_time(c, x, <<u, -u>>)))
PixelReturn == pixcall' = NoCall

PixelInit == pixcall = NoCall
PixelCall ==
    \/ PixelAdd \/ PixelMul \/ PixelMix \/ PixelGain \/ PixelRotate \/ PixelRandmix \/ PixelCheby
    \/ PixelThreshold \/ PixelLogic \/ PixelConv \/ PixelBiquad \/ PixelBiquadTime
PixelNext == \/ pixcall = NoCall /\ PixelCall
             \/ pixcall # NoCall /\ PixelReturn
PixelSpec == PixelInit /\ [][PixelNext]_pixcall

--------------------------------------------------------------------------------
Near(x, n, d, tol) ==
    LET diff == x * d - Clip(n, -P * d, One * d) IN IF diff < 0 THEN -diff <= tol * d ELSE diff <= tol * d
A == pixcall.args

(* Fixed point arithmetic follows the real one: the result of add, mul,     *)
(* mix, gain, crot2d and cheby is the exact value, cut off at the range of  *)
(* a pixel, up to an error of a few units that does not depend on the       *)
(* pixels, in both builds.  Three things are left out because the code does *)
(* them on purpose or not at all: a left gain of zero copies, mul of the    *)
(* lowest pixel by itself wraps in the portable build, and the vector mul   *)
(* is half the product.                                                     *)
ArithmeticClose ==
    LET mmx == pixcall.build = "mmx" IN
    /\ pixcall.op = "add" => Near(pixcall.out, A[1] + A[2], 1, 1)
    /\ pixcall.op = "mul" => (A[1] = -P /\ A[2] = -P) \/ Near(pixcall.out, A[1] * A[2], IF mmx THEN 2 * P ELSE P, 1)
    /\ pixcall.op = "mix" =>
          IF float2fixed(A[1]) = 0 THEN pixcall.out = A[4]
          ELSE Near(pixcall.out, Clip(A[1], -GainOne, GainOne) * A[3] + Clip(A[2], -GainOne, GainOne) * A[4], GainOne, IF mmx THEN 6 ELSE 4)
    /\ pixcall.op = "gain" => Near(pixcall.out, A[1] * A[2], GainOne, 2)
    /\ pixcall.op = "crot2d" =>
          Near(pixcall.out[1], Clip(A[1], -GainOne, GainOne) * A[3] + Clip(A[2], -GainOne, GainOne) * A[4], GainOne, 4)
    /\ (pixcall.op = "cheby" /\ A[2] = 1 /\ Len(A[1]) = 3) =>
          Near(pixcall.out, A[1][1] * One * One + A[1][2] * A[3] * One + A[1][3] * (2 * A[3] * A[3] - One * One),
               GainOne * One, IF mmx THEN 24 ELSE 6)

(* Two pixels share a word and do not disturb each other: the thresholds,   *)
(* abs, sign and mask give in each half what they give for that pixel       *)
(* alone, but for the lowest bit of the upper one, which is given up so     *)
(* that the subtraction does not borrow across.                             *)
LanesApart ==
    /\ pixcall.op = "threshold" =>
          LET out == pixcall.out
              Abs(v) == IF v < 0 THEN -1 - v ELSE v
              Back(v, m) == IF v < 0 THEN -1 - m ELSE m
              Hard(v) == Back(v, IF Abs(v) >= A[1] THEN Abs(v) ELSE 0)
              Soft(v) == Back(v, IF Abs(v) >= A[1] THEN Abs(v) - A[1] ELSE 0)
              Around(v, x, y) == x - y \in -3..3 \/ (Abs(v) - A[1] \in -3..3 /\ x = Back(v, 0))
          IN /\ Bottom(out.hard) = Hard(A[3]) /\ Around(A[2], Top(out.hard), Hard(A[2]))
             /\ Bottom(out.soft) = Soft(A[3]) /\ Around(A[2], Top(out.soft), Soft(A[2]))
             /\ Top(out.abs) = Abs(A[2]) /\ Bottom(out.abs) = Abs(A[3])
             /\ Top(out.zero) = (IF A[2] < 0 THEN 0 ELSE A[2]) /\ Bottom(out.zero) = (IF A[3] < 0 THEN 0 ELSE A[3])
             /\ Top(out.positive) = (IF A[2] < 0 THEN 0 ELSE -1) /\ Bottom(out.sign) = (IF A[3] < 0 THEN -P ELSE One)
    /\ pixcall.op = "logic" =>
          /\ Top(pixcall.out.mask) = s16((A[1] % Lane) & (A[3] % Lane))
          /\ Bottom(pixcall.out.mask) = s16((A[2] % Lane) & (A[3] % Lane))
          /\ Pair(Top(pixcall.out.and), Bottom(pixcall.out.and)) = pixcall.out.and
          /\ xor_process(pixcall.out.not, pixcall.out.or) = Complement(xor_process(Pair(A[1], A[2]), pixcall.out.or))

(* A convolution in place is the convolution of the image as it was: no     *)
(* pixel of a line is read after its new value replaced it, along rows and  *)
(* along columns, and the border colour stands on both ends.  Kernels whose *)
(* sum may leave the accumulator are left out: there the code wraps.        *)
ConvolutionExact ==
    pixcall.op = "conv" =>
        LET d == A[1] w == A[4] h == A[5]
            Bounded == (\A i \in 1..3 : d[i] \in -One..One) /\
                       FoldSeq(LAMBDA x, y : (IF x < 0 THEN -x ELSE x) + y, 0, SubSeq(d, 1, 3)) <= 2 * One
            At(im, x, y) == IF x \in 0..w - 1 /\ y \in 0..h - 1 THEN im[y * w + x] ELSE d[4]
            Once(im) == [p \in 0..w * h - 1 |->
                LET x == p % w y == p \div w IN
                IF A[2] THEN ConvPixel(d, At(im, x - 1, y), im[p], At(im, x + 1, y))
                ELSE ConvPixel(d, At(im, x, y - 1), im[p], At(im, x, y + 1))]
        IN Bounded => pixcall.out = (IF A[3] = 1 THEN Once(A[6]) ELSE Once(Once(A[6])))

(* The vector build filters along lines: however the 4 x 4 blocks are       *)
(* loaded, transposed and stored, every pixel is the output of the biquad   *)
(* that runs along its own row or column, forth or back as asked, with the  *)
(* state of the line four lines before it.                                  *)
FiltersLines ==
    (pixcall.op = "biquad" /\ pixcall.build = "mmx") =>
        LET c == A[1] w == A[5] h == A[6]
            lines == IF A[2] THEN h ELSE w
            Own(lane) == RunScans("mmx", c, A[7], <<lane, -lane>>,
                FlattenSeq([i \in 1..lines \div 4 |-> ScansOf(A[2], A[3], A[4], w, h, (i - 1) * 4 + lane - 1)]))
            LineOf(p) == IF A[2] THEN p \div w ELSE p % w
        IN \A lane \in 1..4 :
              LET own == Own(lane)
              IN /\ pixcall.out.u[lane] = own.u
                 /\ \A p \in DOMAIN A[7] : LineOf(p) % 4 = lane - 1 => pixcall.out.data[p] = own.data[p]

(* Both builds compute what the operation means, saturated and within the   *)
(* rounding of the fixed point, and the vector build does so in every lane, *)
(* row and column of an image.                                              *)
PixelsExact == ArithmeticClose /\ LanesApart /\ ConvolutionExact /\ FiltersLines
================================================================================
