------------------------------- MODULE Scanners -------------------------------
(* The objects of modules/image_special that read or draw an image in the   *)
(* pd thread: pdp_scan~ and pdp_scanxy~ (an image as a waveform), pdp_cog   *)
(* (centre of gravity), pdp_histo (histogram and a sample of the brightest  *)
(* points), pdp_grey2array, pdp_array2grey and pdp_scope~.                  *)
EXTENDS Integers, Sequences, FiniteSets, SequencesExt, FiniteSetsExt

CONSTANTS
    ScanBuffers,     (* packets of the pool *)
    ScanSizes,       (* <<width, height>> of the images that arrive *)
    SumSizes,        (* the same for pdp_cog and pdp_histo, whose pixels matter *)
    ScanLevels, GreyLevels,          (* pixel values that pdp_cog, pdp_histo get *)
    ArrayValues,     (* values of an array, in units of 1 / 2^LogLevels *)
    InterpolateArgs, (* arguments of interpolate messages *)
    SampleSizes,     (* points asked of pdp_histo *)
    LogBins,         (* 2^LogBins bins of a histogram *)
    LogLevels,       (* pixels have LogLevels bits and a sign: 15 in the code *)
    MaxLog,          (* the largest logarithm of round_up_2log: 15 in the code *)
    RingSize,        (* samples of the buffer of pdp_scope~: 2048 in the code *)
    ScopeWidths, ScopeBlocks,        (* widths of a scope, samples of a block *)
    MaxSamples       (* bound: samples that a scope is sent *)

ASSUME ScanAssumption ==
    /\ ScanBuffers \in Nat /\ RingSize \in Nat \ {0} /\ 2^LogLevels \in Nat \ {0}
    /\ ScanSizes \subseteq (Nat \ {0}) \X (Nat \ {0}) /\ SumSizes \subseteq (Nat \ {0}) \X (Nat \ {0})
    /\ ScanLevels \subseteq Int /\ GreyLevels \subseteq Int /\ ArrayValues \subseteq Int
    /\ ScopeWidths \subseteq Nat /\ ScopeBlocks \subseteq Nat

VARIABLES
    sclass,          (* the class of the object *)
    spacket0, spacket1, sinterp,     (* fields of a scanner; packet0 of the others *)
    susers,          (* packet -> references *)
    ssize,           (* packet -> its size *)
    sdata,           (* the pixels of the packet under way *)
    spatch,          (* the packet the patch holds, or 0 *)
    sread,           (* <<packet, index>>s that the last method has read *)
    sresult,         (* what it has computed *)
    shash, stodo,    (* pdp_histo: the table of points; the pixels still to place *)
    sring, sneedle, sheard, sdrawn   (* pdp_scope~: buffer, position, samples heard, columns *)

scanPackets == <<spacket0, spacket1, susers, ssize, sdata, spatch>>
scopeVars == <<sring, sneedle, sheard, sdrawn>>
scanVars == <<sclass, sinterp, scanPackets, sread, sresult, shash, stodo, scopeVars>>

NoScan == 0
NoPoint == -1
Pixels2(size) == 0..size[1] * size[2] - 1
ScanClasses == {"scan", "scanxy", "cog", "cog_thresh", "histo_array", "histo_sample", "grey2array", "array2grey", "scope"}
(* The buffer of a scope is allocated and never cleared: until it has gone  *)
(* round once it holds, and the scope draws, what was in that memory.       *)
Uncleared == 0
ScanInit ==
    /\ sclass \in ScanClasses /\ spacket0 = NoScan /\ spacket1 = NoScan /\ sinterp = FALSE
    /\ susers = [p \in 1..ScanBuffers |-> 0] /\ ssize = [p \in 1..ScanBuffers |-> <<0, 0>>]
    /\ sdata = <<>> /\ spatch = NoScan
    /\ sread = {} /\ sresult = <<>> /\ shash = <<>> /\ stodo = <<>>
    /\ sring = [i \in 0..RingSize - 1 |-> Uncleared] /\ sneedle = 0 /\ sheard = <<>> /\ sdrawn = <<>>

--------------------------------------------------------------------------------
(* The pool.  Marking an invalid packet unused does nothing. *)
pdp_packet_mark_unused(u, p) == IF p = NoScan THEN u ELSE [u EXCEPT ![p] = @ - 1]
pdp_packet_copy_ro(u, p) == [u EXCEPT ![p] = @ + 1]
ScanIdle == stodo = <<>> /\ shash = <<>>
Summing == sclass \in {"cog", "cog_thresh", "histo_array", "histo_sample"}
PatchSends ==
    /\ ScanIdle /\ spatch = NoScan /\ sclass \notin {"scope", "array2grey", "freed"}
    /\ \E size \in IF Summing THEN SumSizes ELSE ScanSizes, p \in {q \in 1..ScanBuffers : susers[q] = 0} :
        /\ \A q \in 1..p - 1 : susers[q] # 0
        /\ \E d \in IF Summing THEN [Pixels2(size) -> IF sclass = "histo_sample" THEN GreyLevels ELSE ScanLevels] ELSE {[i \in Pixels2(size) |-> i]} :
            sdata' = d
        /\ ssize' = [ssize EXCEPT ![p] = size] /\ susers' = [susers EXCEPT ![p] = 1] /\ spatch' = p
    /\ UNCHANGED <<sclass, sinterp, spacket0, spacket1, sread, sresult, shash, stodo, scopeVars>>
PatchDone ==
    /\ ScanIdle /\ spatch # NoScan
    /\ susers' = pdp_packet_mark_unused(susers, spatch) /\ spatch' = NoScan
    /\ ssize' = [p \in 1..ScanBuffers |-> IF susers'[p] = 0 THEN <<0, 0>> ELSE ssize[p]]
    /\ sdata' = <<>> /\ sread' = {} /\ sresult' = <<>>
    /\ UNCHANGED <<sclass, sinterp, spacket0, spacket1, shash, stodo, scopeVars>>

--------------------------------------------------------------------------------
(* pdp_scan~ and pdp_scanxy~ *)
pdp_packet_image_compat(p, q) == p # NoScan /\ ssize[p] = ssize[q]
(* Mutant: the image before is released instead of the one before it. *)
KeepsOldest ==
    /\ sclass \in {"scan", "scanxy"} /\ spatch # NoScan /\ spatch \notin {spacket0, spacket1}
    /\ IF ~sinterp \/ ~pdp_packet_image_compat(spacket0, spatch)
       THEN /\ susers' = pdp_packet_copy_ro(pdp_packet_mark_unused(susers, spacket0), spatch) /\ UNCHANGED spacket1
       ELSE /\ susers' = pdp_packet_copy_ro(pdp_packet_mark_unused(susers, spacket0), spatch) /\ spacket1' = spacket0
    /\ spacket0' = spatch /\ sread' = {}
    /\ UNCHANGED <<sclass, sinterp, ssize, sdata, spatch, sresult, shash, stodo, scopeVars>>
(* While it interpolates the object keeps the image before, unless the new  *)
(* one is of another size.                                                  *)
pdp_scan_input_0 ==
    /\ sclass \in {"scan", "scanxy"} /\ spatch # NoScan /\ spatch \notin {spacket0, spacket1}
    /\ IF ~sinterp \/ ~pdp_packet_image_compat(spacket0, spatch)
       THEN /\ susers' = pdp_packet_copy_ro(pdp_packet_mark_unused(susers, spacket0), spatch) /\ UNCHANGED spacket1
       ELSE /\ susers' = pdp_packet_copy_ro(pdp_packet_mark_unused(susers, spacket1), spatch) /\ spacket1' = spacket0
    /\ spacket0' = spatch /\ sread' = {}
    /\ UNCHANGED <<sclass, sinterp, ssize, sdata, spatch, sresult, shash, stodo, scopeVars>>
(* The index of a pixel.  A scan runs over a circle inside the image, the   *)
(* same cosine giving both coordinates; a signal of pdp_scanxy~ is taken    *)
(* modulo 1.  Signals are in sixteenths.                                    *)
scan_offset(size, c) == (((8 + c) * (size[2] - 1)) \div 16) * size[1] + ((8 + c) * (size[1] - 1)) \div 16
scanxy_offset(size, x, y) == (((y % 16) * size[2]) \div 16) * size[1] + ((x % 16) * size[1]) \div 16
ScanOffsets(size) ==
    IF sclass = "scan" THEN {scan_offset(size, c) : c \in -4..4}
    ELSE {scanxy_offset(size, x, y) : x \in {-17, -1, 0, 15, 16}, y \in {-1, 0, 15, 31}}
(* A block of audio: the image before, if there is one, is faded out with   *)
(* the indices of the new one and let go.                                   *)
pdp_scan_perform ==
    /\ sclass \in {"scan", "scanxy"} /\ spacket0 # NoScan
    /\ LET at == ScanOffsets(ssize[spacket0])
           fades == sinterp /\ spacket1 # NoScan
       IN /\ sread' = {<<p, i>> : p \in {spacket0} \cup IF fades THEN {spacket1} ELSE {}, i \in at}
          /\ susers' = IF fades THEN pdp_packet_mark_unused(susers, spacket1) ELSE susers
          /\ spacket1' = IF fades THEN NoScan ELSE spacket1
    /\ sresult' = [p \in {q \in {spacket0, spacket1} : q # NoScan} |-> susers[p]]
    /\ UNCHANGED <<sclass, sinterp, spacket0, ssize, sdata, spatch, shash, stodo, scopeVars>>
(* Without interpolation the image before is let go, and stays in its field. *)
pdp_scan_interpolate == \E f \in InterpolateArgs :
    /\ sclass \in {"scan", "scanxy"}
    /\ sinterp' = (f = 1) /\ susers' = IF f = 0 THEN pdp_packet_mark_unused(susers, spacket1) ELSE susers
    /\ UNCHANGED <<sclass, spacket0, spacket1, ssize, sdata, spatch, sread, sresult, shash, stodo, scopeVars>>

--------------------------------------------------------------------------------
(* The others take every packet, converted, in the place of the last one,   *)
(* and work on it at once.                                                  *)
Takes ==
    /\ ScanIdle /\ spatch # NoScan /\ spatch # spacket0
    /\ susers' = pdp_packet_copy_ro(pdp_packet_mark_unused(susers, spacket0), spatch) /\ spacket0' = spatch
    /\ UNCHANGED <<sclass, sinterp, spacket1, ssize, sdata, spatch, scopeVars>>

(* pdp_cog: sums of columns and rows, their moments; with a threshold of 1  *)
(* the magnitudes above it.  A centre is the quotient of the pair.  The     *)
(* arrays of the sums are made with width and height exchanged, so that one *)
(* of them is written past its end when they differ: the result is then     *)
(* what the memory behind it makes of it.                                   *)
CogPixel(d) == IF sclass = "cog_thresh" THEN IF d > 1 THEN d ELSE IF d < -1 THEN -d ELSE 0 ELSE d
CentreOf(sums, n) ==
    <<n \div 2 + SumFunction([i \in 0..n - 1 |-> sums[i] * i]), 1 + SumFunction(sums)>>
Square(size) == size[1] = size[2]
Undefined == [h |-> <<-1, 1>>, v |-> <<-1, 1>>]
pdp_cog_perform ==
    LET size == ssize[spatch]
        pixel(x, y) == CogPixel(sdata[y * size[1] + x])
        columnsums == [x \in 0..size[1] - 1 |-> SumFunction([y \in 0..size[2] - 1 |-> pixel(x, y)])]
        rowsums == [y \in 0..size[2] - 1 |-> SumFunction([x \in 0..size[1] - 1 |-> pixel(x, y)])]
    IN /\ sclass \in {"cog", "cog_thresh"} /\ Takes
       /\ sresult' = IF Square(size) THEN [h |-> CentreOf(columnsums, size[1]), v |-> CentreOf(rowsums, size[2])]
                     ELSE Undefined
       /\ sread' = {<<spatch, i>> : i \in Pixels2(size)} /\ UNCHANGED <<shash, stodo>>

(* pdp_grey2array by columns: the columns from left to right, each upwards. *)
ColumnIndex(i, w, h) == (i \div h) + (h - (i % h) - 1) * w
pdp_array_input_0 ==
    LET w == ssize[spatch][1] h == ssize[spatch][2] IN
    /\ sclass = "grey2array" /\ Takes
    /\ sread' = {<<spatch, ColumnIndex(i, w, h)>> : i \in Pixels2(<<w, h>>)}
    /\ sresult' = [i \in Pixels2(<<w, h>>) |-> sdata[ColumnIndex(i, w, h)]]
    /\ UNCHANGED <<shash, stodo>>

(* Another array: the packet is forgotten, not let go. *)
pdp_array_array ==
    /\ sclass = "grey2array" /\ spatch = NoScan /\ spacket0' = NoScan /\ sread' = {} /\ sresult' = <<>>
    /\ UNCHANGED <<sclass, sinterp, spacket1, susers, ssize, sdata, spatch, shash, stodo, scopeVars>>
(* pdp_array2grey: a value, in units of the grey levels, saturates; the     *)
(* pixel is a short.                                                        *)
array_pixel(v) ==
    LET top == 2^LogLevels
        l == IF v > top THEN top - 1 ELSE IF v < -top THEN -top ELSE v
    IN IF l = top THEN -top ELSE l
pdp_array_bang == \E v, w \in ArrayValues :
    /\ sclass = "array2grey" /\ v <= w
    /\ sresult' = <<array_pixel(v), array_pixel(w)>>
    /\ UNCHANGED <<sclass, sinterp, scanPackets, sread, shash, stodo, scopeVars>>

--------------------------------------------------------------------------------
(* pdp_histo *)
round_up_2log(i) ==
    LET l == CHOOSE n \in 0..i : 2^n >= i /\ \A m \in 0..n - 1 : 2^m < i IN IF l < MaxLog + 1 THEN l ELSE MaxLog
Bin(d) == LET i == d \div 2^(LogLevels - LogBins) IN IF i < 0 THEN 0 ELSE i
pdp_histo_perform == [b \in 0..2^LogBins - 1 |-> Cardinality({i \in DOMAIN sdata : Bin(sdata[i]) = b})]
dump_to_array ==
    /\ sclass = "histo_array" /\ Takes
    /\ sresult' = pdp_histo_perform /\ sread' = {<<spatch, i>> : i \in DOMAIN sdata}
    /\ UNCHANGED <<shash, stodo>>
(* The highest bins that hold the points asked for; the pixels in them are  *)
(* placed in a table of twice the next power of two.                        *)
Limit(histo, n) == CHOOSE b \in DOMAIN histo :
    LET above(c) == MapThenSumSet(LAMBDA i : histo[i], c..2^LogBins - 1)
    IN above(b) >= n /\ \A c \in DOMAIN histo : c > b => above(c) < n
get_brightest == \E asked \in SampleSizes :
    LET pixels == Cardinality(DOMAIN sdata)
        n == IF asked > pixels THEN pixels ELSE asked
        histo == pdp_histo_perform
        index == Limit(histo, n)
        nsamps == MapThenSumSet(LAMBDA i : histo[i], index..2^LogBins - 1)
        size == 2^(round_up_2log(nsamps) + 1)
    IN /\ sclass = "histo_sample" /\ Takes
       /\ shash' = [i \in 0..size - 1 |-> NoPoint]
       /\ stodo' = SetToSortSeq({i \in DOMAIN sdata : sdata[i] >= index * 2^(LogLevels - LogBins)}, <)
       /\ sresult' = [n |-> n, points |-> <<>>, index |-> index]
       /\ sread' = {}
(* The next pixel goes to the first empty place from a random one. *)
FirstEmpty(r) ==
    LET size == Cardinality(DOMAIN shash)
        d == CHOOSE k \in 0..size - 1 : shash[(r + k) % size] = NoPoint /\ \A j \in 0..k - 1 : shash[(r + j) % size] # NoPoint
    IN (r + d) % size
PlacePoint ==
    /\ stodo # <<>> /\ \E i \in DOMAIN shash : shash[i] = NoPoint
    /\ \E r \in DOMAIN shash : shash' = [shash EXCEPT ![FirstEmpty(r)] = Head(stodo)]
    /\ stodo' = Tail(stodo)
    /\ UNCHANGED <<sclass, sinterp, scanPackets, sread, sresult, scopeVars>>
(* Mutant: the index is not advanced after a move. *)
RepackRepeats(n) ==
    LET step[k \in 0..n] ==
            IF k = 0 THEN <<shash, 0>>
            ELSE LET s == step[k - 1]
                     found == {i \in s[2]..Cardinality(DOMAIN shash) - 1 : s[1][i] # NoPoint}
                     at == CHOOSE i \in found : \A j \in found : i <= j
                 IN <<[s[1] EXCEPT ![k - 1] = s[1][at]], at>>
    IN step[n][1]
(* The points are moved to the front, in place: s is the table and the      *)
(* index of the next place to look at.  Past its end nothing is known to be *)
(* found.                                                                   *)
Repack(n) ==
    LET step[k \in 0..n] ==
            IF k = 0 THEN <<shash, 0>>
            ELSE LET s == step[k - 1]
                     found == {i \in s[2]..Cardinality(DOMAIN shash) - 1 : s[1][i] # NoPoint}
                     at == CHOOSE i \in found : \A j \in found : i <= j
                 IN IF found = {} THEN <<[s[1] EXCEPT ![k - 1] = NoPoint], s[2]>>
                    ELSE <<[s[1] EXCEPT ![k - 1] = s[1][at]], at + 1>>
    IN step[n][1]
(* The points are drawn into a writable packet that replaces the image, or  *)
(* put into a matrix; the image leaves the object in either case.           *)
get_sampleset ==
    /\ shash # <<>> /\ stodo = <<>> /\ sclass = "histo_sample"
    /\ LET t == Repack(sresult.n) IN sresult' = [sresult EXCEPT !.points = [k \in 1..sresult.n |-> t[k - 1]]]
    /\ sread' = {<<spacket0, i>> : i \in DOMAIN sdata} /\ shash' = <<>>
    /\ susers' = pdp_packet_mark_unused(susers, spacket0) /\ spacket0' = NoScan
    /\ UNCHANGED <<sclass, sinterp, spacket1, ssize, sdata, spatch, stodo, scopeVars>>

--------------------------------------------------------------------------------
(* pdp_scope~: a block of audio goes round the buffer; a bang draws the     *)
(* last samples, one a column.                                              *)
pdp_scope_perform == \E n \in ScopeBlocks :
    LET v(i) == Len(sheard) + i + 1 IN
    /\ sclass = "scope" /\ Len(sheard) + n <= MaxSamples
    /\ sring' = [k \in 0..RingSize - 1 |->
                    LET late == {i \in 0..n - 1 : (sneedle + i) % RingSize = k} IN IF late = {} THEN sring[k] ELSE v(Max(late))]
    /\ sneedle' = (sneedle + n) % RingSize /\ sheard' = sheard \o [i \in 1..n |-> v(i - 1)]
    /\ sdrawn' = <<>>
    /\ UNCHANGED <<sclass, sinterp, scanPackets, sread, sresult, shash, stodo>>
pdp_scope_generate == \E w \in ScopeWidths :
    /\ sclass = "scope"
    /\ sdrawn' = [i \in 1..w |-> sring[(sneedle - w + i - 1) % RingSize]]
    /\ UNCHANGED <<sclass, sinterp, scanPackets, sread, sresult, shash, stodo, sring, sneedle, sheard>>
(* The row of a sample: its height from the middle, as an unsigned number   *)
(* that is cut off at the last row.                                         *)
scope_row(h, v) == LET y == h \div 2 - ((h \div 2) * v) \div 4 IN IF y < 0 \/ y >= h THEN h - 1 ELSE y

(* The destructors let go of the first packet only. *)
ScanFree ==
    /\ ScanIdle /\ sclass # "freed" /\ sclass' = "freed"
    /\ susers' = pdp_packet_mark_unused(susers, spacket0) /\ spacket0' = NoScan /\ sread' = {} /\ sresult' = <<>>
    /\ UNCHANGED <<sinterp, spacket1, ssize, sdata, spatch, shash, stodo, scopeVars>>

ScanNext ==
    \/ PatchSends \/ PatchDone \/ pdp_scan_input_0 \/ pdp_scan_perform \/ pdp_scan_interpolate
    \/ pdp_cog_perform \/ pdp_array_input_0 \/ pdp_array_array \/ pdp_array_bang \/ dump_to_array \/ get_brightest \/ PlacePoint \/ get_sampleset
    \/ pdp_scope_perform \/ pdp_scope_generate \/ ScanFree
ScanSpec == ScanInit /\ [][ScanNext]_scanVars

--------------------------------------------------------------------------------
(* No packet is read after its last reference is gone: a packet in a field  *)
(* of the object, or with the patch, is counted for each of them.  With an  *)
(* interpolate 0 message it is not true: the image before is let go once by *)
(* the message and again by the next image.                                 *)
ScanHeld == \A p \in 1..ScanBuffers : susers[p] >=
    Cardinality({i \in 1..3 : <<spacket0, spacket1, spatch>>[i] = p /\ (i = 2 => sclass # "freed")})

(* Every pixel that is read lies in its packet, whatever the signal.  With  *)
(* images of two sizes it is not true: an image of another size replaces    *)
(* the current one and leaves the image before, which is then read with the *)
(* indices of the new one.                                                  *)
ReadInside == \A r \in sread : r[2] \in Pixels2(ssize[r[1]])

(* The centre of gravity of the magnitudes of a square image lies between   *)
(* the first and the last row and column, also for a black one.  Of another *)
(* image nothing is known.                                                  *)
CentreInside == sclass = "cog_thresh" /\ sresult # <<>> /\ Square(ssize[spacket0]) =>
    \A side \in 1..2 : LET c == IF side = 1 THEN sresult.h ELSE sresult.v
                       IN c[2] > 0 /\ c[1] >= 0 /\ c[1] <= (ssize[spacket0][side] - 1) * c[2]

(* The sums of the rows fit in the array that is made for them, and those   *)
(* of the columns in theirs.  Not true of an image that is not square.      *)
CogArraysFit == sclass \in {"cog", "cog_thresh"} /\ spacket0 # NoScan => Square(ssize[spacket0])

(* The points are as many as were asked for, different, and in the highest  *)
(* bins: after every choice of random places the repacking overwrites no    *)
(* point that it has still to move.  With negative pixels it is not true:   *)
(* they count for the lowest bin and are not below its limit.               *)
SamplesBright ==
    sclass = "histo_sample" /\ shash = <<>> /\ sresult # <<>> =>
        /\ Cardinality(ToSet(sresult.points)) = sresult.n
        /\ \A k \in 1..sresult.n : sresult.points[k] # NoPoint /\ Bin(sdata[sresult.points[k]]) >= sresult.index
(* The points, placed and still to place, have places in the table, as many *)
(* as the capped logarithm gives it at most.                                *)
Points == Len(stodo) + Cardinality({i \in DOMAIN shash : shash[i] # NoPoint})
PlacesSuffice == Points <= 2^(MaxLog + 1) => Points <= Cardinality(DOMAIN shash)
(* What does not hold: more points than that fill the table, and the search *)
(* for a place for the next one does not end.                               *)
SearchEnds == stodo # <<>> => \E i \in DOMAIN shash : shash[i] = NoPoint

(* Reading an image by columns reads every pixel once. *)
ColumnsCover == sclass = "grey2array" /\ sresult # <<>> => Cardinality(sread) = Cardinality(DOMAIN sresult)

(* A larger value of the array is no darker pixel, beyond both ends.  With  *)
(* the value 1 it is not true: it is not cut off and wraps to black.        *)
ArrayOrdered == sclass = "array2grey" /\ sresult # <<>> => sresult[1] <= sresult[2]

(* The columns of a scope are the last samples in the order they were       *)
(* heard, for every block size, as long as the buffer is not shorter than   *)
(* the image is wide.  Columns before the first sample show uncleared       *)
(* memory, and nothing is known of them.                                    *)
ScopeShowsLast == \A i \in 1..Len(sdrawn) :
    LET k == Len(sheard) - Len(sdrawn) + i IN k >= 1 => sdrawn[i] = sheard[k]

(* The objects that turn an image into samples and back hold each packet    *)
(* once, read inside it, put the centre inside a square image, cover every  *)
(* column, and show the last samples in order.                              *)
ScannersSound == ScanHeld /\ ReadInside /\ CentreInside /\ ColumnsCover /\ ArrayOrdered /\ ScopeShowsLast

(* The sample set of pdp_histo are different pixels of the brightest, and   *)
(* the table they are scattered in has a place for each of up to 2^(MaxLog  *)
(* + 1) candidates, 65536 in the code.                                      *)
SamplesSound == SamplesBright /\ PlacesSuffice

(* A sample above the middle is drawn above the middle.  Not true: a sample *)
(* above 1 has a negative row, which as an unsigned number is cut off at    *)
(* the last one.                                                            *)
ScopeUpright == \A v \in 0..6 : scope_row(8, v) <= 4
================================================================================
