----------------------------- MODULE PacketTypes -----------------------------
(* Packet types and their conversion: type matching and the search for a    *)
(* conversion program (system/kernel/pdp_type.c), and the constructors,     *)
(* factories and conversion methods of images, bitmaps and matrices         *)
(* (system/type).  A type is the sequence of its symbols, each a tuple: a   *)
(* name, or the dimensions.  The data of a packet is the sequence of its    *)
(* colour planes, named by what they hold; pixels are in ColorConvert.      *)
EXTENDS Integers, Sequences, SequencesExt

CONSTANTS
    Sources,       (* packets that are converted *)
    Templates,     (* type templates they are converted to *)
    MaxSteps       (* bound on the rounds of the search that are followed *)

VARIABLES packet, template     (* one conversion *)

typeVars == <<packet, template>>

Star == <<"*">>
Type3(a, b, c) == <<<<a>>, <<b>>, c>>
Image(enc, dim) == Type3("image", enc, dim)
Bitmap(enc, dim) == Type3("bitmap", enc, dim)
Matrix(prec, field, dim) == <<<<"matrix">>, <<prec>>, <<field>>, dim>>

Invalid == [type |-> <<<<"invalid">>>>, w |-> 0, h |-> 0, d |-> 0, planes |-> <<>>]

(* Equal symbols or a wildcard on either side; the shorter one must end     *)
(* with a wildcard.                                                         *)
pdp_type_description_match(description, pattern) ==
    LET m == IF Len(description) < Len(pattern) THEN Len(description) ELSE Len(pattern)
    IN  \/ description = pattern
        \/ /\ \A i \in 1..m : \/ description[i] = Star \/ pattern[i] = Star
                              \/ description[i] = pattern[i]
           /\ Len(pattern) > m => description[m] = Star
           /\ Len(description) > m => pattern[m] = Star

--------------------------------------------------------------------------------
(* Constructors: the description is made from the encoding and dimensions.  *)
pdp_packet_new_image_YCrCb(w, h, planes) ==
    [type |-> Image("YCrCb", <<w, h>>), w |-> w, h |-> h, d |-> 0, planes |-> planes]
pdp_packet_new_image_grey(w, h, planes) ==
    [type |-> Image("grey", <<w, h>>), w |-> w, h |-> h, d |-> 0, planes |-> planes]
pdp_packet_new_image_mchp(w, h, d, planes) ==
    [type |-> Image("multi", <<w, h, d>>), w |-> w, h |-> h, d |-> d, planes |-> planes]
pdp_packet_new_bitmap(enc, w, h, planes) ==
    [type |-> Bitmap(enc, <<w, h>>), w |-> w, h |-> h, d |-> 0, planes |-> planes]
pdp_packet_new_matrix(rows, columns, prec, field, planes) ==
    [type |-> Matrix(prec, field, <<rows, columns>>), w |-> columns, h |-> rows, d |-> 0,
     planes |-> planes]

(* The factories make a packet of the dimensions in the type, zero when     *)
(* they cannot be read, and keep it only when its description is the type.  *)
pdp_image_factory(type) ==
    LET dim == type[3]
        N(i) == IF dim = Star \/ i > Len(dim) THEN 0 ELSE dim[i]
        p == CASE type[2] = <<"grey">> -> pdp_packet_new_image_grey(N(1), N(2), <<>>)
               [] type[2] = <<"YCrCb">> -> pdp_packet_new_image_YCrCb(N(1), N(2), <<>>)
               [] type[2] = <<"multi">> -> pdp_packet_new_image_mchp(N(1), N(2), N(3), <<>>)
               [] OTHER -> Invalid
    IN  IF p.type = type THEN p ELSE Invalid

pdp_bitmap_factory(type) ==
    LET dim == type[3]
        N(i) == IF dim = Star \/ i > Len(dim) THEN 0 ELSE dim[i]
        p == pdp_packet_new_bitmap(type[2][1], N(1), N(2), <<>>)
    IN  IF type[2][1] \in {"grey", "yv12", "rgb"} /\ p.type = type THEN p ELSE Invalid

Factory(type) == CASE type[1] = <<"image">> -> pdp_image_factory(type)
                   [] type[1] = <<"bitmap">> -> pdp_bitmap_factory(type)
                   [] OTHER -> Invalid

--------------------------------------------------------------------------------
(* A plane beyond the data of a packet is read from whatever follows it. *)
Plane(p, i) == IF i \in DOMAIN p.planes THEN p.planes[i] ELSE "outside"
FirstPlanes(p, n) == [i \in 1..n |-> Plane(p, i)]

_image_convert_YCrCb_to_grey(p) == pdp_packet_new_image_grey(p.w, p.h, <<Plane(p, 1)>>)
_image_convert_grey_to_YCrCb(p) ==
    pdp_packet_new_image_YCrCb(p.w, p.h, <<Plane(p, 1), "zero", "zero">>)
_image_convert_grey_to_multi(p) == pdp_packet_new_image_mchp(p.w, p.h, 1, <<Plane(p, 1)>>)

(* Channel 1 is copied when d >= 1 and channel 2 when d >= 2. *)
_image_convert_multi_to_YCrCb(p) ==
    pdp_packet_new_image_YCrCb(p.w, p.h,
        <<Plane(p, 1), IF p.d >= 1 THEN Plane(p, 2) ELSE "zero",
          IF p.d >= 2 THEN Plane(p, 3) ELSE "zero">>)
_image_convert_YCrCb_to_multi(p) == pdp_packet_new_image_mchp(p.w, p.h, 3, FirstPlanes(p, 3))

(* The dimensions of the template, zero where it does not give them. *)
_pdp_description_get_dims(t, i) == IF t[3] = Star \/ i > Len(t[3]) THEN 0 ELSE t[3][i]

_image_convert_resample_YCrCb(p, t) ==
    pdp_packet_new_image_YCrCb(_pdp_description_get_dims(t, 1), _pdp_description_get_dims(t, 2),
                               FirstPlanes(p, 3))

(* As many planes as the template has, whatever the source has. *)
_image_convert_resample_multi(p, t) ==
    LET w == _pdp_description_get_dims(t, 1)
        h == _pdp_description_get_dims(t, 2)
        depth == _pdp_description_get_dims(t, 3)
    IN  IF depth = 0 THEN pdp_packet_new_image_grey(w, h, FirstPlanes(p, 1))
        ELSE pdp_packet_new_image_mchp(w, h, depth, FirstPlanes(p, depth))

_bitmap_convert_grey_to_grey8(p) ==
    IF p.type[2][1] \in {"grey", "YCrCb"} THEN pdp_packet_new_bitmap("grey", p.w, p.h, <<Plane(p, 1)>>)
    ELSE Invalid
_bitmap_convert_YCrCb_to_rgb8(p) ==
    IF p.type[2] = <<"YCrCb">> THEN pdp_packet_new_bitmap("rgb", p.w, p.h, <<"R", "G", "B">>)
    ELSE Invalid
_bitmap_convert_image_to_yv12(p) ==
    CASE p.type[2] = <<"YCrCb">> -> pdp_packet_new_bitmap("yv12", p.w, p.h, FirstPlanes(p, 3))
      [] p.type[2] = <<"grey">> -> pdp_packet_new_bitmap("yv12", p.w, p.h, <<Plane(p, 1), "zero", "zero">>)
      [] OTHER -> Invalid
_bitmap_convert_rgb8_to_YCrCb(p) == pdp_packet_new_image_YCrCb(p.w, p.h, <<"Y", "V", "U">>)
_bitmap_convert_rgb8_to_bitmap_YCrCb(p) == pdp_packet_new_bitmap("yv12", p.w, p.h, <<"Y", "V", "U">>)
_bitmap_convert_grey8_to_grey(p) == pdp_packet_new_image_grey(p.w, p.h, <<Plane(p, 1)>>)
_bitmap_convert_rgb8_to_rgba8(p) ==
    pdp_packet_new_bitmap("rgba", p.w, p.h, Append(FirstPlanes(p, 3), "zero"))
_bitmap_convert_rgba8_to_rgb8(p) == pdp_packet_new_bitmap("rgb", p.w, p.h, FirstPlanes(p, 3))
_bitmap_convert_rgb8_to_mchp(p) == pdp_packet_new_image_mchp(p.w, p.h, 3, FirstPlanes(p, 3))

(* Mutant: the chroma planes are not exchanged. *)
I420Unswapped(p) ==
    pdp_packet_new_bitmap(IF p.type[2] = <<"yv12">> THEN "i420" ELSE "yv12", p.w, p.h,
                          FirstPlanes(p, 3))
(* The two chroma planes change places. *)
_bitmap_convert_yv12_tofrom_i420(p) ==
    pdp_packet_new_bitmap(IF p.type[2] = <<"yv12">> THEN "i420" ELSE "yv12", p.w, p.h,
                          <<Plane(p, 1), Plane(p, 3), Plane(p, 2)>>)
_bitmap_convert_yv12_to_image(p) == pdp_packet_new_image_YCrCb(p.w, p.h, FirstPlanes(p, 3))
_bitmap_convert_mchp_to_rgb8(p) ==
    CASE p.d = 1 -> pdp_packet_new_bitmap("grey", p.w, p.h, FirstPlanes(p, 1))
      [] p.d = 3 -> pdp_packet_new_bitmap("rgb", p.w, p.h, FirstPlanes(p, 3))
      [] p.d = 4 -> pdp_packet_new_bitmap("rgba", p.w, p.h, FirstPlanes(p, 4))
      [] OTHER -> Invalid

_convert_image_to_matrix(p, prec, field) ==
    pdp_packet_new_matrix(p.h, p.w, prec, field, <<Plane(p, 1)>>)
_convert_matrix_to_greyimage(p) == pdp_packet_new_image_grey(p.w, p.h, <<Plane(p, 1)>>)

(* What the method called m makes of p. *)
Method(m, p, t) ==
    CASE m = "YCrCb_to_grey" -> _image_convert_YCrCb_to_grey(p)
      [] m = "grey_to_YCrCb" -> _image_convert_grey_to_YCrCb(p)
      [] m = "grey_to_multi" -> _image_convert_grey_to_multi(p)
      [] m = "multi_to_YCrCb" -> _image_convert_multi_to_YCrCb(p)
      [] m = "YCrCb_to_multi" -> _image_convert_YCrCb_to_multi(p)
      [] m = "resample_YCrCb" -> _image_convert_resample_YCrCb(p, t)
      [] m = "resample_multi" -> _image_convert_resample_multi(p, t)
      [] m = "grey_to_grey8" -> _bitmap_convert_grey_to_grey8(p)
      [] m = "YCrCb_to_rgb8" -> _bitmap_convert_YCrCb_to_rgb8(p)
      [] m = "image_to_yv12" -> _bitmap_convert_image_to_yv12(p)
      [] m = "rgb8_to_YCrCb" -> _bitmap_convert_rgb8_to_YCrCb(p)
      [] m = "rgb8_to_yv12" -> _bitmap_convert_rgb8_to_bitmap_YCrCb(p)
      [] m = "grey8_to_grey" -> _bitmap_convert_grey8_to_grey(p)
      [] m = "rgb8_to_rgba8" -> _bitmap_convert_rgb8_to_rgba8(p)
      [] m = "rgba8_to_rgb8" -> _bitmap_convert_rgba8_to_rgb8(p)
      [] m = "rgb8_to_mchp" -> _bitmap_convert_rgb8_to_mchp(p)
      [] m = "yv12_i420" -> _bitmap_convert_yv12_tofrom_i420(p)
      [] m = "yv12_to_image" -> _bitmap_convert_yv12_to_image(p)
      [] m = "mchp_to_rgb8" -> _bitmap_convert_mchp_to_rgb8(p)
      [] m = "to_double" -> _convert_image_to_matrix(p, "double", "real")
      [] m = "to_float" -> _convert_image_to_matrix(p, "float", "real")
      [] m = "to_cdouble" -> _convert_image_to_matrix(p, "double", "complex")
      [] m = "to_cfloat" -> _convert_image_to_matrix(p, "float", "complex")
      [] m = "matrix_to_grey" -> _convert_matrix_to_greyimage(p)
      [] m = "fallback" -> Invalid

Entry(src, dst, m) == [src |-> src, dst |-> dst, m |-> m]
AnyImage == Image("*", Star)
AnyBitmap == Bitmap("*", Star)
AnyMatrix == Matrix("*", "*", Star)

(* The conversions, in the order in which they are registered. *)
pdp_image_setup == LET I(e) == Image(e, Star) IN <<
    Entry(I("YCrCb"), I("grey"), "YCrCb_to_grey"), Entry(I("multi"), I("grey"), "YCrCb_to_grey"),
    Entry(I("grey"), I("YCrCb"), "grey_to_YCrCb"), Entry(I("grey"), I("multi"), "grey_to_multi"),
    Entry(I("multi"), I("YCrCb"), "multi_to_YCrCb"), Entry(I("YCrCb"), I("multi"), "YCrCb_to_multi"),
    Entry(I("YCrCb"), I("YCrCb"), "resample_YCrCb"), Entry(I("multi"), I("multi"), "resample_multi"),
    Entry(I("grey"), I("grey"), "resample_multi"), Entry(AnyImage, AnyImage, "fallback")>>

pdp_bitmap_setup ==
    LET I(e) == Image(e, Star)
        B(e) == Bitmap(e, Star)
        Short == <<<<"bitmap">>, Star>>
    IN <<
    Entry(I("grey"), B("grey"), "grey_to_grey8"), Entry(B("grey"), I("grey"), "grey8_to_grey"),
    Entry(I("YCrCb"), B("rgb"), "YCrCb_to_rgb8"), Entry(I("YCrCb"), B("yv12"), "image_to_yv12"),
    Entry(I("grey"), B("yv12"), "image_to_yv12"), Entry(I("YCrCb"), Short, "image_to_yv12"),
    Entry(I("grey"), Short, "image_to_yv12"), Entry(B("yv12"), I("YCrCb"), "yv12_to_image"),
    Entry(B("rgb"), I("YCrCb"), "rgb8_to_YCrCb"), Entry(B("rgb"), I("multi"), "rgb8_to_mchp"),
    Entry(I("multi"), AnyBitmap, "mchp_to_rgb8"), Entry(B("yv12"), B("i420"), "yv12_i420"),
    Entry(B("i420"), B("yv12"), "yv12_i420"), Entry(B("rgb"), B("rgba"), "rgb8_to_rgba8"),
    Entry(B("rgba"), B("rgb"), "rgba8_to_rgb8"), Entry(B("rgb"), AnyImage, "rgb8_to_YCrCb"),
    Entry(B("rgb"), B("yv12"), "rgb8_to_yv12"), Entry(AnyImage, AnyBitmap, "fallback"),
    Entry(AnyBitmap, AnyImage, "fallback"), Entry(AnyBitmap, AnyBitmap, "fallback")>>

pdp_matrix_setup == <<
    Entry(AnyImage, Matrix("double", "real", Star), "to_double"),
    Entry(AnyImage, Matrix("float", "real", Star), "to_float"),
    Entry(AnyImage, Matrix("double", "complex", Star), "to_cdouble"),
    Entry(AnyImage, Matrix("float", "complex", Star), "to_cfloat"),
    Entry(AnyMatrix, Image("grey", Star), "matrix_to_grey"),
    Entry(AnyMatrix, AnyImage, "fallback"), Entry(AnyMatrix, AnyBitmap, "fallback"),
    Entry(AnyImage, Append(AnyMatrix, Star), "fallback"),
    Entry(AnyBitmap, Append(AnyMatrix, Star), "fallback")>>

conversion_list == pdp_image_setup \o pdp_bitmap_setup \o pdp_matrix_setup

--------------------------------------------------------------------------------
(* The first registered conversion that matches both ends. *)
_pdp_type_find_conversion_program(src, dst) ==
    LET s == SelectSeq(conversion_list, LAMBDA e : /\ pdp_type_description_match(src, e.src)
                                                   /\ pdp_type_description_match(dst, e.dst))
    IN  IF s = <<>> THEN "none" ELSE Head(s).m

(* The methods run one after the other; a method gets the template too. *)
_pdp_type_run_conversion_program(program, p, t) ==
    FoldLeft(LAMBDA q, m : IF q = Invalid THEN Invalid ELSE Method(m, q, t), p, program)

(* Conversions are run until the type matches or none is found.  A round    *)
(* has the packet, the program so far and whether the search is over: it is *)
(* not after MaxSteps rounds when it goes round in circles.                 *)
ConversionRounds(p, t) ==
    LET Round[n \in 0..MaxSteps] ==
            LET before == Round[n - 1]
                m == _pdp_type_find_conversion_program(before.p.type, t)
            IN  IF n = 0 THEN [p |-> p, program |-> <<>>, done |-> FALSE]
                ELSE IF before.done THEN before
                ELSE IF m = "none" THEN [p |-> Invalid, program |-> <<>>, done |-> TRUE]
                ELSE LET q == _pdp_type_run_conversion_program(<<m>>, before.p, t)
                     IN  [p |-> q, program |-> Append(before.program, m),
                          done |-> pdp_type_description_match(q.type, t)]
    IN  Round

_pdp_packet_convert(p, t) == ConversionRounds(p, t)[MaxSteps]

(* A packet that fits is copied, any other one is converted. *)
pdp_packet_convert_ro(p, t) ==
    IF pdp_type_description_match(p.type, t) THEN p ELSE _pdp_packet_convert(p, t).p

TypeFits == pdp_type_description_match(packet.type, template)

TypeInit == packet = (CHOOSE p \in Sources : TRUE) /\ template = (CHOOSE t \in Templates : TRUE)

(* A packet arrives at an inlet, to be converted to some template.  When    *)
(* the search does not end nothing comes back.                              *)
Arrive == packet' \in Sources /\ template' \in Templates
Convert == /\ TypeFits \/ _pdp_packet_convert(packet, template).done
           /\ packet' = pdp_packet_convert_ro(packet, template)
           /\ packet' # Invalid /\ template' \in Templates
TypeNext == Arrive \/ Convert

--------------------------------------------------------------------------------
(* A template that the conversions can reach when it gives dimensions: it   *)
(* names the encoding, and has a depth when and only when that is multi.    *)
Attainable(t) ==
    LET dim == t[Len(t)]
    IN  CASE dim = Star -> TRUE
          [] t[1] = <<"image">> /\ t[2] = Star -> FALSE
          [] t[1] = <<"image">> /\ t[2] \in {<<"YCrCb">>, <<"grey">>} -> Len(dim) = 2
          [] t[1] = <<"image">> /\ t[2] = <<"multi">> -> Len(dim) = 3
          [] t[1] = <<"bitmap">> -> t[2] # Star
          [] OTHER -> TRUE

(* The loop of _pdp_packet_convert has no way out but a match or a missing  *)
(* conversion ("conversion loop detected" is commented out): it ends for    *)
(* every attainable template.  For another one it makes the same packets    *)
(* again and again if it does not end, and it never ends for an image of    *)
(* another size.                                                            *)
ConversionEnds ==
    LET round == ConversionRounds(packet, template)
        ends == round[MaxSteps].done
    IN  ~TypeFits =>
        /\ Attainable(template) => ends
        /\ ~ends => \E i, j \in 0..MaxSteps : i # j /\ round[i].p = round[j].p
        /\ /\ packet.type[1] = <<"image">> /\ template[1] = <<"image">> /\ ~Attainable(template)
           /\ <<packet.w, packet.h>> # SubSeq(template[3], 1, 2)
           => ~ends

(* What a conversion c delivers fits the template, however many conversions *)
(* were needed, and running the cached program on the same packet gives the *)
(* same packet: the cache hit does not check the type again.                *)
ConversionFits(c) ==
    /\ pdp_type_description_match(c.p.type, template)
    /\ _pdp_type_run_conversion_program(c.program, packet, template) = c.p

(* Width and height survive every conversion that does not ask for others,  *)
(* through matrices (rows and columns) as well.                             *)
DimensionsKept(c) ==
    template[Len(template)] = Star => c.p.w = packet.w /\ c.p.h = packet.h

(* The chroma planes are where the encoding has them, V before U but in     *)
(* i420, and a source with as many planes as are asked for is not read      *)
(* beyond its end.                                                          *)
PlanesInPlace(p) ==
    LET enough == /\ packet.type[2] = <<"multi">> => packet.d >= 3
                  /\ \A i \in DOMAIN packet.planes : packet.planes[i] # "outside"
                  /\ Len(template[3]) = 3 => Len(packet.planes) >= template[3][3]
    IN  /\ enough => \A i \in DOMAIN p.planes : p.planes[i] # "outside"
        /\ \A i, j \in DOMAIN p.planes : p.planes[i] = "V" /\ p.planes[j] = "U" =>
              (i < j <=> p.type[2] # <<"i420">>)

(* No conversion reads beyond the end of its source.  It does not hold: a   *)
(* multi image with fewer than three planes is read as if it had them       *)
(* (pdp_image.c:338, 345 and 469).                                          *)
PlanesInside == \A i \in DOMAIN pdp_packet_convert_ro(packet, template).planes :
    pdp_packet_convert_ro(packet, template).planes[i] # "outside"

(* The comment calls the match symmetric: a wildcard counts on either side. *)
MatchSymmetric == \A entry \in ToSet(conversion_list) :
    pdp_type_description_match(template, entry.dst) <=> pdp_type_description_match(entry.dst, template)

(* A packet made by a factory has exactly the type that was asked for; a    *)
(* type with a wildcard makes none.                                         *)
FactoryExact == Factory(template) # Invalid =>
    /\ Factory(template).type = template
    /\ \A i \in DOMAIN template : template[i] # Star

(* A conversion that can end does, gives what was asked for and moves every *)
(* plane to its place; matching does not depend on the order of its arguments, and a     *)
(* factory makes what the template says.                                    *)
ConversionSound ==
    /\ MatchSymmetric /\ FactoryExact /\ ConversionEnds
    /\ ~TypeFits => LET c == _pdp_packet_convert(packet, template)
                    IN  c.done /\ c.p # Invalid =>
                            ConversionFits(c) /\ DimensionsKept(c) /\ PlanesInPlace(c.p)
=============================================================================
