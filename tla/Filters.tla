------------------------------- MODULE Filters -------------------------------
(* The image objects of modules/image_basic, and pdp_scale, pdp_grey2mask   *)
(* and pdp_chrot of image_special: a message of the patch changes           *)
(* parameters in the pd thread while the queue's thread runs the process    *)
(* method with them.  Passing packets to an object and the queue itself are *)
(* in PdpBase and ProcQueue; here an accepted packet is preprocessed and    *)
(* queued, processed in the thread and posted by the callback.  A message   *)
(* is the sequence of its assignments, which the thread may see halfway.    *)
(* Floats are integers in units of 1 / Unit.                                *)
EXTENDS Integers, Sequences, FiniteSets, SequencesExt

CONSTANTS
    Unit,          (* the float 1.0 *)
    FloatArgs,     (* floats a message may carry *)
    FilterKinds,   (* packets that arrive: "small", "big" images, "other" *)
    NbBuffers,     (* packets of the pool *)
    MaxMessages,   (* bound: messages of a behaviour *)
    AllocFails     (* whether the pool may refuse a packet *)

ASSUME FilterAssumption ==
    /\ Unit \in Nat \ {0} /\ FloatArgs \subseteq Int /\ NbBuffers \in Nat
    /\ FilterKinds \subseteq STRING /\ AllocFails \in BOOLEAN

VARIABLES
    fclass, fparam,     (* the class, and its fields with those of its image processor *)
    fwrites, fmsgs,     (* assignments the message under way has left; messages so far *)
    fstage,             (* "idle", "queued", "running", "done": the task of the object *)
    fsample,            (* what the process method has read of the parameters *)
    fpacket0, fpacket1, fpacket2,    (* the packets of the object *)
    fusers, fkind, fmask,            (* packet -> references, kind and channel mask *)
    fshared,            (* packets the patch keeps a reference to *)
    fworked             (* the last routine call: its channels and those that were asked *)

packetVars == <<fpacket0, fpacket1, fpacket2, fusers, fkind, fmask, fshared>>
filterVars == <<fclass, fparam, fwrites, fmsgs, fstage, fsample, packetVars, fworked>>

Buffers == 1..NbBuffers
NoBuffer == 0
Within(x, lo, hi) == IF x < lo THEN lo ELSE IF x > hi THEN hi ELSE x
AtLeast(x, lo) == IF x < lo THEN lo ELSE x
ToInt(f) == IF f >= 0 THEN f \div Unit ELSE -((-f) \div Unit)
Set(field, value) == <<field, value>>
legalwidth(i) == IF i > 0 THEN ((i - 1) \div 8 + 1) * 8 ELSE 8

--------------------------------------------------------------------------------
(* The messages of each class, as assignments *)
pdp_imagebase_chanmask(f) == <<Set("chanmask", IF ToInt(f) < 0 THEN -1 ELSE ToInt(f))>>

pdp_mix_mix(f) ==
    LET g == IF fparam["extrapolate"] = 0 THEN Within(f, 0, Unit) ELSE f
    IN <<Set("left", Unit - g), Set("right", g)>>
pdp_mix_mix1(f) == <<Set("left", f)>>
pdp_mix_mix2(f) == <<Set("right", f)>>
pdp_mix_extrapolate(f) == IF f \in {0, Unit} THEN <<Set("extrapolate", f)>> ELSE <<>>
pdp_randmix_threshold(f) == <<Set("threshold", f)>>
pdp_randmix_random(f) == <<Set("seed", f)>>
pdp_gain_gain(f) == <<Set("gain", f)>>

pdp_logic_set_mask(f) == <<Set("mask", ToInt(f) % 2^16)>>
pdp_logic_set_threshold(f) == <<Set("mask", (32767 * Within(f, 0, Unit)) \div Unit)>>
pdp_logic_set_depth(f) == <<Set("mask", 2^16 - 2^Within(16 - ToInt(f), 0, 16))>>

pdp_conv_passes(f) == <<Set("passes", AtLeast(ToInt(f), 0))>>
pdp_conv_hor(f) == <<Set("hor", ToInt(f) # 0)>>
pdp_conv_ver(f) == <<Set("ver", ToInt(f) # 0)>>
pdp_conv_hmask(l, m, r) == <<Set("hleft", l), Set("hmiddle", m), Set("hright", r)>>
pdp_conv_vmask(l, m, r) == <<Set("vtop", l), Set("vmiddle", m), Set("vbottom", r)>>
pdp_conv_mask(l, m, r) == pdp_conv_hmask(l, m, r) \o pdp_conv_vmask(l, m, r)

(* A filter design gives all the coefficients of the object, then those of  *)
(* its processor; a raw coefficient goes to the object alone.               *)
BiquadCoefs == <<"a0", "a1", "a2", "b0", "b1", "b2">>
OfProcessor == <<"ma1", "ma2", "pb0", "pb1", "pb2">>
pdp_bq_setcoefs(design) ==
    [i \in 1..11 |-> Set(IF i <= 6 THEN BiquadCoefs[i] ELSE OfProcessor[i - 6], design)]
pdp_bq_raw(c, f) == <<Set(c, <<"raw", f>>)>>
pdp_bq_lpf(f) == pdp_bq_setcoefs(<<"lpf", f>>)
pdp_bq_hpf(f) == pdp_bq_setcoefs(<<"hpf", f>>)
pdp_bq_apf(f) == pdp_bq_setcoefs(<<"apf", f>>)
pdp_bq_bsf(f) == pdp_bq_setcoefs(<<"bsf", f>>)
pdp_bq_onep(f) == pdp_bq_setcoefs(<<"onep", Within(f, 0, Unit)>>)
pdp_bq_twop(f) == pdp_bq_setcoefs(<<"twop", Within(f, 0, Unit)>>)
pdp_bq_passes(f) == <<Set("passes", AtLeast(ToInt(f), 0))>>
Flag(d, f) == IF f \in {0, Unit} THEN <<Set(d, f # 0)>> ELSE <<>>
pdp_bq_hor(f) == Flag("lr", f) \o Flag("rl", f)
pdp_bq_ver(f) == Flag("tb", f) \o Flag("bt", f)

ChebyOrder == 2
ChebyFields == <<"c0", "c1", "c2">>
pdp_cheby_coef(c, f) == IF c \in 0..ChebyOrder THEN <<Set(ChebyFields[c + 1], f)>> ELSE <<>>
(* The approximation of an array gives every coefficient; without an array  *)
(* nothing happens.                                                         *)
pdp_cheby_approx(f) == [i \in 1..ChebyOrder + 1 |-> Set(ChebyFields[i], f)]
pdp_cheby_reset == [i \in 1..ChebyOrder + 1 |-> Set(ChebyFields[i], 0)]
pdp_cheby_iterations(f) == <<Set("passes", AtLeast(ToInt(f), 0))>>

pdp_zoom_zoom(f) == <<Set("zoomx", f), Set("zoomy", f)>>
pdp_zoom_center(f, g) == <<Set("centerx", f), Set("centery", g)>>
pdp_zoom_angle(f) == <<Set("angle", f)>>
pdp_chrot_angle(f) ==
    LET m == <<"cos", "sin", "-sin", "cos2", "m1", "m2", "m3", "m4">> IN [i \in 1..8 |-> Set(m[i], f)]

pdp_generator_dim(w, h) == <<Set("width", legalwidth(ToInt(w))), Set("height", legalwidth(ToInt(h)))>>
pdp_generator_type(t) == <<Set("type", t)>>
pdp_constant_value(f) == <<Set("value", (32767 * Within(f, -Unit, Unit)) \div Unit)>>
pdp_plasma_turbulence(f) == <<Set("turbulence", f)>>
pdp_scale_dim(w, h) == <<Set("width", AtLeast(ToInt(w), 32)), Set("height", AtLeast(ToInt(h), 32))>>
pdp_scale_quality(f) == IF f \in {0, Unit} THEN <<Set("quality", f)>> ELSE <<>>

--------------------------------------------------------------------------------
(* The constructors *)
pdp_mix_new == [left |-> Unit \div 2, right |-> Unit \div 2, extrapolate |-> 0, chanmask |-> -1]
pdp_randmix_new == [threshold |-> Unit \div 2, seed |-> 0, chanmask |-> -1]
pdp_gain_new == [gain |-> Unit, chanmask |-> -1]
pdp_logic_new == [mask |-> 65535, chanmask |-> -1]
pdp_conv_new ==
    [passes |-> 1, hor |-> TRUE, ver |-> TRUE, chanmask |-> -1, hleft |-> Unit \div 4, hmiddle |-> Unit \div 2,
     hright |-> Unit \div 4, vtop |-> Unit \div 4, vmiddle |-> Unit \div 2, vbottom |-> Unit \div 4]
pdp_bq_new ==
    [f \in ToSet(BiquadCoefs) \cup ToSet(OfProcessor) |-> <<"onep", Unit \div 8>>]
    @@ [passes |-> 1, lr |-> FALSE, rl |-> FALSE, tb |-> FALSE, bt |-> FALSE, chanmask |-> -1]
pdp_cheby_new == [c0 |-> 0, c1 |-> Unit, c2 |-> 0, passes |-> 1, chanmask |-> -1]
pdp_zoom_new ==
    [zoomx |-> Unit, zoomy |-> Unit, angle |-> 0, centerx |-> Unit \div 2, centery |-> Unit \div 2, chanmask |-> -1]
pdp_chrot_new == [f \in {"cos", "sin", "-sin", "cos2", "m1", "m2", "m3", "m4"} |-> 0]
pdp_noise_new == [width |-> 320, height |-> 240, type |-> "yv12", chanmask |-> -1]
pdp_plasma_new == [width |-> 320, height |-> 240, type |-> "yv12", turbulence |-> 0, chanmask |-> -1]
pdp_constant_new == [width |-> 320, height |-> 240, type |-> "yv12", value |-> 0, chanmask |-> -1]
pdp_scale_new == [width |-> 320, height |-> 240, quality |-> Unit]
pdp_add_new == [chanmask |-> -1]
pdp_mul_new == [chanmask |-> -1]
pdp_stateless_new == [chanmask |-> -1]
pdp_grey2mask_new == [chanmask |-> -1]
FilterClasses == {"mix", "randmix", "gain", "logic", "conv", "bq", "bqt", "cheby", "zoom", "chrot",
                  "noise", "plasma", "constant", "scale", "stateless", "add", "mul", "grey2mask"}
Constructed == [class \in FilterClasses |->
    CASE class = "mix" -> pdp_mix_new           [] class = "randmix" -> pdp_randmix_new
      [] class = "gain" -> pdp_gain_new         [] class = "logic" -> pdp_logic_new
      [] class = "conv" -> pdp_conv_new         [] class \in {"bq", "bqt"} -> pdp_bq_new
      [] class = "cheby" -> pdp_cheby_new       [] class = "zoom" -> pdp_zoom_new
      [] class = "chrot" -> pdp_chrot_new       [] class = "noise" -> pdp_noise_new
      [] class = "plasma" -> pdp_plasma_new     [] class = "constant" -> pdp_constant_new
      [] class = "scale" -> pdp_scale_new       [] class = "add" -> pdp_add_new
      [] class = "mul" -> pdp_mul_new           [] class = "stateless" -> pdp_stateless_new
      [] class = "grey2mask" -> pdp_grey2mask_new]
Generators == {"noise", "plasma", "constant"}

NoSample == [width |-> 0, height |-> 0]
FilterInit ==
    /\ fclass \in FilterClasses /\ fparam = Constructed[fclass]
    /\ fwrites = <<>> /\ fmsgs = 0 /\ fstage = "idle" /\ fsample = NoSample
    /\ fpacket0 = NoBuffer /\ fpacket1 = NoBuffer /\ fpacket2 = NoBuffer
    /\ fusers = [p \in Buffers |-> 0] /\ fkind = [p \in Buffers |-> "none"] /\ fmask = [p \in Buffers |-> 0]
    /\ fshared = {} /\ fworked = <<>>

--------------------------------------------------------------------------------
(* What each class listens to *)
pdp_mix_setup == UNION {{pdp_mix_mix(f), pdp_mix_mix1(f), pdp_mix_mix2(f), pdp_mix_extrapolate(f)} : f \in FloatArgs}
pdp_randmix_setup == UNION {{pdp_randmix_threshold(f), pdp_randmix_random(f)} : f \in FloatArgs}
pdp_gain_setup == UNION {{pdp_gain_gain(f), pdp_imagebase_chanmask(f)} : f \in FloatArgs}
pdp_logic_setup == UNION {{pdp_logic_set_mask(f), pdp_logic_set_threshold(f), pdp_logic_set_depth(f)} : f \in FloatArgs}
pdp_conv_setup == UNION {{pdp_conv_passes(f), pdp_conv_hor(f), pdp_conv_ver(f), pdp_conv_mask(f, 0, f)} : f \in FloatArgs}
pdp_bq_setup == UNION {{pdp_bq_raw("a1", f), pdp_bq_onep(f), pdp_bq_twop(f), pdp_bq_passes(f),
                        pdp_bq_hor(f), pdp_bq_ver(f)} : f \in FloatArgs}
pdp_bqt_setup == UNION {{pdp_bq_lpf(f), pdp_bq_hpf(f), pdp_bq_apf(f), pdp_bq_bsf(f)} : f \in FloatArgs}
pdp_cheby_setup == UNION {{pdp_cheby_coef(ToInt(f), f), pdp_cheby_approx(f), pdp_cheby_reset,
                           pdp_cheby_iterations(f)} : f \in FloatArgs}
pdp_zoom_setup == UNION {{pdp_zoom_zoom(f), pdp_zoom_center(f, 0), pdp_zoom_angle(f)} : f \in FloatArgs}
pdp_chrot_setup == {pdp_chrot_angle(f) : f \in FloatArgs}
pdp_noise_setup == {pdp_generator_dim(f, g) : f, g \in FloatArgs}
pdp_plasma_setup == {pdp_generator_dim(f, Unit) : f \in FloatArgs} \cup {pdp_plasma_turbulence(f) : f \in FloatArgs}
pdp_constant_setup == {pdp_generator_type(t) : t \in {"grey", "rgb"}}
                      \cup UNION {{pdp_constant_value(f), pdp_imagebase_chanmask(f)} : f \in FloatArgs}
pdp_scale_setup == {pdp_scale_dim(f, g) : f, g \in FloatArgs} \cup {pdp_scale_quality(f) : f \in FloatArgs}
pdp_imagebase_setup == {pdp_imagebase_chanmask(f) : f \in FloatArgs}
MessagesOf(class) ==
    CASE class = "mix" -> pdp_mix_setup           [] class = "randmix" -> pdp_randmix_setup
      [] class = "gain" -> pdp_gain_setup         [] class = "logic" -> pdp_logic_setup
      [] class = "conv" -> pdp_conv_setup         [] class = "bq" -> pdp_bq_setup
      [] class = "bqt" -> pdp_bqt_setup           [] class = "cheby" -> pdp_cheby_setup
      [] class = "zoom" -> pdp_zoom_setup         [] class = "chrot" -> pdp_chrot_setup
      [] class = "noise" -> pdp_noise_setup       [] class = "plasma" -> pdp_plasma_setup
      [] class = "constant" -> pdp_constant_setup [] class = "scale" -> pdp_scale_setup
      [] class \in {"add", "mul", "stateless"} -> pdp_imagebase_setup
      [] OTHER -> {}

PdIdle == fwrites = <<>> /\ fclass # "freed"
FilterMessage ==
    /\ PdIdle /\ fstage # "preproc" /\ fmsgs < MaxMessages
    /\ \E w \in MessagesOf(fclass) : fwrites' = w
    /\ fmsgs' = fmsgs + 1
    /\ UNCHANGED <<fclass, fparam, fstage, fsample, packetVars, fworked>>
FilterAssigns ==
    /\ fwrites # <<>>
    /\ fparam' = [fparam EXCEPT ![fwrites[1][1]] = fwrites[1][2]] /\ fwrites' = Tail(fwrites)
    /\ UNCHANGED <<fclass, fmsgs, fstage, fsample, packetVars, fworked>>

--------------------------------------------------------------------------------
(* The pool: the n-th free packet, or none *)
FreeBuffers == {p \in Buffers : fusers[p] = 0}
Lowest(S) == IF S = {} THEN NoBuffer ELSE CHOOSE p \in S : \A q \in S : p <= q
Nth(n) == LET first == Lowest(FreeBuffers)
          IN {IF n = 1 THEN first ELSE Lowest(FreeBuffers \ {first})} \cup IF AllocFails THEN {NoBuffer} ELSE {}
Gets(p, n) == [q \in Buffers |-> IF q = p THEN n ELSE 0]
Sum3(u, d1, d2, d3) == [q \in Buffers |-> u[q] + d1[q] + d2[q] + d3[q]]
Nothing == Gets(NoBuffer, 0)
(* A reference leaves the object with the packet; the patch may keep it.    *)
(* It keeps one at a time.                                                  *)
PassTo(p, keep) == (keep => fshared \subseteq {p}) /\ fshared' = IF keep /\ p # NoBuffer THEN fshared \cup {p} ELSE fshared
(* A packet that nobody uses has no kind. *)
Live == fkind' = [p \in Buffers |-> IF fusers'[p] = 0 THEN "none" ELSE fkind[p]]
Passes1(p, keep) == Gets(p, IF keep /\ p \notin fshared THEN 0 ELSE -1)

(* An image arrives; the base class makes it one and gives the object its   *)
(* own copy.  pdp_scale and pdp_grey2mask take any packet and share it.     *)
FilterAccepts == \E kind \in FilterKinds, shared \in BOOLEAN, p \in Nth(1) :
    /\ PdIdle /\ fstage = "idle" /\ fpacket0 = NoBuffer /\ fclass \notin Generators /\ p # NoBuffer
    /\ (kind = "other" \/ shared) => fclass \in {"scale", "grey2mask"}
    /\ shared => fshared = {}
    /\ fpacket0' = p /\ fkind' = [fkind EXCEPT ![p] = kind]
    /\ fusers' = [fusers EXCEPT ![p] = IF shared THEN 2 ELSE 1]
    /\ fshared' = IF shared THEN fshared \cup {p} ELSE fshared
    /\ fstage' = "preproc"
    /\ UNCHANGED <<fclass, fparam, fwrites, fmsgs, fsample, fpacket1, fpacket2, fmask, fworked>>
PatchLetsGo == \E p \in fshared :
    /\ fshared' = fshared \ {p} /\ fusers' = [fusers EXCEPT ![p] = @ - 1] /\ Live
    /\ UNCHANGED <<fclass, fparam, fwrites, fmsgs, fstage, fsample, fpacket0, fpacket1, fpacket2, fmask, fworked>>
FilterQueues ==
    /\ fclass \notin {"bqt", "zoom", "scale", "grey2mask"}
    /\ IF fclass \in Generators THEN PdIdle /\ fstage = "idle" /\ fpacket0 = NoBuffer ELSE fstage = "preproc"
    /\ fstage' = "queued"
    /\ UNCHANGED <<fclass, fparam, fwrites, fmsgs, fsample, packetVars, fworked>>

(* Mutant: the format of the state is not looked at. *)
StateKept ==
    /\ fclass = "bqt" /\ fstage = "preproc"
    /\ \E p \in Nth(1), q \in Nth(2) :
        IF fpacket1 # NoBuffer THEN UNCHANGED <<fpacket1, fpacket2, fusers, fkind>>
        ELSE /\ fpacket1' = p /\ fpacket2' = q
             /\ fusers' = Sum3(fusers, Gets(p, 1), Gets(q, 1), Nothing)
             /\ fkind' = [r \in Buffers |-> IF r \in {p, q} THEN fkind[fpacket0] ELSE fkind[r]]
    /\ fstage' = "queued"
    /\ UNCHANGED <<fclass, fparam, fwrites, fmsgs, fsample, fpacket0, fmask, fshared, fworked>>
(* The state packets are made anew when the first of them does not fit. *)
(* The clones take the packets that were let go before any other. *)
pdp_bqt_preproc ==
    /\ fclass = "bqt" /\ fstage = "preproc"
    /\ IF fpacket1 # NoBuffer /\ fkind[fpacket1] = fkind[fpacket0]
       THEN UNCHANGED <<fpacket1, fpacket2, fusers, fkind>>
       ELSE \E p \in IF fpacket1 = NoBuffer THEN Nth(1) ELSE {fpacket1} \cup IF AllocFails THEN {NoBuffer} ELSE {},
               q \in IF fpacket2 = NoBuffer THEN Nth(2) ELSE {fpacket2} \cup IF AllocFails THEN {NoBuffer} ELSE {} :
            /\ p = q => p = NoBuffer
            /\ fpacket1' = p /\ fpacket2' = q
            /\ fusers' = Sum3(fusers, Sum3(Gets(fpacket1, -1), Gets(fpacket2, -1), Nothing, Nothing), Gets(p, 1), Gets(q, 1))
            /\ fkind' = [r \in Buffers |-> IF r \in {p, q} THEN fkind[fpacket0] ELSE fkind[r]]
    /\ fstage' = "queued"
    /\ UNCHANGED <<fclass, fparam, fwrites, fmsgs, fsample, fpacket0, fmask, fshared, fworked>>
pdp_zoom_preproc ==
    /\ fclass = "zoom" /\ fstage = "preproc"
    /\ \E p \in Nth(1) : /\ fpacket1' = p /\ fusers' = Sum3(fusers, Gets(p, 1), Nothing, Nothing)
                         /\ fkind' = IF p = NoBuffer THEN fkind ELSE [fkind EXCEPT ![p] = fkind[fpacket0]]
    /\ fstage' = "queued"
    /\ UNCHANGED <<fclass, fparam, fwrites, fmsgs, fsample, fpacket0, fpacket2, fmask, fshared, fworked>>
(* An image of the size asked for passes at once.  A packet that is no      *)
(* image, or for which there is no new one, stays where it is.              *)
pdp_scale_process ==
    /\ fclass = "scale" /\ fstage = "preproc"
    /\ \/ /\ fkind[fpacket0] # "other"
          /\ \E keep \in BOOLEAN : PassTo(fpacket0, keep) /\ fusers' = Sum3(fusers, Passes1(fpacket0, keep), Nothing, Nothing)
          /\ fpacket0' = NoBuffer /\ fstage' = "idle" /\ Live /\ UNCHANGED fpacket1
       \/ /\ fkind[fpacket0] # "other"
          /\ \E p \in Nth(1) : /\ fpacket1' = p /\ fusers' = Sum3(fusers, Gets(p, 1), Nothing, Nothing)
                               /\ fkind' = IF p = NoBuffer THEN fkind ELSE [fkind EXCEPT ![p] = "scaled"]
                               /\ fstage' = IF p = NoBuffer THEN "idle" ELSE "queued"
          /\ UNCHANGED <<fpacket0, fshared>>
       \/ /\ fkind[fpacket0] = "other" /\ fstage' = "idle"
          /\ UNCHANGED <<fpacket0, fpacket1, fusers, fkind, fshared>>
    /\ UNCHANGED <<fclass, fparam, fwrites, fmsgs, fsample, fpacket2, fmask, fworked>>
(* In the pd thread: the image is replaced by its mask and passed; another  *)
(* packet is passed as it is.                                               *)
pdp_grey2mask_process ==
    /\ fclass = "grey2mask" /\ fstage = "preproc"
    /\ \E p \in IF fkind[fpacket0] = "other" THEN {fpacket0} ELSE Nth(1), keep \in BOOLEAN :
        /\ PassTo(p, keep)
        /\ fusers' = IF p = fpacket0 THEN Sum3(fusers, Passes1(p, keep), Nothing, Nothing)
                     ELSE Sum3(fusers, Gets(fpacket0, -1), Gets(p, 1), Passes1(p, keep))
    /\ fpacket0' = NoBuffer /\ fstage' = "idle" /\ Live
    /\ UNCHANGED <<fclass, fparam, fwrites, fmsgs, fsample, fpacket1, fpacket2, fmask, fworked>>

--------------------------------------------------------------------------------
(* The thread.  A process method is the routines it dispatches, each with   *)
(* the channels it gives as an argument.                                    *)
pdp_imagebase_get_chanmask == IF "chanmask" \in DOMAIN fparam THEN fparam["chanmask"] ELSE 0
Mask == pdp_imagebase_get_chanmask
pdp_mix_process == <<<<"mix", Mask>>>>
pdp_randmix_process == <<<<"randmix", Mask>>>>
pdp_gain_process == <<<<"gain", 0>>>>
pdp_logic_process == <<<<"logic", Mask>>>>
pdp_conv_process ==
    (IF fparam["ver"] THEN <<<<"conv_ver", Mask>>>> ELSE <<>>) \o (IF fparam["hor"] THEN <<<<"conv_hor", Mask>>>> ELSE <<>>)
pdp_bqt_process == <<<<"bqt", Mask>>>>
pdp_bq_process == <<<<"bq", Mask>>>>
pdp_cheby_process == <<<<"cheby", Mask>>>>
pdp_zoom_process == <<<<"resample_affinemap", Mask>>>>
pdp_add_process == <<<<"add", Mask>>>>
pdp_mul_process == <<<<"mul", Mask>>>>
pdp_stateless_process == <<<<"stateless", Mask>>>>
pdp_noise_process == <<<<"random", -1>>>>
pdp_plasma_process == <<<<"plasma", -1>>>>
(* The channels that are not asked for are cleared. *)
pdp_constant_process == <<<<"constant", Mask>>, <<"constant", -1 - Mask>>>>
Calls ==
    CASE fclass = "mix" -> pdp_mix_process [] fclass = "randmix" -> pdp_randmix_process
      [] fclass = "gain" -> pdp_gain_process [] fclass = "logic" -> pdp_logic_process
      [] fclass = "conv" -> pdp_conv_process [] fclass = "bqt" -> pdp_bqt_process
      [] fclass = "bq" -> pdp_bq_process [] fclass = "cheby" -> pdp_cheby_process
      [] fclass = "zoom" -> pdp_zoom_process [] fclass = "add" -> pdp_add_process
      [] fclass = "mul" -> pdp_mul_process [] fclass = "stateless" -> pdp_stateless_process
      [] fclass = "noise" -> pdp_noise_process [] fclass = "plasma" -> pdp_plasma_process
      [] fclass = "constant" -> pdp_constant_process

(* The packet of a generator is made with the width first. *)
ThreadBegins ==
    /\ fstage = "queued" /\ fstage' = "running"
    /\ fsample' = [fsample EXCEPT !.width = IF fclass \in Generators THEN fparam["width"] ELSE 0]
    /\ UNCHANGED <<fclass, fparam, fwrites, fmsgs, packetVars, fworked>>

(* A dispatcher takes the mask of the packet before its argument and clears *)
(* it; pdp_gain leaves its mask there and dispatches with none.             *)
Dispatches(p, mask, calls) ==
    /\ fworked' = [i \in 1..Len(calls) |-> <<IF i = 1 /\ mask # 0 THEN mask ELSE calls[i][2], Mask>>]
    /\ fmask' = IF calls = <<>> THEN fmask ELSE [fmask EXCEPT ![p] = 0]
FilterProcess ==
    /\ fclass \notin Generators \cup {"scale", "chrot"} /\ fstage = "running" /\ fstage' = "done"
    /\ Dispatches(fpacket0, IF fclass = "gain" THEN Mask ELSE fmask[fpacket0], Calls)
    /\ UNCHANGED <<fclass, fparam, fwrites, fmsgs, fsample, fpacket0, fpacket1, fpacket2, fusers, fkind, fshared>>
(* No dispatcher: the planes are worked on directly. *)
DirectProcess ==
    /\ fclass \in {"scale", "chrot"} /\ fstage = "running" /\ fstage' = "done"
    /\ UNCHANGED <<fclass, fparam, fwrites, fmsgs, fsample, packetVars, fworked>>
(* An unknown type makes no packet. *)
GeneratorProcess ==
    /\ fclass \in Generators /\ fstage = "running" /\ fstage' = "done"
    /\ \E p \in IF fparam["type"] \in {"yv12", "grey"} THEN Nth(1) ELSE {NoBuffer} :
        /\ fpacket0' = p /\ fusers' = Sum3(fusers, Gets(p, 1), Nothing, Nothing)
        /\ fsample' = [fsample EXCEPT !.height = fparam["height"]]
        /\ IF p = NoBuffer THEN UNCHANGED <<fworked, fmask>> ELSE Dispatches(p, fmask[p], Calls)
    /\ UNCHANGED <<fclass, fparam, fwrites, fmsgs, fpacket1, fpacket2, fkind, fshared>>

(* Mutant: the source stays. *)
KeepsSource == \E keep \in BOOLEAN :
    LET out == IF fclass \in {"zoom", "scale"} THEN fpacket1 ELSE fpacket0 IN
    /\ PdIdle /\ fstage = "done" /\ fstage' = "idle"
    /\ PassTo(out, keep) /\ fusers' = Sum3(fusers, Passes1(out, keep), Nothing, Nothing)
    /\ fpacket0' = (IF fclass \in {"zoom", "scale"} THEN fpacket0 ELSE NoBuffer)
    /\ fpacket1' = IF fclass \in {"zoom", "scale"} THEN NoBuffer ELSE fpacket1
    /\ fsample' = NoSample /\ fworked' = <<>> /\ Live
    /\ UNCHANGED <<fclass, fparam, fwrites, fmsgs, fpacket2, fmask>>
(* The callback passes the result on; pdp_zoom and pdp_scale let the source *)
(* go.                                                                      *)
FilterPosts == \E keep \in BOOLEAN :
    LET made == fclass \in {"zoom", "scale"}
        out == IF made THEN fpacket1 ELSE fpacket0 IN
    /\ PdIdle /\ fstage = "done" /\ fstage' = "idle"
    /\ PassTo(out, keep)
    /\ fusers' = Sum3(fusers, Passes1(out, keep), IF made THEN Gets(fpacket0, -1) ELSE Nothing, Nothing)
    /\ fpacket0' = NoBuffer /\ fpacket1' = IF made THEN NoBuffer ELSE fpacket1
    /\ fsample' = NoSample /\ fworked' = <<>> /\ Live
    /\ UNCHANGED <<fclass, fparam, fwrites, fmsgs, fpacket2, fmask>>
(* The destructors wait for the thread; the callback is not run then. *)
FilterFree ==
    /\ PdIdle /\ fstage \in {"idle", "done"}
    /\ fusers' = Sum3(fusers, Gets(fpacket0, -1), Gets(fpacket1, -1), Gets(fpacket2, -1))
    /\ fpacket0' = NoBuffer /\ fpacket1' = NoBuffer /\ fpacket2' = NoBuffer
    /\ fclass' = "freed" /\ fstage' = "idle" /\ fparam' = <<>>
    /\ fsample' = NoSample /\ fworked' = <<>> /\ Live
    /\ UNCHANGED <<fwrites, fmsgs, fmask, fshared>>

FilterThread == ThreadBegins \/ FilterProcess \/ DirectProcess \/ GeneratorProcess
FilterPd == FilterAssigns \/ pdp_bqt_preproc \/ pdp_zoom_preproc \/ pdp_scale_process \/ pdp_grey2mask_process
            \/ FilterPosts \/ (FilterQueues /\ fclass \notin Generators)
FilterNext == FilterMessage \/ FilterAccepts \/ PatchLetsGo \/ FilterQueues \/ FilterFree \/ FilterThread \/ FilterPd
FilterSpec == FilterInit /\ [][FilterNext]_filterVars
(* The queue's thread runs, and the pd thread ends what it began. *)
FilterFair == WF_filterVars(FilterThread) /\ WF_filterVars(FilterPd)

--------------------------------------------------------------------------------
(* Every reference has one owner, an object's packet or the patch: clones,  *)
(* state packets and generated packets are neither lost nor let go twice,   *)
(* also when the object is freed with its callback still to come.           *)
FilterCounted == \A p \in Buffers : fusers[p] =
    Cardinality({i \in 1..3 : <<fpacket0, fpacket1, fpacket2>>[i] = p}) + (IF p \in fshared THEN 1 ELSE 0)

(* The routines of the thread get packets that belong together: the state   *)
(* of pdp_bqt has the format of the image through every change of format,   *)
(* and source and result are different packets.  Where the pool refuses the *)
(* second state packet this fails for good: the code looks at the first     *)
(* one twice.                                                               *)
PacketsFit == fstage = "running" =>
    /\ fclass = "bqt" => /\ Cardinality({fpacket0, fpacket1, fpacket2}) = 3 /\ NoBuffer \notin {fpacket1, fpacket2}
                         /\ fkind[fpacket1] = fkind[fpacket0] /\ fkind[fpacket2] = fkind[fpacket0]
    /\ fclass \in {"zoom", "scale"} => fpacket0 # fpacket1 /\ fpacket1 # NoBuffer

(* A routine works on the channels that its object was told, whatever       *)
(* objects the packet went through before, as no mask stays in a packet;    *)
(* and pdp_constant writes every channel of its uninitialized packet once.  *)
ChannelsAsked ==
    /\ fworked # <<>> /\ fclass \notin {"noise", "plasma"} => fworked[1][1] = fworked[1][2]
    /\ Len(fworked) = 2 =>
          fworked[2][1] = IF fclass = "constant" THEN -1 - fworked[1][1] ELSE fworked[1][1]
    /\ \A p \in Buffers : fmask[p] = 0

(* A generated image has sides that are multiples of eight even if the      *)
(* thread reads them in the middle of a dim message.                        *)
GeneratedLegal == fclass \in Generators /\ fpacket0 # NoBuffer =>
    fsample.width % 8 = 0 /\ fsample.height % 8 = 0 /\ fsample.width > 0 /\ fsample.height > 0

(* While messages change the parameters and the thread runs the process     *)
(* method: each packet has its owner, the routine gets packets that belong  *)
(* together, the channels asked for, and a legal size.                      *)
FiltersSound == FilterCounted /\ PacketsFit /\ ChannelsAsked /\ GeneratedLegal

(* An accepted packet leaves the object, so that it takes the next one:     *)
(* also when a pool that is empty gave the task no second packet, or a      *)
(* message came in between.  The exception is in the code: pdp_scale keeps  *)
(* a packet that is no image, or for which it got no result packet, until   *)
(* it is deleted.                                                           *)
FilterReady == fpacket0 # NoBuffer /\ ~(fclass = "scale" /\ fstage = "idle") ~>
    fpacket0 = NoBuffer \/ (fclass = "scale" /\ fstage = "idle")

(* The coefficients of the processor are those of the object while no       *)
(* message is under way.  Not true: raw coefficients stay in the object.    *)
CoefficientsApplied == fclass \in {"bq", "bqt"} /\ fwrites = <<>> => fparam["pb0"] = fparam["b0"] /\ fparam["ma1"] = fparam["a1"]
================================================================================
