---------------------------- MODULE PatchObjects ----------------------------
(* Objects that pass messages on and keep little: pdp_route, pdp_trigger,   *)
(* pdp_inspect_ro, pdp_description and pdp_metro~ (modules/generic) and     *)
(* pdp_control (puredata/pdp_control.c).  A packet passes an outlet in      *)
(* three messages, register_ro, register_rw and process; a dpd packet in    *)
(* two, inspect and accumulate, which route and trigger send again when     *)
(* they get the second one.                                                 *)
EXTENDS Integers, Sequences, FiniteSets, SequencesExt

CONSTANTS
    Outlets,       (* number of outlets asked of pdp_route *)
    Trigger,       (* creation arguments of pdp_trigger: "pdp" or "bang" *)
    Controls,      (* pdp_control objects that may exist *)
    DeletesTold,   (* whether the patch deletes a pdp_control while it is told of a drop *)
    Rates,         (* <<den, nom>> arguments of fps *)
    BlockSize, SampleRate,
    MaxBlocks,     (* bound on the audio blocks *)
    MaxInside,     (* bound on the packets under way inside others *)
    MaxDrops       (* bound on the packets dropped *)

ASSUME PatchAssumption ==
    /\ Outlets \in Int /\ Trigger \in Seq({"pdp", "bang"}) /\ Trigger # <<>>
    /\ "none" \notin Controls /\ Rates \subseteq Int \X Int
    /\ BlockSize \in Nat /\ SampleRate \in Nat \ {0} /\ MaxBlocks \in Nat
    /\ MaxInside \in Nat /\ MaxDrops \in Nat

VARIABLES
    pobj,                       (* the class under way *)
    x_route, x_route_next,      (* pdp_route *)
    phase,                      (* messages of the packet that are to come *)
    serving,                    (* pdp_trigger: the outlet whose turn it is *)
    sent,                       (* messages that left: [outlet, msg], with the one they answer for a trigger *)
    sole,                       (* no other packet has passed inside this one *)
    outer,                      (* the packets it passes inside of, interrupted *)
    x_count, x_rate, blocks, fed, bangs, banged,    (* pdp_metro~ *)
    pdp_control_list, dropped_packets,
    walks                       (* broadcasts under way, innermost last: [curr, present, told], the object that
                                   is told, those there from the start and still, and how often each was told *)

routeVars == <<x_route, x_route_next, phase, serving, sent, sole, outer>>
metroVars == <<x_count, x_rate, blocks, fed, bangs, banged>>
controlVars == <<pdp_control_list, dropped_packets, walks>>
patchVars == <<pobj, routeVars, metroVars, controlVars>>

Pdp == <<"register_ro", "register_rw", "process">>
Dpd == <<"inspect", "accumulate">>
PDP_ROUTE_MAX_NB_OUTLETS == 100
x_nb_outlets == IF Outlets < 2 THEN 2
                ELSE IF Outlets >= PDP_ROUTE_MAX_NB_OUTLETS THEN PDP_ROUTE_MAX_NB_OUTLETS - 1 ELSE Outlets

PatchInit ==
    /\ pobj \in {"route", "trigger", "inspect", "description", "metro", "control"}
    /\ x_route = 0 /\ x_route_next = 0 /\ phase = <<>> /\ serving = Len(Trigger) /\ sent = <<>>
    /\ sole = TRUE /\ outer = <<>>
    /\ x_count = 0 /\ x_rate = <<1, 1>> /\ blocks = 0 /\ fed = 0 /\ bangs = 0 /\ banged = FALSE
    /\ pdp_control_list = <<>> /\ dropped_packets = 0 /\ walks = <<>>

(* The patch begins a packet of either kind, once the one before has passed *)
(* or from inside a message of it that the object has sent on.              *)
Begin ==
    /\ pobj \in {"route", "trigger", "inspect", "description"}
    /\ \/ phase = <<>> /\ UNCHANGED outer
       \/ phase # <<>> /\ Len(outer) < MaxInside
          /\ outer' = Append(outer, [phase |-> phase, serving |-> serving, sent |-> sent])
    /\ phase' \in {Pdp, Dpd} /\ sent' = <<>> /\ serving' = Len(Trigger) /\ sole' = TRUE
    /\ UNCHANGED <<pobj, x_route, x_route_next, metroVars, controlVars>>
(* The packet has passed, and the one around it goes on.                    *)
Resumes ==
    /\ phase = <<>> /\ outer # <<>>
    /\ LET p == outer[Len(outer)]
       IN  phase' = p.phase /\ serving' = p.serving /\ sent' = p.sent /\ sole' = FALSE
    /\ outer' = SubSeq(outer, 1, Len(outer) - 1)
    /\ UNCHANGED <<pobj, x_route, x_route_next, metroVars, controlVars>>

Event(o, m) == [outlet |-> o, msg |-> m]
Whole(o, protocol) == [i \in DOMAIN protocol |-> Event(o, protocol[i])]

(* Mutant: the outlet changes in the middle of a packet. *)
RouteAtOnce(f) ==
    LET r == IF f < 0 THEN 0 ELSE IF f >= x_nb_outlets THEN x_nb_outlets - 1 ELSE f
    IN  /\ pobj = "route" /\ x_route_next' = r /\ x_route' = r
        /\ UNCHANGED <<pobj, phase, serving, sent, sole, outer, metroVars, controlVars>>
pdp_route_route(f) ==
    /\ pobj = "route"
    /\ x_route_next' = IF f < 0 THEN 0 ELSE IF f >= x_nb_outlets THEN x_nb_outlets - 1 ELSE f
    /\ UNCHANGED <<pobj, x_route, phase, serving, sent, sole, outer, metroVars, controlVars>>
(* The outlet changes with the first message of a packet only. *)
pdp_route_input_0 ==
    /\ pobj = "route" /\ phase # <<>> /\ Head(phase) \in ToSet(Pdp)
    /\ x_route' = IF Head(phase) = "register_ro" THEN x_route_next ELSE x_route
    /\ sent' = Append(sent, Event(x_route', Head(phase)))
    /\ phase' = Tail(phase)
    /\ UNCHANGED <<pobj, x_route_next, serving, sole, outer, metroVars, controlVars>>
(* Both dpd messages are answered by sending the packet whole: inspect to   *)
(* the outlet of the packet before.                                         *)
pdp_route_input_0_dpd ==
    /\ pobj = "route" /\ phase # <<>> /\ Head(phase) \in ToSet(Dpd)
    /\ x_route' = IF Head(phase) = "accumulate" THEN x_route_next ELSE x_route
    /\ sent' = sent \o Whole(x_route', Dpd)
    /\ phase' = Tail(phase)
    /\ UNCHANGED <<pobj, x_route_next, serving, sole, outer, metroVars, controlVars>>

(* A message reaches the outlets one after the other, the last one first;   *)
(* a bang outlet answers process and accumulate only.                       *)
Reply(o, x, m) == [outlet |-> o, msg |-> x, to |-> m]
Answer(o, m) ==
    CASE m = "inspect" -> <<>>
      [] m = "accumulate" -> IF Trigger[o] = "pdp" THEN <<Reply(o, "inspect", m), Reply(o, "accumulate", m)>>
                             ELSE <<Reply(o, "bang", m)>>
      [] OTHER -> IF Trigger[o] = "pdp" THEN <<Reply(o, m, m)>>
                  ELSE IF m = "process" THEN <<Reply(o, "bang", m)>> ELSE <<>>
TriggerServes ==
    /\ sent' = sent \o Answer(serving, Head(phase))
    /\ IF serving = 1 THEN serving' = Len(Trigger) /\ phase' = Tail(phase)
       ELSE serving' = serving - 1 /\ UNCHANGED phase
    /\ UNCHANGED <<pobj, x_route, x_route_next, sole, outer, metroVars, controlVars>>
pdp_trigger_input_pdp == pobj = "trigger" /\ phase # <<>> /\ Head(phase) \in ToSet(Pdp) /\ TriggerServes
pdp_trigger_input_dpd == pobj = "trigger" /\ phase # <<>> /\ Head(phase) \in ToSet(Dpd) /\ TriggerServes
(* The whole packet passes while it is being registered.  A receiver that   *)
(* works in place gets no register_rw and so never gets it.                 *)
pdp_inspect_input_0 ==
    /\ pobj = "inspect" /\ phase # <<>>
    /\ sent' = IF Head(phase) = "register_ro"
               THEN sent \o <<Event(0, "register_ro"), Event(0, "process")>> ELSE sent
    /\ phase' = Tail(phase)
    /\ UNCHANGED <<pobj, x_route, x_route_next, serving, sole, outer, metroVars, controlVars>>
pdp_description_input ==
    /\ pobj = "description" /\ phase # <<>>
    /\ sent' = IF Head(phase) \in {"register_ro", "inspect"} THEN Append(sent, Event(0, "symbol")) ELSE sent
    /\ phase' = Tail(phase)
    /\ UNCHANGED <<pobj, x_route, x_route_next, serving, sole, outer, metroVars, controlVars>>

--------------------------------------------------------------------------------
(* pdp_metro~: audio samples are counted den times and a bang is due for    *)
(* every period of them; several that fall into a block are one bang.       *)
metro_fps(r) ==
    /\ pobj = "metro"
    /\ x_rate' = [i \in 1..2 |-> IF r[i] < 1 THEN 1 ELSE r[i]]
    /\ fed' = x_count /\ bangs' = 0 /\ banged' = FALSE
    /\ UNCHANGED <<pobj, routeVars, x_count, blocks, controlVars>>
Periods(n, period) == IF n <= period THEN 0 ELSE (n - 1) \div period
metro_perform ==
    LET period == SampleRate * x_rate[2]
        n == x_count + BlockSize * x_rate[1]
    IN  /\ pobj = "metro" /\ blocks < MaxBlocks
        /\ x_count' = n - period * Periods(n, period)
        /\ banged' = (Periods(n, period) > 0)
        /\ bangs' = bangs + Periods(n, period)
        /\ blocks' = blocks + 1 /\ fed' = fed + BlockSize * x_rate[1]
        /\ UNCHANGED <<pobj, routeVars, x_rate, controlVars>>

--------------------------------------------------------------------------------
(* pdp_control: objects enter a list at its front and leave it from         *)
(* anywhere, also while a dropped packet is being announced to them; what   *)
(* they tell the patch may drop another, which is announced inside.         *)
pdp_control_new(c) ==
    /\ pobj = "control" /\ c \notin ToSet(pdp_control_list)
    /\ pdp_control_list' = <<c>> \o pdp_control_list
    /\ UNCHANGED <<pobj, routeVars, metroVars, dropped_packets, walks>>
pdp_control_free(c) ==
    /\ pobj = "control" /\ (~DeletesTold => \A k \in DOMAIN walks : walks[k].curr # c)
    /\ \E i \in DOMAIN pdp_control_list : pdp_control_list[i] = c /\ pdp_control_list' = RemoveAt(pdp_control_list, i)
    /\ walks' = [k \in DOMAIN walks |-> [walks[k] EXCEPT !.present = @ \ {c}]]
    /\ UNCHANGED <<pobj, routeVars, metroVars, dropped_packets>>

(* The next object of the list is read from the one just told.  When that   *)
(* was deleted by what it told the patch, its memory holds anything.        *)
After(c) == LET i == CHOOSE j \in DOMAIN pdp_control_list : pdp_control_list[j] = c
            IN  IF i = Len(pdp_control_list) THEN "none" ELSE pdp_control_list[i + 1]
Nexts(c) == IF c \in ToSet(pdp_control_list) THEN {After(c)} ELSE Controls \cup {"none"}
Told(w, c) == [curr |-> c, present |-> w.present, told |-> [d \in Controls |-> w.told[d] + (IF d = c THEN 1 ELSE 0)]]
pdp_control_notify_drop ==
    /\ pobj = "control" /\ dropped_packets < MaxDrops
    /\ walks # <<>> => walks[Len(walks)].curr # "none"
    /\ dropped_packets' = dropped_packets + 1
    /\ walks' = Append(walks, Told([curr |-> "none", present |-> ToSet(pdp_control_list), told |-> [c \in Controls |-> 0]],
                                   IF pdp_control_list = <<>> THEN "none" ELSE Head(pdp_control_list)))
    /\ UNCHANGED <<pobj, routeVars, metroVars, pdp_control_list>>
pdp_control_notify_broadcast ==
    /\ pobj = "control" /\ walks # <<>> /\ walks[Len(walks)].curr # "none"
    /\ \E n \in Nexts(walks[Len(walks)].curr) : walks' = [walks EXCEPT ![Len(walks)] = Told(@, n)]
    /\ UNCHANGED <<pobj, routeVars, metroVars, pdp_control_list, dropped_packets>>
DropReturns ==
    /\ pobj = "control" /\ walks # <<>> /\ walks[Len(walks)].curr = "none"
    /\ walks' = SubSeq(walks, 1, Len(walks) - 1)
    /\ UNCHANGED <<pobj, routeVars, metroVars, pdp_control_list, dropped_packets>>

PatchNext ==
    \/ Begin \/ Resumes \/ pdp_route_input_0 \/ pdp_route_input_0_dpd
    \/ \E f \in -1..x_nb_outlets : pdp_route_route(f)
    \/ pdp_trigger_input_pdp \/ pdp_trigger_input_dpd \/ pdp_inspect_input_0 \/ pdp_description_input
    \/ metro_perform \/ \E r \in Rates : metro_fps(r)
    \/ \E c \in Controls : pdp_control_new(c) \/ pdp_control_free(c)
    \/ pdp_control_notify_drop \/ pdp_control_notify_broadcast \/ DropReturns

PatchSpec == PatchInit /\ [][PatchNext]_patchVars

--------------------------------------------------------------------------------
IsPdp == phase = <<>> /\ sent # <<>> /\ sent[Len(sent)].msg \in ToSet(Pdp)

(* A packet inside which no other one begins leaves a route whole: register *)
(* and process go the same way although the route may change between them.  *)
(* For each message of a packet the trigger serves its outlets from right   *)
(* to left, bangs among them, whatever passes in between: a bang on the     *)
(* left comes after the packet has been processed on the right.             *)
MessagesWhole ==
    /\ pobj = "route" /\ IsPdp /\ sole => \E o \in 0..x_nb_outlets - 1 : sent = Whole(o, Pdp)
    /\ pobj = "trigger" => \A i, j \in DOMAIN sent : i < j /\ sent[i].to = sent[j].to
          => \/ sent[i].outlet > sent[j].outlet
             \/ sent[i].outlet = sent[j].outlet /\ sent[i].msg = "inspect" /\ sent[j].msg = "accumulate"

(* The rate of the metro does not drift: after any number of blocks the     *)
(* bangs that were due and the samples left over account for every sample   *)
(* since the rate was set, and no whole period is left over.                *)
MetroExact == pobj = "metro" =>
    /\ fed = bangs * SampleRate * x_rate[2] + x_count
    /\ banged => x_count \in 1..SampleRate * x_rate[2]

(* A drop is announced once to every pdp_control that was there all along,  *)
(* also when the announcements make or delete others or drop more packets.  *)
ControlsTold == pobj = "control" => \A k \in DOMAIN walks :
    walks[k].curr = "none" => \A c \in walks[k].present : walks[k].told[c] = 1

(* A packet goes whole through one outlet of a route if no other begins     *)
(* inside it, and right to left through a trigger in any case; the metro    *)
(* keeps its rate over block boundaries; every control object that stays is *)
(* told of a drop once, unless the patch deletes one while it is told.      *)
PatchSound == MessagesWhole /\ MetroExact /\ ControlsTold

(* What does not hold: a packet that begins inside the messages of another  *)
(* takes the new route with it, and the rest of the other one follows.      *)
RoutesWhole == pobj = "route" /\ IsPdp => \E o \in 0..x_nb_outlets - 1 : sent = Whole(o, Pdp)
=============================================================================
