-------------------------------- MODULE Display --------------------------------
(* The windows that show packets: the objects pdp_xv and pdp_glx with the X *)
(* display, window, XVideo and GLX code of system/zl they share, and        *)
(* pdp_sdl.  Pd calls them from one thread, but an event that a window      *)
(* sends out of its outlet reaches the patch before the handler returns, and *)
(* the patch may answer with another message.  A window has one dimension.  *)
EXTENDS Integers, Sequences, FiniteSets

CONSTANTS
    ViewClasses,   (* of "xv" and "glx" *)
    ViewSizes,     (* sizes <<w, h>> of packets *)
    ViewWidths,    (* widths of windows, asked for or configured by the server *)
    CapWidth,      (* the 4000 of the workaround in zl_xdisplay_route_events *)
    Screen,        (* width of the root window *)
    ViewNested,    (* messages the patch may send while events are sent out *)
    PollsClosed,   (* whether the patch polls a window that is not open *)
    ImageFails,    (* whether XvCreateImage may fail *)
    ReusesAddress, (* whether malloc may return the address freed last *)
    Retry,         (* PDP_XV_AUTOCREATE_RETRY *)
    MaxWindows,    (* bound: windows created *)
    MaxEvents,     (* bound: events of the server *)
    SdlObjects,    (* objects pdp_sdl in the patch *)
    SdlFails       (* whether a call of SDL may fail *)

ASSUME DisplayAssumption ==
    /\ ViewClasses \subseteq {"xv", "glx"} /\ ViewSizes \subseteq (Nat \X Nat) \ {<<0, 0>>}
    /\ ViewWidths \subseteq Int /\ Screen \in Nat /\ Retry \in Nat /\ 0 \notin SdlObjects

VARIABLES
    view,        (* the object, with its display, window and image *)
    viewRefs,    (* references to packets it took and has not released *)
    viewServer,  (* events that wait in the connection *)
    viewHeld,    (* the mouse button that is down, 0 for none *)
    viewCalls,   (* the loops that send out events, innermost last: [serial, event], the
                    window of each and the event it is sending *)
    viewEvents,  (* posted, sent or skipped, and dropped events *)
    viewGl,      (* current_context, and the context that is really current *)
    viewCopy,    (* whether the last packet fitted the memory it was copied to, and an image was put *)
    sdl,         (* pdp_sdl: state of each object *)
    sdlOwner,    (* sdl_singleton *)
    sdlSession,  (* the library: session it is in (0: none), and its surfaces *)
    sdlRefs      (* references to packets that pdp_sdl did not release *)

viewRest == <<viewServer, viewHeld, viewCalls, viewEvents>>
viewVars == <<view, viewRefs, viewRest, viewGl, viewCopy>>
sdlVars == <<sdl, sdlOwner, sdlSession, sdlRefs>>
displayVars == <<viewVars, sdlVars>>

NoPacket0 == <<0, 0>>
NoWindow == [serial |-> 0, init |-> FALSE, width |-> 0, lastbut |-> 0, events |-> <<>>]
NoVideo == [made |-> FALSE, init |-> FALSE, w |-> 0, h |-> 0, shm |-> FALSE, shminfo |-> FALSE, xvi |-> FALSE,
            room |-> 0, addr |-> 0, serial |-> 0]
Closed(c) == [class |-> c, alive |-> TRUE, packet |-> NoPacket0, open |-> FALSE, autocreate |-> Retry, connected |-> FALSE,
              windowlist |-> {}, win |-> NoWindow, vid |-> NoVideo, serial |-> 0, faults |-> {}]
Faults(o, f, bad) == [o EXCEPT !.faults = IF bad THEN @ \cup {f} ELSE @]
(* Bytes of a YV12 bitmap.                                                  *)
YV12Bytes(s) == s[1] * s[2] + 2 * ((s[1] \div 2) * (s[2] \div 2))

--------------------------------------------------------------------------------
(* system/zl/xv.c: the XvImage.  Shared memory is tried first; when it      *)
(* fails it is given up for good and the image gets memory of its own.      *)
zl_xv_new == [NoVideo EXCEPT !.made = TRUE, !.shm = TRUE, !.w = 320, !.h = 240]
zl_xv_destroy_xvimage(v) == [v EXCEPT !.xvi = FALSE, !.shminfo = FALSE, !.room = 0]
PrivateImages(v) ==
    {[v EXCEPT !.shm = FALSE, !.room = YV12Bytes(<<v.w, v.h>>), !.xvi = ok] : ok \in IF ImageFails THEN BOOLEAN ELSE {TRUE}}
zl_xv_create_xvimage(v, s) ==
    LET n == [v EXCEPT !.w = s[1], !.h = s[2]]
        Shared == [n EXCEPT !.shminfo = TRUE, !.xvi = TRUE, !.room = YV12Bytes(s)]
    IN  IF v.shm THEN {Shared} \cup PrivateImages(zl_xv_destroy_xvimage(n)) ELSE PrivateImages(n)
zl_xv_image_data(v, s) ==
    IF <<v.w, v.h>> = s THEN {v} ELSE zl_xv_create_xvimage(zl_xv_destroy_xvimage(v), s)
zl_xv_open_on_display(v) == zl_xv_create_xvimage([v EXCEPT !.init = TRUE], <<v.w, v.h>>)
zl_xv_close(o) ==
    Faults([o EXCEPT !.vid = IF @.xvi THEN [zl_xv_destroy_xvimage(@) EXCEPT !.init = FALSE] ELSE [@ EXCEPT !.init = FALSE]],
           "dangling", o.vid.init /\ ~o.connected)
zl_xv_free(o) == [zl_xv_close(o) EXCEPT !.vid = NoVideo]

(* system/zl/glx.c: a texture that only grows, in powers of two, and a      *)
(* buffer that is allocated when it does.                                   *)
Doubled(t, n) == CHOOSE d \in {t, 2 * t, 4 * t, 8 * t, 16 * t} : d >= n /\ (d = t \/ d \div 2 < n)
zl_glx_new(a, n) == [NoVideo EXCEPT !.made = TRUE, !.w = 1, !.h = 1, !.addr = a, !.serial = n]
zl_glx_open_on_display(v) == {[v EXCEPT !.init = TRUE]}
zl_glx_image_data(v, s) ==
    IF s[1] > v.w \/ s[2] > v.h
    THEN {[v EXCEPT !.w = Doubled(@, s[1]), !.h = Doubled(@, s[2]), !.room = 4 * s[1] * s[2]]} ELSE {v}
zl_glx_makecurrent(v) == IF viewGl[1] = v.addr THEN viewGl ELSE <<v.addr, v.serial>>
zl_glx_free(o) == Faults([o EXCEPT !.vid = NoVideo], "dangling", o.vid.init /\ ~o.connected)

--------------------------------------------------------------------------------
(* system/zl/xwindow.c: the connection and the window.                      *)
zl_xdisplay_new(o) == [o EXCEPT !.connected = TRUE, !.windowlist = {}]
zl_xdisplay_free(o) == Faults([o EXCEPT !.connected = FALSE, !.windowlist = {}], "assert", o.windowlist # {})
zl_xdisplay_register_window(o) == [o EXCEPT !.windowlist = @ \cup {o.win.serial}]
zl_xdisplay_unregister_window(o) == [o EXCEPT !.windowlist = @ \ {o.win.serial}]
(* The last button of a new window is whatever malloc left there.           *)
zl_xwindow_new(o, b) ==
    [o EXCEPT !.serial = @ + 1, !.win = [NoWindow EXCEPT !.serial = o.serial + 1, !.width = 320, !.lastbut = b]]
(* Mapping waits for the window and takes the size the server gives.        *)
zl_xwindow_config(o, width) ==
    zl_xdisplay_register_window([o EXCEPT !.win.init = TRUE, !.win.width = width])
zl_xwindow_close(o) ==
    Faults([(IF o.win.init THEN zl_xdisplay_unregister_window(o) ELSE o) EXCEPT !.win.init = FALSE, !.win.events = <<>>],
           "dangling", o.win.init /\ ~o.connected)
zl_xwindow_free(o) == [zl_xwindow_close(o) EXCEPT !.win = NoWindow]

zl_xwindow_resize(o, w) == [o EXCEPT !.win.width = IF w > 0 THEN w ELSE @]
zl_xwindow_moveresize(o, w) == [o EXCEPT !.win.width = IF w > 0 THEN w ELSE @]
zl_xwindow_move(o) == zl_xwindow_moveresize(o, o.win.width)
zl_xwindow_fullscreen(o) == zl_xwindow_moveresize(o, Screen)
TileLeft(n, i) == i * (Screen \div n)
TileWidth(n) == IF n - 1 # 0 THEN Screen - (n - 1) * (Screen \div n) ELSE Screen \div n
zl_xwindow_tile(o, n) == [o EXCEPT !.win.width = TileWidth(n)]

--------------------------------------------------------------------------------
(* pdp_xv and pdp_glx: deleting the parts, in this order, and making them.  *)
Video(o) == IF o.class = "xv" THEN zl_xv_free(o) ELSE zl_glx_free(o)
(* Mutant: the connection goes first. *)
CleanupBackwards(o) ==
    LET d == IF o.connected THEN zl_xdisplay_free(o) ELSE o
        v == IF d.vid.made THEN Video(d) ELSE d
        w == IF v.win.serial # 0 THEN zl_xwindow_free(v) ELSE v
    IN  [w EXCEPT !.open = FALSE]
Cleanup(o) ==
    LET w == IF o.win.serial # 0 THEN zl_xwindow_free(o) ELSE o
        v == IF w.vid.made THEN Video(w) ELSE w
        d == IF v.connected THEN zl_xdisplay_free(v) ELSE v
    IN  [d EXCEPT !.open = FALSE]

(* pdp_glx releases its packet in any case, pdp_xv only with a window.      *)
Releases(o) == o.class = "glx" \/ o.open
Destroyed(o) ==
    LET c == IF o.open THEN Cleanup(o) ELSE o
    IN  IF Releases(o) THEN [c EXCEPT !.packet = NoPacket0] ELSE c

Addresses == IF ReusesAddress THEN {1, 2} ELSE {1, 2} \ {viewGl[1]}
(* What pdp_xv_create may lead to: a connection, a port and a window.       *)
XvCreated(o) ==
    LET c == zl_xdisplay_new(o)
        p == {[c EXCEPT !.vid = v] : v \in zl_xv_open_on_display(zl_xv_new)}
        n == {zl_xwindow_new(q, b) : q \in p, b \in {1, 2}}
    IN  {Cleanup(o), Cleanup([c EXCEPT !.vid = zl_xv_new])} \cup {Cleanup(q) : q \in n}
        \cup {[zl_xwindow_config(q, w) EXCEPT !.open = TRUE] : q \in n, w \in ViewWidths}
(* And pdp_glx_create: a connection, a context with its window.             *)
GlxCreated(o) ==
    LET n == {zl_xwindow_new(zl_xdisplay_new(o), b) : b \in {1, 2}}
        g == {[q EXCEPT !.vid = zl_glx_new(a, q.serial)] : q \in n, a \in Addresses}
        p == UNION {{[q EXCEPT !.vid = v] : v \in zl_glx_open_on_display(q.vid)} : q \in g}
    IN  {Cleanup(o)} \cup {Cleanup(q) : q \in g \cup p}
        \cup {[zl_xwindow_config(q, w) EXCEPT !.open = TRUE] : q \in p, w \in ViewWidths}
Created(o) == IF o.open THEN {o} ELSE IF o.class = "xv" THEN XvCreated(o) ELSE GlxCreated(o)

(* A bang without a window tries to make one, a few times.                  *)
try_autocreate(o) ==
    IF o.autocreate = 0 THEN {o} ELSE {IF c.open THEN c ELSE [c EXCEPT !.autocreate = @ - 1] : c \in Created(o)}

DisplayInit ==
    /\ view \in {Closed(c) : c \in ViewClasses} /\ viewRefs = 0
    /\ viewServer = <<>> /\ viewHeld = 0 /\ viewCalls = <<>> /\ viewEvents = [posted |-> 0, sent |-> 0, dropped |-> 0]
    /\ viewGl = <<0, 0>> /\ viewCopy = [fits |-> TRUE, put |-> TRUE]
    /\ sdl = [s \in SdlObjects |-> [alive |-> FALSE, surface |-> 0, overlay |-> 0, size |-> <<0, 0>>, asked |-> 0]]
    /\ sdlOwner = 0 /\ sdlSession = [up |-> FALSE, surface |-> 0, made |-> 0, session |-> 0] /\ sdlRefs = 0

(* The events a window had, and those of its connection, go with it.        *)
Drops(o) ==
    IF o.win.serial = view.win.serial THEN UNCHANGED <<viewServer, viewEvents>>
    ELSE /\ viewServer' = <<>>
         /\ viewEvents' = [viewEvents EXCEPT !.dropped = @ + Len(view.win.events) + Len(viewServer)]

(* A message is taken between two others, or while an event is sent out.    *)
NoEvent == [type |-> "none", value |-> 0]
Innermost == viewCalls[Len(viewCalls)]
Hears(m) == view.alive /\ (viewCalls # <<>> => Innermost.event # NoEvent /\ m \in ViewNested)
Goes(o) == view' = o /\ o.serial <= MaxWindows /\ Drops(o)

pdp_xv_create ==
    /\ Hears("open") /\ \E o \in Created(view) : Goes(o)
    /\ UNCHANGED <<viewRefs, viewHeld, viewCalls, viewGl, viewCopy>>
pdp_xv_destroy ==
    /\ Hears("destroy") /\ Goes(Destroyed(view))
    /\ viewRefs' = viewRefs - (IF view.packet # NoPacket0 /\ Releases(view) THEN 1 ELSE 0)
    /\ UNCHANGED <<viewHeld, viewCalls, viewGl, viewCopy>>
pdp_xv_display ==
    /\ Hears("display") /\ view.open /\ \E o \in Created(Destroyed(view)) : Goes(o)
    /\ viewRefs' = viewRefs - (IF view.packet # NoPacket0 THEN 1 ELSE 0)
    /\ UNCHANGED <<viewHeld, viewCalls, viewGl, viewCopy>>
pdp_xv_autocreate ==
    /\ Hears("autocreate") /\ \E n \in {0, Retry} : view' = [view EXCEPT !.autocreate = n]
    /\ UNCHANGED <<viewRefs, viewRest, viewGl, viewCopy>>
pdp_xv_free ==
    /\ Hears("free") /\ Goes([Destroyed(view) EXCEPT !.alive = FALSE])
    /\ viewRefs' = viewRefs - (IF view.packet # NoPacket0 /\ Releases(view) THEN 1 ELSE 0)
    /\ UNCHANGED <<viewHeld, viewCalls, viewGl, viewCopy>>
WindowMessage ==
    /\ Hears("window") /\ view.open
    /\ \E w \in ViewWidths \cup {0} :
          view' \in {zl_xwindow_resize(view, w), zl_xwindow_moveresize(view, w), zl_xwindow_move(view),
                     zl_xwindow_fullscreen(view), zl_xwindow_tile(view, 1), zl_xwindow_tile(view, 2)}
    /\ UNCHANGED <<viewRefs, viewRest, viewGl, viewCopy>>

(* A packet is held until a bang shows it; another one is dropped.          *)
ViewRegisters ==
    /\ Hears("packet")
    /\ IF view.packet = NoPacket0
       THEN \E s \in ViewSizes : view' = [view EXCEPT !.packet = s] /\ viewRefs' = viewRefs + 1
       ELSE UNCHANGED <<view, viewRefs>>
    /\ UNCHANGED <<viewRest, viewGl, viewCopy>>

(* The events of the connection move to the window they are for, on top of  *)
(* those that are there; a size from the server is capped.                  *)
Capped(w) == IF w > CapWidth THEN CapWidth ELSE w
zl_xdisplay_route_events(o) ==
    LET c == SelectSeq(viewServer, LAMBDA e : e.type = "configure")
    IN  [o EXCEPT !.win.events = @ \o viewServer, !.win.width = IF c = <<>> THEN @ ELSE Capped(c[Len(c)].value)]
Polls(o) ==
    /\ view' = zl_xdisplay_route_events(o) /\ viewServer' = <<>>
    /\ viewCalls' = Append(viewCalls, [serial |-> o.win.serial, event |-> NoEvent])
    /\ UNCHANGED <<viewEvents, viewHeld>>

display_packet(o) ==
    {[o EXCEPT !.vid = v] : v \in IF o.class = "xv" THEN zl_xv_image_data(o.vid, o.packet) ELSE zl_glx_image_data(o.vid, o.packet)}
CopiedBytes(o) == IF o.class = "xv" THEN YV12Bytes(o.packet) ELSE 3 * o.packet[1] * o.packet[2]
ViewShows(o) ==
    \E d \in display_packet(o) :
        /\ viewCopy' = [fits |-> CopiedBytes(o) <= d.vid.room, put |-> d.class = "glx" \/ d.vid.xvi]
        /\ viewGl' = IF o.class = "glx" THEN zl_glx_makecurrent(d.vid) ELSE viewGl
        /\ viewRefs' = viewRefs - 1 /\ Polls([d EXCEPT !.packet = NoPacket0])
pdp_xv_bang ==
    /\ Hears("bang")
    /\ \/ /\ view.open /\ view.packet # NoPacket0 /\ ViewShows(view)
       \/ /\ view.open /\ view.packet = NoPacket0 /\ UNCHANGED viewVars
       \/ /\ ~view.open
          /\ \E o \in try_autocreate(view) :
                /\ o.serial <= MaxWindows
                /\ IF o.open /\ o.packet # NoPacket0 THEN ViewShows(o)
                   ELSE /\ view' = o /\ UNCHANGED <<viewRefs, viewRest, viewGl, viewCopy>>
pdp_xv_poll ==
    /\ Hears("poll") /\ view.class = "xv"
    /\ \/ /\ view.open /\ Polls(view)
       \/ /\ ~view.open /\ PollsClosed /\ view' = Faults(view, "null", TRUE) /\ UNCHANGED viewRest
    /\ UNCHANGED <<viewRefs, viewGl, viewCopy>>

(* Events leave the window one at a time, the newest first, and each may    *)
(* make the patch send messages, which may send out events of their own.    *)
(* The button of a press is kept when its event has been sent: the window   *)
(* is written then, and its events are read by the loop that goes on.       *)
PopEvent(w) == [w EXCEPT !.events = SubSeq(@, 1, Len(@) - 1)]
Sends(e) == viewCalls' = [viewCalls EXCEPT ![Len(viewCalls)].event = e]
zl_xwindow_for_parsed_events ==
    /\ viewCalls # <<>> /\ Innermost.event = NoEvent
    /\ view.win.serial = Innermost.serial /\ view.win.events # <<>>
    /\ Sends(view.win.events[Len(view.win.events)])
    /\ view' = [view EXCEPT !.win = PopEvent(@)]
    /\ viewEvents' = [viewEvents EXCEPT !.sent = @ + 1]
    /\ UNCHANGED <<viewRefs, viewServer, viewHeld, viewGl, viewCopy>>
SendReturns ==
    /\ viewCalls # <<>> /\ Innermost.event # NoEvent /\ view.win.serial = Innermost.serial
    /\ Sends(NoEvent)
    /\ view' = IF Innermost.event.type \in {"press", "release"} THEN [view EXCEPT !.win.lastbut = Innermost.event.value]
               ELSE view
    /\ UNCHANGED <<viewRefs, viewServer, viewHeld, viewEvents, viewGl, viewCopy>>
PollEnds ==
    /\ viewCalls # <<>> /\ Innermost.event = NoEvent
    /\ view.win.serial = Innermost.serial /\ view.win.events = <<>>
    /\ viewCalls' = SubSeq(viewCalls, 1, Len(viewCalls) - 1)
    /\ UNCHANGED <<view, viewRefs, viewServer, viewHeld, viewEvents, viewGl, viewCopy>>

(* The user and the window manager.                                         *)
ServerEvents ==
    [type : {"close", "key"}, value : {0}] \cup [type : {"configure"}, value : ViewWidths]
    \cup [type : {"motion"}, value : {viewHeld}]
    \cup IF viewHeld = 0 THEN [type : {"press"}, value : {1, 2}] ELSE [type : {"release"}, value : {viewHeld}]
ServerPosts ==
    /\ view.open /\ viewEvents.posted < MaxEvents
    /\ \E e \in ServerEvents :
          /\ viewServer' = Append(viewServer, e)
          /\ viewHeld' = CASE e.type = "press" -> e.value [] e.type = "release" -> 0 [] OTHER -> viewHeld
    /\ viewEvents' = [viewEvents EXCEPT !.posted = @ + 1]
    /\ UNCHANGED <<view, viewRefs, viewCalls, viewGl, viewCopy>>

ViewNext ==
    \/ pdp_xv_create \/ pdp_xv_destroy \/ pdp_xv_display \/ pdp_xv_autocreate \/ pdp_xv_free \/ WindowMessage
    \/ ViewRegisters \/ pdp_xv_bang \/ pdp_xv_poll \/ zl_xwindow_for_parsed_events \/ SendReturns \/ PollEnds \/ ServerPosts

--------------------------------------------------------------------------------
(* pdp_sdl: one object may own the library, which has one surface; a surface *)
(* made later ends the one before it, and the overlay on it.                *)
SdlDies(o) == <<[o EXCEPT !.overlay = 0], [sdlSession EXCEPT !.up = FALSE, !.surface = 0], 0>>
destroy_overlay(o) == [o EXCEPT !.overlay = 0]
create_surface(o, lib, w) ==
    LET n == lib.made + 1
        made == <<[destroy_overlay(o) EXCEPT !.surface = n, !.asked = w], [lib EXCEPT !.surface = n, !.made = n]>>
        failed == <<[destroy_overlay(o) EXCEPT !.surface = 0], lib>>
    IN  IF ~lib.up THEN {failed} ELSE IF SdlFails THEN {made, failed} ELSE {made}
create_overlay(o, s) ==
    IF o.surface = 0 THEN {o}
    ELSE {[o EXCEPT !.overlay = o.surface, !.size = s]} \cup IF SdlFails THEN {o} ELSE {}
check_overlay(o, s) ==
    IF o.overlay = 0 \/ o.size # s THEN create_overlay(destroy_overlay(o), s) ELSE {o}
(* Opening makes a surface of the size the object was created with, never   *)
(* of the size it was told later; on a failure the object is freed in part. *)
pdp_sdl_open(o) ==
    IF o.overlay # 0 THEN {<<o, sdlSession, sdlOwner>>}
    ELSE UNION {{IF q.overlay = 0 THEN <<SdlDies(q)[1], SdlDies(q)[2], 0>> ELSE <<q, p[2], sdlOwner>>
                    : q \in IF p[1].surface = 0 THEN {p[1]} ELSE check_overlay(p[1], <<240, 320>>)}
                : p \in create_surface(o, sdlSession, 320)}

SdlBecomes(i, r) == sdl' = [sdl EXCEPT ![i] = r[1]] /\ sdlSession' = r[2] /\ sdlOwner' = r[3] /\ r[2].made <= MaxWindows
pdp_sdl_new(i) ==
    /\ ~sdl[i].alive /\ sdlOwner = 0 /\ sdlOwner' = i
    /\ sdl' = [sdl EXCEPT ![i] = [alive |-> TRUE, surface |-> 0, overlay |-> 0, size |-> <<0, 0>>, asked |-> 320]]
    /\ sdlSession' = [sdlSession EXCEPT !.up = TRUE] /\ UNCHANGED sdlRefs
pdp_sdl_free(i) ==
    /\ sdl[i].alive /\ LET d == SdlDies(sdl[i]) IN SdlBecomes(i, <<[d[1] EXCEPT !.alive = FALSE], d[2], d[3]>>)
    /\ UNCHANGED sdlRefs
sdl_resize(i) ==
    /\ sdl[i].alive /\ \E w \in ViewWidths : \E p \in create_surface(sdl[i], sdlSession, w) : SdlBecomes(i, <<p[1], p[2], sdlOwner>>)
    /\ UNCHANGED sdlRefs
(* A poll opens the window too, and obeys a resize of the user.             *)
poll_events(i) ==
    /\ sdl[i].alive
    /\ \E r \in pdp_sdl_open(sdl[i]) :
          \/ SdlBecomes(i, r)
          \/ /\ r[1].overlay # 0
             /\ \E w \in ViewWidths : \E p \in create_surface(r[1], r[2], w) : SdlBecomes(i, <<p[1], p[2], r[3]>>)
    /\ UNCHANGED sdlRefs
sdl_input_0(i) ==
    /\ sdl[i].alive
    /\ \E r \in pdp_sdl_open(sdl[i]), s \in ViewSizes :
          IF r[1].overlay = 0 THEN SdlBecomes(i, r) /\ UNCHANGED sdlRefs
          ELSE \E q \in check_overlay(r[1], s), shown \in IF SdlFails THEN BOOLEAN ELSE {TRUE} :
                  SdlBecomes(i, <<q, r[2], r[3]>>) /\ sdlRefs' = sdlRefs + (IF q.overlay # 0 /\ ~shown /\ sdlRefs = 0 THEN 1 ELSE 0)
SdlNext == \E i \in SdlObjects : pdp_sdl_new(i) \/ pdp_sdl_free(i) \/ sdl_resize(i) \/ poll_events(i) \/ sdl_input_0(i)

DisplayNext == (ViewNext /\ UNCHANGED sdlVars) \/ (SdlNext /\ UNCHANGED viewVars)
DisplaySpec == DisplayInit /\ [][DisplayNext]_displayVars

--------------------------------------------------------------------------------
DisplayTypeOK ==
    /\ view.class \in ViewClasses /\ view.packet \in ViewSizes \cup {NoPacket0} /\ view.autocreate \in 0..Retry
    /\ viewRefs \in Nat /\ viewHeld \in 0..2 /\ sdlOwner \in SdlObjects \cup {0}

(* The parts exist together or not at all, whatever failed halfway, and are *)
(* deleted while the connection they use is up and, as zl_xdisplay_free      *)
(* asserts, without a window on its list.                                   *)
ViewWhole ==
    /\ view.faults = {}
    /\ IF view.open
       THEN view.connected /\ view.win.init /\ view.vid.init /\ view.windowlist = {view.win.serial}
       ELSE ~view.connected /\ view.win = NoWindow /\ ~view.vid.made /\ view.windowlist = {}

(* An object holds one reference while it holds a packet and none else; a    *)
(* pdp_glx that is gone has released its packet.                            *)
ViewReleases ==
    /\ view.alive => viewRefs = Cardinality({view.packet} \ {NoPacket0})
    /\ ~view.alive /\ view.class = "glx" => viewRefs = 0

(* The copy of a bitmap to the XvImage stays inside its memory, shared or    *)
(* not, and an image is put that exists.                                    *)
ImageFits == view.class = "xv" => viewCopy.fits /\ viewCopy.put

(* While events are sent out their window exists: the loop reads its list.  *)
PollAlive == \A i \in DOMAIN viewCalls : view.open /\ view.win.serial = viewCalls[i].serial

(* Every event of the server is sent once, waits, or was dropped with its    *)
(* window.                                                                  *)
EventsOnce == viewEvents.posted = viewEvents.sent + viewEvents.dropped + Len(viewServer) + Len(view.win.events)

(* What pdp_glx draws goes to its own context: the cached current_context    *)
(* is never taken for a context of an earlier window.                       *)
ContextOwn == view.class = "glx" /\ view.open /\ viewGl[1] = view.vid.addr => viewGl[2] = view.vid.serial

(* Tiles beside each other cover the screen and end at its edge.            *)
TilesCover ==
    \A n \in 1..Screen : UNION {TileLeft(n, i)..(TileLeft(n, i) + TileWidth(n) - 1) : i \in 0..(n - 1)} = 0..(Screen - 1)

(* One pdp_sdl owns the library, its overlay is on the surface there is, and *)
(* it releases every packet it converted.                                   *)
SdlSound ==
    /\ Cardinality({i \in SdlObjects : sdl[i].alive}) <= 1
    /\ \A i \in SdlObjects : sdl[i].alive => sdlOwner = i /\ sdlSession.up /\ sdl[i].overlay \in {0, sdlSession.surface}
    /\ sdlRefs = 0

(* Whatever fails - a connection, a port, a window, an XvImage - and         *)
(* whatever the patch answers to an event, closing the window among it: the  *)
(* object holds one reference while it holds a packet, a pdp_glx that is     *)
(* gone has none, an event arrives once or goes with its window, no part is  *)
(* deleted after the connection it uses nor the connection before its        *)
(* window, and tiles cover the screen.  (That a pdp_xv that is gone has      *)
(* released its packet is XvReleases below.)                                 *)
DisplayKept ==
    /\ DisplayTypeOK /\ ViewReleases /\ EventsOnce /\ TilesCover
    /\ view.faults \subseteq (IF PollsClosed THEN {"null"} ELSE {})

(* While XvCreateImage and SDL do not fail, no freed address is reused at     *)
(* once, and the patch neither polls a closed window nor closes one from     *)
(* inside its events, more is true: the parts of a window exist together,    *)
(* a bitmap is copied inside its XvImage, the loop that sends out events     *)
(* still has its window, pdp_glx draws in its own context, and the one       *)
(* pdp_sdl owns the library.  This says nothing of the texture buffer of     *)
(* pdp_glx (GlxFits below).                                                  *)
DisplaySound ==
    /\ DisplayTypeOK /\ ViewWhole /\ ViewReleases /\ ImageFits /\ PollAlive /\ EventsOnce /\ ContextOwn /\ TilesCover /\ SdlSound

--------------------------------------------------------------------------------
(* What does not hold: pdp_xv keeps its packet's reference when it is freed  *)
(* without a window; the texture buffer of pdp_glx is too small for a larger *)
(* image that fits the texture; a drag names the button of an event handled  *)
(* before; a size told to pdp_sdl lasts until the next packet.               *)
XvReleases == ~view.alive => viewRefs = 0
GlxFits == viewCopy.fits
DragNamesButton ==
    viewCalls # <<>> /\ Innermost.event = NoEvent /\ Innermost.serial = view.win.serial /\ view.win.events # <<>>
    => LET e == view.win.events[Len(view.win.events)]
       IN  e.type = "motion" /\ e.value # 0 => view.win.lastbut = e.value
SizeKept == [][\A i \in SdlObjects : sdl[i].alive /\ sdl'[i].overlay # 0 => sdl'[i].asked = sdl[i].asked]_displayVars

================================================================================
