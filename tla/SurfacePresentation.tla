-------------------------- MODULE SurfacePresentation --------------------------
(***************************************************************************)
(* The surfaces of RenderRuntime: their slots and handles, the swapchain of *)
(* each and the image it has acquired, RenderFrame from the acquisition to  *)
(* the present, reconfiguration, destruction, and recovery.                 *)
(* modules/gfx/src/runtime/presentation.cpp, recovery.cpp, frame.cpp and    *)
(* modules/rhi/backend/wgpu/wgpu_swapchain.cpp.                             *)
(*                                                                          *)
(* All of it runs on the owner's thread.  A frame is kept in steps for its  *)
(* many ways out.  Views that draw into offscreen targets acquire nothing   *)
(* and are left out, and so is Releases, which waits for the tickets it is  *)
(* given.                                                                   *)
(***************************************************************************)
EXTENDS Integers, Sequences

CONSTANTS
    Sizes,        \* sizes of a surface that are not zero
    MaxCreated,   \* bound: surfaces created
    MaxFrames,    \* bound: frames submitted
    MaxRecoveries \* bound: devices replaced

VARIABLES
    slots,        \* surface_slots
    free,         \* free_surfaces
    handles,      \* every handle that was given out
    created, recoveries,
    at,           \* where RenderFrame is
    canvas, views, acquired, outputs,  \* its handles: canvas, views to visit, acquired_surfaces, outputs
    submitted,    \* the ticket of the last frame
    retired,      \* what was given to Releases: the ticket it waits for, the last use by the GPU
    kept,         \* slots whose image a refused frame has left acquired
    replaced      \* the device was replaced in the middle of this frame

frame == <<at, canvas, views, acquired, outputs, replaced>>
gpu == <<submitted, retired>>
registry == <<free, handles, created>>
vars == <<slots, registry, recoveries, frame, gpu, kept>>

NoSwapchain == [size |-> 0, configured |-> FALSE, acquired |-> FALSE]   \* no swapchain
Empty == [generation |-> 1, id |-> 0, surface |-> FALSE, swapchain |-> NoSwapchain, size |-> 0,
          state |-> "Ready", acquired |-> FALSE, lastUsed |-> 0, drawn |-> 0]
NoHandle == [index |-> 0, generation |-> 0, id |-> 0]

Init ==
    /\ slots = << >> /\ free = << >> /\ handles = {} /\ created = 0 /\ recoveries = 0
    /\ at = "idle" /\ canvas = NoHandle /\ views = {} /\ acquired = {} /\ outputs = {}
    /\ submitted = 0
    /\ retired = {} /\ kept = {} /\ replaced = FALSE

------------------------------------------------------------------------------
(* The swapchain *)

NewSwapchain(size) == [size |-> size, configured |-> TRUE, acquired |-> FALSE]

(* The new size is kept even if the surface cannot be configured with it.      *)
Resized(swapchain, size, succeeds) ==
    IF size = swapchain.size THEN swapchain
    ELSE [size |-> size, configured |-> succeeds, acquired |-> FALSE]

\* Variants of definitions below, each with one plausible mistake.
ReleasedFrameOnly(slot) == [slot EXCEPT !.acquired = FALSE]

CanAcquire(swapchain) == swapchain.configured /\ ~swapchain.acquired
Released(slot) == [slot EXCEPT !.acquired = FALSE, !.swapchain.acquired = FALSE]

------------------------------------------------------------------------------
(* The registry of surfaces *)

Valid(h) == h.index > 0 /\ slots[h.index].generation = h.generation
Live(h) == Valid(h) /\ slots[h.index].surface
Between == at = "idle"
Drawing == at = "views" /\ views = {}   \* in Frame: the images are acquired

(* A slot for a new surface: a free one, or one more.                          *)
Index == IF free = << >> THEN Len(slots) + 1 ELSE free[Len(free)]
Slot(i) == IF i <= Len(slots) THEN slots[i] ELSE Empty
Taken == IF free = << >> THEN free ELSE SubSeq(free, 1, Len(free) - 1)
Placed(slot) == IF Index <= Len(slots) THEN [slots EXCEPT ![Index] = slot] ELSE Append(slots, slot)

CreateSurface(size) ==
    /\ Between /\ created < MaxCreated
    /\ created' = created + 1
    /\ LET new == [Slot(Index) EXCEPT !.surface = TRUE, !.size = size, !.id = created + 1, !.drawn = 0] IN
       \/ /\ slots' = Placed(Slot(Index))       \* CreatePlatformSurface failed: the slot is lost
          /\ free' = Taken /\ UNCHANGED handles
       \/ /\ size # 0                           \* the swapchain could not be built
          /\ slots' = Placed([new EXCEPT !.surface = FALSE])
          /\ free' = Append(Taken, Index) /\ UNCHANGED handles
       \/ /\ slots' = Placed(IF size = 0 THEN [new EXCEPT !.state = "Minimized"]
                             ELSE [new EXCEPT !.state = "Ready", !.swapchain = NewSwapchain(size)])
          /\ free' = Taken
          /\ handles' = handles \cup {[index |-> Index, generation |-> new.generation, id |-> new.id]}
    /\ UNCHANGED <<recoveries, frame, gpu, kept>>

ReconfigureSurface(h, size) ==
    /\ Between /\ Live(h)
    /\ LET slot == [slots[h.index] EXCEPT !.acquired = FALSE] IN
       \/ /\ size = 0
          /\ slots' = [slots EXCEPT ![h.index] = [slot EXCEPT !.size = 0, !.state = "Minimized"]]
          /\ UNCHANGED kept
       \/ /\ size # 0 /\ slot.swapchain = NoSwapchain
          /\ \/ slots' = [slots EXCEPT ![h.index] = slot]     \* it could not be built
             \/ slots' = [slots EXCEPT ![h.index] =
                    [slot EXCEPT !.size = size, !.state = "Ready", !.swapchain = NewSwapchain(size)]]
          /\ UNCHANGED kept
       \/ /\ size # 0 /\ slot.swapchain # NoSwapchain
          /\ \E succeeds \in BOOLEAN :
                slots' = [slots EXCEPT ![h.index] =
                    [slot EXCEPT !.size = size, !.state = "Ready",
                                 !.swapchain = Resized(slot.swapchain, size, succeeds)]]
          /\ kept' = IF size = slot.swapchain.size THEN kept ELSE kept \ {h.index}
    /\ UNCHANGED <<registry, recoveries, frame, gpu>>

Retirement(slot) == [ticket |-> slot.lastUsed, drawn |-> slot.drawn]

\* Variants of definitions below, each with one plausible mistake.
VacatedSame(slot) ==
    [slot EXCEPT !.acquired = FALSE, !.surface = FALSE, !.swapchain = NoSwapchain]
MarkedBefore(slot) == [slot EXCEPT !.lastUsed = submitted, !.drawn = submitted + 1]

Vacated(slot) ==
    [slot EXCEPT !.acquired = FALSE, !.surface = FALSE, !.swapchain = NoSwapchain,
                 !.generation = @ + 1]

DestroySurface(h) ==
    /\ Between /\ Live(h)
    /\ retired' = retired \cup {Retirement(slots[h.index])}
    /\ slots' = [slots EXCEPT ![h.index] = Vacated(@)]
    /\ free' = Append(free, h.index)
    /\ kept' = kept \ {h.index}
    /\ UNCHANGED <<handles, created, recoveries, frame, submitted>>

(* RecoverDevice: every slot again, on a new device whose tickets begin again. *)
(* Frame calls it, which is after RenderFrame has acquired the images: they,   *)
(* and the outputs made from them, are still those of the swapchains replaced. *)
(* A recovery that fails has changed nothing and fails the frame: Discard.     *)
Recovered(slot) ==
    LET kin == [Empty EXCEPT !.generation = slot.generation, !.size = slot.size, !.id = slot.id] IN
    IF ~slot.surface THEN kin
    ELSE IF slot.size = 0 THEN [kin EXCEPT !.surface = TRUE, !.state = "Minimized"]
    ELSE [kin EXCEPT !.surface = TRUE, !.swapchain = NewSwapchain(slot.size)]

Recover ==
    /\ Drawing /\ ~replaced /\ recoveries < MaxRecoveries
    /\ recoveries' = recoveries + 1 /\ replaced' = TRUE
    /\ slots' = [i \in DOMAIN slots |-> Recovered(slots[i])]
    /\ submitted' = 0 /\ retired' = {} /\ kept' = {}
    /\ UNCHANGED <<registry, at, canvas, views, acquired, outputs>>

------------------------------------------------------------------------------
(* RenderFrame *)

(* A canvas on one surface or on none, and views on some; their handles may be *)
(* stale by now.                                                               *)
RenderFrame(c, vs) ==
    /\ Between /\ submitted < MaxFrames
    /\ canvas' = c /\ views' = vs /\ acquired' = {} /\ outputs' = {}
    /\ at' = IF c = NoHandle THEN "views" ELSE "canvas"
    /\ UNCHANGED <<slots, registry, recoveries, replaced, gpu, kept>>

Acquire(i) == slots' = [slots EXCEPT ![i].acquired = TRUE, ![i].swapchain.acquired = TRUE]

AcquireCanvas ==
    /\ at = "canvas"
    /\ Valid(canvas) /\ slots[canvas.index].state = "Ready"
    /\ CanAcquire(slots[canvas.index].swapchain)
    /\ Acquire(canvas.index)
    /\ acquired' = {canvas.index}
    /\ at' = "views"
    /\ UNCHANGED <<registry, recoveries, canvas, views, outputs, replaced, gpu, kept>>

(* Stale, not ready, or no image: the frame is refused before anything is held. *)
CanvasRefused ==
    /\ at = "canvas"
    /\ at' = "idle"
    /\ UNCHANGED <<slots, registry, recoveries, canvas, views, acquired, outputs, replaced,
                   gpu, kept>>

ViewSkipped(v) == ~Live(v) \/ slots[v.index].state # "Ready"

SkipView(v) ==
    /\ at = "views" /\ v \in views
    /\ ViewSkipped(v)
    /\ views' = views \ {v}
    /\ UNCHANGED <<slots, registry, recoveries, at, canvas, acquired, outputs, replaced,
                   gpu, kept>>

(* An image another view, the canvas, or a refused frame has acquired is used. *)
AcquireView(v) ==
    /\ at = "views" /\ v \in views
    /\ ~ViewSkipped(v)
    /\ IF slots[v.index].acquired THEN UNCHANGED slots
       ELSE CanAcquire(slots[v.index].swapchain) /\ Acquire(v.index)
    /\ views' = views \ {v}
    /\ acquired' = acquired \cup {v.index} /\ outputs' = outputs \cup {v.index}
    /\ UNCHANGED <<registry, recoveries, at, canvas, replaced, gpu, kept>>

ViewOutdated(v) ==
    /\ at = "views" /\ v \in views
    /\ ~ViewSkipped(v) /\ ~slots[v.index].acquired
    /\ slots' = [slots EXCEPT ![v.index].state = "Outdated"]
    /\ views' = views \ {v}
    /\ UNCHANGED <<registry, recoveries, at, canvas, acquired, outputs, replaced, gpu, kept>>

Releasing(held) == [i \in DOMAIN slots |-> IF i \in held THEN Released(slots[i]) ELSE slots[i]]

(* A stale scene refuses the frame before Frame, and the images stay acquired. *)
SceneStale ==
    /\ Drawing /\ ~replaced /\ acquired # {}
    /\ kept' = kept \cup acquired
    /\ at' = "idle"
    /\ UNCHANGED <<slots, registry, recoveries, canvas, views, acquired, outputs, replaced, gpu>>

(* Frame failed, or had nothing to draw: the images are discarded.             *)
Discard ==
    /\ Drawing
    /\ slots' = Releasing(acquired)
    /\ kept' = kept \ acquired
    /\ at' = "idle" /\ replaced' = FALSE
    /\ UNCHANGED <<registry, recoveries, canvas, views, acquired, outputs, gpu>>

(* Frame submitted the canvas or some of the views, and marks what they used.  *)
Marked(slot) == [slot EXCEPT !.lastUsed = submitted + 1, !.drawn = submitted + 1]

Submit(drawn) ==
    /\ Drawing /\ drawn # {}
    /\ submitted' = submitted + 1
    /\ slots' = [i \in DOMAIN slots |-> IF i \in drawn THEN Marked(slots[i]) ELSE slots[i]]
    /\ at' = "present"
    /\ UNCHANGED <<registry, recoveries, canvas, views, acquired, outputs, replaced, retired, kept>>

Canvases == IF canvas = NoHandle THEN {} ELSE {canvas.index}
SubmitFrame == \E drawn \in SUBSET (outputs \cup Canvases) : Submit(drawn)

(* A frame that failed after a view was submitted gives the images back in the *)
(* same way, without a present that may fail.  A swapchain that holds no image *)
(* fails to present: the surface of one replaced in this frame is Lost.        *)
Present ==
    /\ at = "present"
    /\ \E failed \in SUBSET acquired :
       /\ \A i \in acquired : slots[i].swapchain.acquired \/ i \in failed
       /\ slots' = [i \in DOMAIN slots |->
              IF i \notin acquired THEN slots[i]
              ELSE [Released(slots[i]) EXCEPT !.state = IF i \in failed THEN "Lost" ELSE @]]
    /\ kept' = kept \ acquired
    /\ at' = "idle" /\ replaced' = FALSE
    /\ UNCHANGED <<registry, recoveries, canvas, views, acquired, outputs, gpu>>

Next ==
    \/ \E size \in Sizes \cup {0} :
          CreateSurface(size) \/ \E h \in handles : ReconfigureSurface(h, size)
    \/ \E h \in handles : DestroySurface(h)
    \/ \E c \in handles \cup {NoHandle} : \E vs \in SUBSET handles : RenderFrame(c, vs)
    \/ AcquireCanvas \/ CanvasRefused
    \/ \E v \in views : SkipView(v) \/ AcquireView(v) \/ ViewOutdated(v)
    \/ SceneStale \/ Discard \/ SubmitFrame \/ Present
    \/ Recover

Spec == Init /\ [][Next]_vars

------------------------------------------------------------------------------
(* What a frame draws into and presents is held by its swapchain until it is   *)
(* presented or discarded, except for a frame that found the device lost: of   *)
(* that one no surface holds an image, and it presents none.  Between frames   *)
(* the only images held are those of frames refused for a stale scene.         *)
ImagesReleased ==
    \A i \in DOMAIN slots :
        /\ slots[i].acquired => slots[i].swapchain.acquired
        /\ ~Between /\ at # "canvas" /\ i \in acquired =>
              /\ slots[i].swapchain # NoSwapchain
              /\ slots[i].swapchain.acquired <=> ~replaced
        /\ Between /\ slots[i].swapchain.acquired => i \in kept

(* RenderFrame calls the swapchain of a surface that is Ready without a look;  *)
(* a handle reaches the surface it was given for or none; no slot is free      *)
(* twice, or while its surface lives.                                          *)
HandlesReachTheirOwn ==
    /\ \A h \in handles : Live(h) =>
          /\ slots[h.index].id = h.id
          /\ slots[h.index].state = "Ready" => slots[h.index].swapchain # NoSwapchain
    /\ \A h \in handles : Valid(h) => Live(h)
    /\ \A i, j \in DOMAIN free : free[i] = free[j] => i = j
    /\ \A i \in DOMAIN free : ~slots[free[i]].surface

(* A swapchain is released only after the last frame drawn into it.            *)
RetiredWhenDrawn == \A r \in retired : r.drawn <= r.ticket
================================================================================
