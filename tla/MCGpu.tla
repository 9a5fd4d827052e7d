-------------------------------- MODULE MCGpu -------------------------------
(* Four parts of the renderer that wait for the GPU and share no state here: *)
(* a buffer pool with three sizes and alignments over eight bytes; the       *)
(* upload scheduler with a mesh of two pieces a level and a texture whose    *)
(* pieces fill a batch and begin another; the frame contexts; the readbacks. *)
(* A behaviour is one of them, and the others stay as they begin.            *)
EXTENDS BufferPool

CONSTANTS Meshes, Textures, Lods, QueuedBytes, QueuedRequests, BatchBytes,
    BatchRequests, MaxGenerations, MaxWork,
    FramesInFlight, MaxInFlight, MaxAborts, MaxLosses, Tickets, MaxQueued

VARIABLES part,
    queued, batches, nextWork, queuedBytes, inFlightBytes, deviceLost, issued,
    completed, phase, todo, mesh, texture, newest,
    contexts, cursor, frames, gone, recovery, at, current, ticket, last, viewed,
    aborts, losses, work, cancelled,
    entries, active, mapping, copies, step, visit, replaced, copied

Mixed == {[size |-> 1, alignment |-> 1], [size |-> 3, alignment |-> 2],
          [size |-> 2, alignment |-> 4]}

Upload == INSTANCE UploadScheduler WITH MeshPieces <- <<1, 1>>, TexturePieces <- <<2, 1>>,
              inFlight <- batches, submitted <- issued
Frame == INSTANCE RenderFrames WITH inFlight <- frames, lost <- gone
Readback == INSTANCE ReadbackService WITH MaxInFlight <- 2, inFlight <- copies,
                at <- step, losses <- replaced

pooling == vars
uploading == <<queued, batches, nextWork, queuedBytes, inFlightBytes, deviceLost,
               issued, completed, phase, todo, mesh, texture, newest>>
framing == <<contexts, cursor, frames, gone, recovery, at, current, ticket, last,
             viewed, aborts, losses, work, cancelled>>
reading == <<entries, active, mapping, copies, step, visit, replaced, copied>>

GpuInit == /\ part \in {"pool", "upload", "frame", "readback"}
           /\ Init /\ (part # "pool" => marks)
           /\ Upload!Init /\ Frame!Init /\ Readback!Init

GpuNext ==
    \/ part = "pool" /\ Next /\ UNCHANGED <<part, uploading, framing, reading>>
    \/ part = "upload" /\ Upload!Next /\ UNCHANGED <<part, pooling, framing, reading>>
    \/ part = "frame" /\ Frame!Next /\ UNCHANGED <<part, pooling, uploading, reading>>
    \/ part = "readback" /\ Readback!Next /\ UNCHANGED <<part, pooling, uploading, framing>>

\* The fairness of each module, for the behaviours that are its own.
GpuSpec ==
    /\ GpuInit /\ [][GpuNext]_<<part, pooling, uploading, framing, reading>>
    /\ WF_pooling(part = "pool" /\ Complete) /\ WF_pooling(part = "pool" /\ Collect)
    /\ WF_uploading(part = "upload" /\ Upload!FrameStep)
    /\ SF_uploading(part = "upload" /\ Upload!SubmitTextures)
    /\ WF_uploading(part = "upload" /\ Upload!SubmitFrame)
    /\ WF_uploading(part = "upload" /\ Upload!SubmitDraws)
    /\ WF_uploading(part = "upload" /\ Upload!Complete)
    /\ WF_framing(part = "frame" /\ Frame!FrameStep)
    /\ WF_framing(part = "frame" /\ Frame!Drain)
    /\ WF_framing(part = "frame" /\ Frame!Complete)
    /\ WF_reading(part = "readback" /\ Readback!PumpStep)
    /\ WF_reading(part = "readback" /\ Readback!Complete)
    /\ \A t \in Tickets : WF_reading(part = "readback" /\ (Readback!MapSucceeds(t) \/ Readback!MapFails(t)))

(* What is lent is counted: every byte of a buffer is in one range and an id
   that is held is live, the scheduler keeps to its budget and its tokens wait
   for the pieces that are left, and contexts come back from every frame but
   those given up half-way. *)
ResourcesAccounted ==
    CASE part = "pool" -> TypeOK /\ Partitioned /\ HeldIsLive
      [] part = "upload" -> Upload!TypeOK /\ Upload!WithinBudget /\ Upload!TokenCountsPieces
      [] part = "frame" -> Frame!TypeOK /\ Frame!ContextsReturned
      [] part = "readback" -> Readback!TypeOK

(* Neither a range of a buffer nor a frame context is used anew while the GPU
   may still use it, but for the context of a frame that was cancelled. *)
NothingReusedInFlight == [](part = "pool" => NoReuseInFlight) /\ Frame!NoReuseInFlight

(* What may be drawn has landed, and only what the GPU has copied is read. *)
LandedBeforeShown == /\ part = "upload" => Upload!ResidentHasLanded
                     /\ part = "readback" => Readback!ReadyIsCopied

(* A texture goes from one generation to the newest and never back, a lost
   readback stays lost, and one that was released does not come back. *)
NothingGoesBack == /\ Upload!ShownIsNewest
                   /\ Readback!LostStaysLost
                   /\ [](part = "readback" => Readback!ReleasedIsOver)

(* Whatever waits for the GPU gets what it waits for: what was given back is
   free again, a mesh is resident unless the device or the budget failed it,
   frames go on, and a readback is answered: one of them, since tickets are
   alike. *)
WaitsEnd ==
    LET t == CHOOSE any \in Tickets : TRUE
    IN  []<>CASE part = "pool" -> \A id \in given : ~Contains(id)
              [] part = "upload" ->
                     deviceLost \/ \A m \in Meshes : mesh[m].state \in {"resident", "failed"}
              [] part = "frame" ->
                     at \in {"record", "drain", "down", "refused"} \/ recovery = "Failed" \/ gone
              [] part = "readback" -> t \notin Readback!In({"Submitted", "Mapping"})
=============================================================================
