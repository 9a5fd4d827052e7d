---------------------------- MODULE UploadScheduler ----------------------------
(***************************************************************************)
(* Uploads to the GPU: UploadScheduler with its budgets and batches,        *)
(* UploadPublicationToken, and the clients that share the one scheduler of  *)
(* the runtime in the order of a frame: TextureLibrary::Pump, which keeps   *)
(* the works it waits for; MeshLibrary::Pump, which waits for a token; the  *)
(* frame itself and its draws, which submit whatever is queued.             *)
(* modules/gfx/src/upload.cpp, texture_library.cpp, mesh_library.cpp,       *)
(* runtime/frame.cpp.                                                       *)
(***************************************************************************)
EXTENDS Integers, Sequences, FiniteSets

Seqs == INSTANCE SequencesExt
Sets == INSTANCE FiniteSetsExt

CONSTANTS
    Meshes, Textures,
    MeshPieces,       \* the sizes of the uploads of one level of detail
    TexturePieces,    \* the sizes of the uploads of one generation of a texture
    Lods,             \* levels of detail of a mesh, uploaded coarse first
    QueuedBytes, QueuedRequests,   \* UploadBudget: queued and in flight together
    BatchBytes, BatchRequests,     \* UploadBudget: one submission
    MaxGenerations,   \* bound: generations of a texture's asset
    MaxWork           \* bound: uploads made in a run

VARIABLES
    queued,      \* queued_: requests in the order of their works
    inFlight,    \* in_flight_: batches [ticket, requests]
    nextWork,    \* next_work_
    queuedBytes, inFlightBytes,
    deviceLost,  \* device_lost_
    submitted, completed,   \* the last ticket the queue issued and reached
    phase, todo, \* where the frame is, and the clients it has still to pump
    mesh,        \* MeshLibrary: state, levels uploaded or uploading, token
    texture,     \* TextureLibrary: resident and candidate generation, works
    newest       \* the generation of each texture's asset

vars == <<queued, inFlight, nextWork, queuedBytes, inFlightBytes, deviceLost,
          submitted, completed, phase, todo, mesh, texture, newest>>
scheduler == <<queued, inFlight, nextWork, queuedBytes, inFlightBytes>>

None == 0
NoToken == [remaining |-> 0, outcome |-> "none"]
NoCandidate == [generation |-> None, works |-> {}]
Bytes(requests) == Seqs!FoldLeft(LAMBDA sum, r : sum + r.size, 0, requests)
InFlightRequests == Seqs!FoldLeft(LAMBDA sum, b : sum + Len(b.requests), 0, inFlight)

Init ==
    /\ queued = << >> /\ inFlight = << >>
    /\ nextWork = 1
    /\ queuedBytes = 0 /\ inFlightBytes = 0
    /\ deviceLost = FALSE
    /\ submitted = 0 /\ completed = 0
    /\ phase = "collect" /\ todo = {}
    /\ mesh = [m \in Meshes |-> [state |-> "cpu", levels |-> 0, token |-> NoToken]]
    /\ texture = [t \in Textures |->
                    [resident |-> NoCandidate, candidate |-> NoCandidate,
                     waiting |-> {}, submission |-> 0]]
    /\ newest = [t \in Textures |-> 1]

------------------------------------------------------------------------------
(* UploadScheduler *)

(* Variants of definitions below, each with one plausible mistake. *)
FitsQueueOnly(sizes) ==
    /\ Len(queued) + Len(sizes) <= QueuedRequests
    /\ queuedBytes + Bytes([i \in DOMAIN sizes |-> [size |-> sizes[i]]]) <= QueuedBytes

Fits(sizes) ==
    /\ Len(queued) + InFlightRequests + Len(sizes) <= QueuedRequests
    /\ queuedBytes + inFlightBytes
         + Bytes([i \in DOMAIN sizes |-> [size |-> sizes[i]]]) <= QueuedBytes

(* Enqueue of each size in turn for one owner (EnqueueBatch: of all at once). *)
Enqueue(sizes, owner) ==
    /\ queued' = queued \o [i \in DOMAIN sizes |->
                    [work |-> nextWork + i - 1, size |-> sizes[i], owner |-> owner]]
    /\ queuedBytes' = queuedBytes + Bytes([i \in DOMAIN sizes |-> [size |-> sizes[i]]])
    /\ nextWork' = nextWork + Len(sizes)
    /\ UNCHANGED <<inFlight, inFlightBytes>>

WorksOf(sizes) == nextWork .. nextWork + Len(sizes) - 1

(* What Enqueue accepts before the budget stops it. *)
Accepted(sizes) ==
    LET prefixes == {n \in 0 .. Len(sizes) : n = 0 \/ Fits(SubSeq(sizes, 1, n))}
    IN  SubSeq(sizes, 1, Sets!Max(prefixes))

(* How many requests from the head of the queue one batch takes. *)
BatchLength(requests) ==
    Sets!Max({n \in 0 .. Len(requests) :
        /\ n <= BatchRequests
        /\ n > 1 => Bytes(SubSeq(requests, 1, n)) <= BatchBytes})

(* PrepareAndSubmit: an error before the submission leaves the queue alone. *)
Submit ==
    LET count == BatchLength(queued)
        requests == SubSeq(queued, 1, count)
    IN  IF count = 0 THEN UNCHANGED <<scheduler, submitted>>
        ELSE /\ queued' = SubSeq(queued, count + 1, Len(queued))
             /\ submitted' = submitted + 1
             /\ inFlight' = Append(inFlight, [ticket |-> submitted', requests |-> requests])
             /\ queuedBytes' = queuedBytes - Bytes(requests)
             /\ inFlightBytes' = inFlightBytes + Bytes(requests)
             /\ UNCHANGED nextWork

(* The tickets PrepareAndSubmit returns, as the works they are for. *)
Landing ==
    LET count == BatchLength(queued)
    IN  {queued[i].work : i \in 1 .. count}

Reached(batch) == batch.ticket <= completed

(* UploadPublicationToken::Complete, for each request of the mesh that landed. *)
Completed(token, landed) ==
    LET remaining == token.remaining - landed
    IN  IF token.outcome # "pending" \/ landed = 0 THEN token
        ELSE [remaining |-> remaining,
              outcome |-> IF remaining = 0 THEN "resident" ELSE "pending"]

PublishCompleted ==
    LET done == SelectSeq(inFlight, Reached)
        requests == Seqs!FoldLeft(LAMBDA all, b : all \o b.requests, << >>, done)
        landed(m) == Len(SelectSeq(requests, LAMBDA r : r.owner = m))
    IN  /\ mesh' = [m \in Meshes |-> [mesh[m] EXCEPT !.token = Completed(@, landed(m))]]
        /\ inFlight' = SelectSeq(inFlight, LAMBDA b : ~Reached(b))
        /\ inFlightBytes' = inFlightBytes - Bytes(requests)
        /\ UNCHANGED <<queued, nextWork, queuedBytes>>

------------------------------------------------------------------------------
(* The frame: RenderRuntime::Impl::Frame *)

Collect ==
    /\ phase = "collect" /\ ~deviceLost
    /\ PublishCompleted
    /\ phase' = "textures" /\ todo' = Textures
    /\ UNCHANGED <<deviceLost, submitted, completed, texture, newest>>

(* TextureLibrary::Pump takes a loaded generation newer than the one it has:  *)
(* one upload per piece; the candidate is given up when one is refused, the   *)
(* uploads before it stay queued.                                             *)
AcceptTexture(t) ==
    /\ phase = "textures" /\ t \in todo
    /\ todo' = todo \ {t}
    /\ \/ /\ texture[t].candidate = NoCandidate
          /\ newest[t] > texture[t].resident.generation
          /\ nextWork + Len(TexturePieces) <= MaxWork
          /\ LET accepted == Accepted(TexturePieces)
                 works == WorksOf(accepted)
             IN  /\ Enqueue(accepted, t)
                 /\ texture' = [texture EXCEPT
                        ![t].candidate = IF accepted = TexturePieces
                                         THEN [generation |-> newest[t], works |-> works]
                                         ELSE NoCandidate,
                        ![t].waiting = works]
       \/ UNCHANGED <<scheduler, texture>>
    /\ UNCHANGED <<deviceLost, submitted, completed, phase, mesh, newest>>

(* Then it submits and ticks off the works whose tickets it was given. *)
SubmitTextures ==
    /\ phase = "textures" /\ todo = {}
    /\ Submit
    /\ texture' = [t \in Textures |->
                    [texture[t] EXCEPT
                        !.waiting = @ \ Landing,
                        !.submission = IF texture[t].waiting \cap Landing # {}
                                       THEN submitted' ELSE @]]
    /\ phase' = "promote"
    /\ UNCHANGED <<deviceLost, completed, todo, mesh, newest>>

(* Variants of definitions below, each with one plausible mistake. *)
ForgetsTickets(t) ==
    /\ texture[t].candidate # NoCandidate
    /\ texture[t].submission <= completed
AnyGeneration(t) == TRUE

Landed(t) ==
    /\ texture[t].candidate # NoCandidate
    /\ texture[t].waiting = {}
    /\ texture[t].submission <= completed

IsNewest(t) == texture[t].candidate.generation = newest[t]

(* A candidate that landed replaces the resident texture, or is dropped when  *)
(* the asset has moved on.                                                    *)
PromoteTextures ==
    /\ phase = "promote"
    /\ PublishCompleted
    /\ texture' = [t \in Textures |->
                    IF ~Landed(t) THEN texture[t]
                    ELSE [texture[t] EXCEPT
                            !.candidate = NoCandidate,
                            !.resident = IF IsNewest(t) THEN texture[t].candidate ELSE @]]
    /\ phase' = "meshes" /\ todo' = Meshes
    /\ UNCHANGED <<deviceLost, submitted, completed, newest>>

(* Variants of definitions below, each with one plausible mistake. *)
OnePiece(m) == [remaining |-> 1, outcome |-> "pending"]

NewToken(m) == [remaining |-> Len(MeshPieces), outcome |-> "pending"]

(* MeshLibrary::Pump: the next level's uploads all at once, with one token.   *)
UploadMesh(m) ==
    /\ phase = "meshes" /\ m \in todo
    /\ mesh[m].state = "cpu"
    /\ IF Fits(MeshPieces)
       THEN /\ Enqueue(MeshPieces, m)
            /\ mesh' = [mesh EXCEPT ![m] = [state |-> "uploading", levels |-> @.levels + 1,
                                            token |-> NewToken(m)]]
       ELSE /\ mesh' = [mesh EXCEPT ![m].state = "failed"]
            /\ UNCHANGED scheduler
    /\ todo' = todo \ {m}
    /\ UNCHANGED <<deviceLost, submitted, completed, phase, texture, newest>>

AwaitMesh(m) ==
    /\ phase = "meshes" /\ m \in todo
    /\ mesh[m].state # "cpu"
    /\ mesh' = [mesh EXCEPT ![m].state =
                    IF @ # "uploading" \/ mesh[m].token.outcome # "resident" THEN @
                    ELSE IF mesh[m].levels < Lods THEN "cpu" ELSE "resident"]
    /\ todo' = todo \ {m}
    /\ UNCHANGED <<scheduler, deviceLost, submitted, completed, phase, texture, newest>>

EndMeshes ==
    /\ phase = "meshes" /\ todo = {}
    /\ phase' = "submit"
    /\ UNCHANGED <<scheduler, deviceLost, submitted, completed, todo, mesh, texture, newest>>

(* The frame submits what is queued; it has no use for the tickets' works. *)
SubmitFrame ==
    /\ phase = "submit"
    /\ Submit
    /\ phase' = "draw"
    /\ UNCHANGED <<deviceLost, completed, todo, mesh, texture, newest>>

(* A draw (bindings, canvas) queues what it needs, if the budget lets it. *)
Draw ==
    /\ phase = "draw"
    /\ \/ UNCHANGED scheduler
       \/ nextWork < MaxWork /\ Fits(<<1>>) /\ Enqueue(<<1>>, None)
    /\ phase' = "flush"
    /\ UNCHANGED <<deviceLost, submitted, completed, todo, mesh, texture, newest>>

SubmitDraws ==
    /\ phase = "flush"
    /\ Submit
    /\ phase' = "collect"
    /\ UNCHANGED <<deviceLost, completed, todo, mesh, texture, newest>>

(* PrepareAndSubmit fails: the texture library gives the frame up, the frame  *)
(* itself reports the error and goes on.                                      *)
SubmitFails ==
    /\ queued # << >>
    /\ \/ phase = "textures" /\ todo = {} /\ phase' = "collect"
       \/ phase = "submit" /\ phase' = "draw"
       \/ phase = "flush" /\ phase' = "collect"
    /\ UNCHANGED <<scheduler, deviceLost, submitted, completed, todo, mesh, texture, newest>>

(* Tokens of all requests, queued or in flight, are told; the texture library *)
(* drops what it has.                                                         *)
MarkDeviceLost ==
    /\ phase = "collect" /\ ~deviceLost
    /\ deviceLost' = TRUE
    /\ mesh' = [m \in Meshes |-> [mesh[m] EXCEPT !.token.outcome =
                                    IF @ = "pending" THEN "lost" ELSE @]]
    /\ texture' = [t \in Textures |-> [texture[t] EXCEPT !.resident = NoCandidate,
                                                !.candidate = NoCandidate, !.waiting = {}]]
    /\ UNCHANGED <<scheduler, submitted, completed, phase, todo, newest>>

------------------------------------------------------------------------------
Complete ==
    /\ completed < submitted
    /\ completed' = completed + 1
    /\ UNCHANGED <<scheduler, deviceLost, submitted, phase, todo, mesh, texture, newest>>

Reload(t) ==
    /\ newest[t] < MaxGenerations
    /\ newest' = [newest EXCEPT ![t] = @ + 1]
    /\ UNCHANGED <<scheduler, deviceLost, submitted, completed, phase, todo, mesh, texture>>

FrameStep ==
    \/ Collect
    \/ \E t \in Textures : AcceptTexture(t)
    \/ PromoteTextures
    \/ \E m \in Meshes : UploadMesh(m) \/ AwaitMesh(m)
    \/ EndMeshes
    \/ Draw

SubmitStep == SubmitTextures \/ SubmitFrame \/ SubmitDraws

Next ==
    \/ FrameStep
    \/ SubmitStep
    \/ SubmitFails
    \/ MarkDeviceLost
    \/ Complete
    \/ \E t \in Textures : Reload(t)

(* Frames go on, a device that is not lost accepts a submission in the end,   *)
(* and the GPU finishes what it was given.                                    *)
Fairness ==
    /\ WF_vars(FrameStep) /\ SF_vars(SubmitTextures) /\ WF_vars(SubmitFrame)
    /\ WF_vars(SubmitDraws) /\ WF_vars(Complete)

Spec == Init /\ [][Next]_vars
FairSpec == Spec /\ Fairness

------------------------------------------------------------------------------
Works(requests) == {requests[i].work : i \in DOMAIN requests}
NotLanded == Works(queued)
    \cup UNION {Works(inFlight[i].requests) :
                    i \in {j \in DOMAIN inFlight : inFlight[j].ticket > completed}}
Pending(m) == {r \in Seqs!ToSet(queued) \cup
                  UNION {Seqs!ToSet(inFlight[i].requests) : i \in DOMAIN inFlight} : r.owner = m}

TypeOK ==
    /\ nextWork \in 1 .. MaxWork + Cardinality(Meshes) * Lods * Len(MeshPieces)
    /\ completed \in 0 .. submitted
    /\ \A m \in Meshes : mesh[m].token.remaining \in 0 .. Len(MeshPieces)
    /\ \A m \in Meshes : mesh[m].levels \in 0 .. Lods
    /\ \A t \in Textures : texture[t].candidate.generation \in 0 .. newest[t]

(* The bytes the scheduler counts are those it holds, and what it holds,      *)
(* queued and in flight together, is within its budget, however many clients  *)
(* fill it and however far behind the GPU is.                                 *)
WithinBudget ==
    /\ queuedBytes = Bytes(queued)
    /\ inFlightBytes = Seqs!FoldLeft(LAMBDA sum, b : sum + Bytes(b.requests), 0, inFlight)
    /\ queuedBytes + inFlightBytes <= QueuedBytes
    /\ Len(queued) + InFlightRequests <= QueuedRequests

(* A texture that can be drawn, and a mesh's level once its token says so,    *)
(* have landed on the GPU piece for piece.                                    *)
ResidentHasLanded ==
    /\ \A t \in Textures : texture[t].resident.works \cap NotLanded = {}
    /\ \A m \in Meshes : mesh[m].token.outcome = "resident" => Pending(m) = {}

(* A token waits for exactly the pieces the scheduler still has: none is      *)
(* counted twice, none is lost between the queue and the GPU.                 *)
TokenCountsPieces ==
    \A m \in Meshes : mesh[m].token.outcome = "pending" =>
        mesh[m].token.remaining = Cardinality(Pending(m))

(* The generation a texture shows never goes back, and never to one the asset *)
(* had already left when it was shown.                                        *)
ShownIsNewest ==
    [][\A t \in Textures :
        texture'[t].resident.generation \in
            {texture[t].resident.generation, newest[t], None}]_vars
================================================================================
