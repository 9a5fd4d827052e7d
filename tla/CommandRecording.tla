--------------------------- MODULE CommandRecording ---------------------------
(***************************************************************************)
(* Command encoders, the buffers they finish into and the queue that runs   *)
(* them: the validation layer's own flags over those of the null device.    *)
(* modules/rhi/backend/validation/validation_backend.cpp and                *)
(* modules/rhi/backend/null/null_backend.cpp.                               *)
(*                                                                          *)
(* Three commands stand for the encoder's operations by what they check:    *)
(* "clear" asks both layers, "copy" only the null device, and looks at its  *)
(* texture when it runs; "write" asks neither.  All of it runs on the       *)
(* owner's thread; submissions are completed by Tick, as they are when the   *)
(* null device is not asked to complete them at once.                       *)
(***************************************************************************)
EXTENDS Integers, Sequences, FiniteSets, Functions

CONSTANTS
    Encoders,
    MaxCommands,   \* bound: commands recorded by an encoder
    MaxSubmits     \* bound: calls of Submit

VARIABLES
    closed,        \* the validation layer's finished_, per encoder
    finished,      \* the null device's finished, per encoder
    passActive,    \* pass_active, per encoder
    commands,      \* what the encoder has recorded and not yet handed over
    recorded,      \* how many commands the encoder has recorded, ever
    buffers,       \* the encoders that have finished into a command buffer -> its commands
    marked, executed,  \* the two submitted_ flags of a command buffer
    destroyed,     \* the texture of the copies is destroyed
    ran,           \* every command that ran, in order
    submitted, completed, lost, calls,
    tickets        \* ticket -> the command buffers it was given for

encoding == <<closed, finished, passActive, commands, recorded, buffers>>
queue == <<marked, executed, ran, submitted, completed, calls, tickets>>
vars == <<encoding, queue, destroyed, lost>>

Init ==
    /\ closed = {} /\ finished = {} /\ passActive = {}
    /\ commands = [e \in Encoders |-> << >>] /\ recorded = [e \in Encoders |-> 0]
    /\ buffers = << >>
    /\ marked = {} /\ executed = {} /\ destroyed = FALSE
    /\ ran = << >> /\ submitted = 0 /\ completed = 0 /\ lost = FALSE /\ calls = 0
    /\ tickets = << >>

------------------------------------------------------------------------------
(* Encoders *)

Open(e) == e \notin closed
Ready(e) == e \notin finished /\ e \notin passActive

Checked(e, kind) ==
    CASE kind = "clear" -> Open(e) /\ Ready(e)
      [] kind = "copy" -> Ready(e)
      [] kind = "write" -> TRUE

(* A refused call changes nothing.                                             *)
Record(e, kind) ==
    /\ recorded[e] < MaxCommands
    /\ Checked(e, kind)
    /\ recorded' = [recorded EXCEPT ![e] = @ + 1]
    /\ commands' = [commands EXCEPT ![e] =
           Append(@, [encoder |-> e, number |-> recorded[e] + 1, kind |-> kind])]
    /\ UNCHANGED <<closed, finished, passActive, buffers, queue, destroyed, lost>>

BeginPass(e) ==
    /\ Open(e) /\ Ready(e)
    /\ passActive' = passActive \cup {e}
    /\ UNCHANGED <<closed, finished, commands, recorded, buffers, queue, destroyed, lost>>

(* End, or a pass destroyed before it: the null device's pass ends itself.     *)
EndPass(e) ==
    /\ e \in passActive
    /\ passActive' = passActive \ {e}
    /\ UNCHANGED <<closed, finished, commands, recorded, buffers, queue, destroyed, lost>>

(* The validation layer closes the encoder before the device may refuse.       *)
Finish(e) ==
    /\ Open(e)
    /\ closed' = closed \cup {e}
    /\ IF Ready(e)
       THEN /\ finished' = finished \cup {e}
            /\ buffers' = [b \in DOMAIN buffers \cup {e} |-> IF b = e THEN commands[e] ELSE buffers[b]]
            /\ commands' = [commands EXCEPT ![e] = << >>]
       ELSE UNCHANGED <<finished, buffers, commands>>
    /\ UNCHANGED <<passActive, recorded, queue, destroyed, lost>>

------------------------------------------------------------------------------
(* The queue *)

\* Variants of definitions below, each with one plausible mistake.
MarkableAll(list) == Len(list)
RunOfRest(list) == SelectSeq(list, LAMBDA c : ~(c.kind = "copy" /\ destroyed))

(* How many of the list are marked before one that already was.                *)
Markable(list) ==
    LET fresh(n) == \A i \in 1 .. n : /\ list[i] \notin marked
                                      /\ \A j \in 1 .. i - 1 : list[j] # list[i]
    IN  CHOOSE n \in 0 .. Len(list) : fresh(n) /\ (n < Len(list) => ~fresh(n + 1))

Fails(command) == command.kind = "copy" /\ destroyed

(* What runs of a buffer's commands: all up to the one that fails.             *)
RunOf(list) ==
    LET fails == {i \in DOMAIN list : Fails(list[i])} IN
    IF fails = {} THEN list ELSE SubSeq(list, 1, (CHOOSE i \in fails : \A j \in fails : i <= j) - 1)
Clean(list) == RunOf(list) = list

(* The buffers the device executes of a list, the last of them perhaps in part. *)
Executed(list) ==
    LET bad == {i \in DOMAIN list : ~Clean(buffers[list[i]])} IN
    IF bad = {} THEN list ELSE SubSeq(list, 1, CHOOSE i \in bad : \A j \in bad : i <= j)

(* Everything that ran, once these buffers have run one after another too.     *)
RanWith(runs) ==
    LET upTo[n \in 0 .. Len(runs)] == IF n = 0 THEN ran ELSE upTo[n - 1] \o RunOf(buffers[runs[n]])
    IN  upTo[Len(runs)]

Submit(list) ==
    /\ calls < MaxSubmits /\ calls' = calls + 1
    /\ marked' = marked \cup {list[i] : i \in 1 .. Markable(list)}
    /\ IF Markable(list) < Len(list) \/ lost
       THEN UNCHANGED <<executed, ran, submitted, completed, tickets>>
       ELSE LET runs == Executed(list) IN
            /\ executed' = executed \cup Range(runs)
            /\ ran' = RanWith(runs)
            /\ IF \A i \in DOMAIN list : Clean(buffers[list[i]])
               THEN /\ submitted' = submitted + 1
                    /\ tickets' = Append(tickets, list)
               ELSE UNCHANGED <<submitted, tickets>>
            /\ UNCHANGED completed
    /\ UNCHANGED <<encoding, destroyed, lost>>

Tick ==
    /\ completed # submitted
    /\ completed' = submitted
    /\ UNCHANGED <<encoding, marked, executed, ran, submitted, calls, tickets, destroyed, lost>>

DestroyTexture ==
    /\ ~destroyed /\ destroyed' = TRUE
    /\ UNCHANGED <<encoding, queue, lost>>

Lose ==
    /\ ~lost /\ lost' = TRUE
    /\ UNCHANGED <<encoding, queue, destroyed>>

Lists == {<<a>> : a \in DOMAIN buffers} \cup {<<a, b>> : a, b \in DOMAIN buffers}

Next ==
    \/ \E e \in Encoders :
          \/ \E kind \in {"clear", "copy", "write"} : Record(e, kind)
          \/ BeginPass(e) \/ EndPass(e) \/ Finish(e)
    \/ \E list \in Lists : Submit(list)
    \/ Tick \/ DestroyTexture \/ Lose

Spec == Init /\ [][Next]_vars

------------------------------------------------------------------------------
(* No command runs twice, nor before the one its encoder recorded before it,   *)
(* whatever fails; a ticket stands for every command of its buffers, run       *)
(* before it was given; the watermark names tickets only.                      *)
CommandsRunOnce ==
    /\ \A i \in DOMAIN ran :
          ran[i].number = Cardinality({j \in 1 .. i : ran[j].encoder = ran[i].encoder})
    /\ \A t \in DOMAIN tickets : \A b \in Range(tickets[t]) :
          Range(buffers[b]) \subseteq Range(ran)
    /\ completed <= submitted /\ submitted = Len(tickets)

(* A buffer is part of one ticket at most, and of none if its encoder was in a *)
(* pass when it was finished.                                                  *)
BuffersGivenOnce ==
    \A t, u \in DOMAIN tickets :
        Range(tickets[t]) \cap Range(tickets[u]) # {} => t = u
================================================================================
