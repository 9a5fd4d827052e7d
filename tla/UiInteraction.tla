---------------------------- MODULE UiInteraction ----------------------------
(***************************************************************************)
(* The UI runtime's interaction state over a tree that is rebuilt under it: *)
(* which element each pointer has captured, which are pressed, which has    *)
(* the focus.  modules/ui/src/runtime.cpp, router.cpp, tree.cpp.            *)
(*                                                                          *)
(* The tree is a root whose children are declared by SetContent, one of     *)
(* them the host of a component whose children its Build declares.  Every   *)
(* child is keyed, of one kind, and tab_index follows the number of its     *)
(* key.  An element is a number; one that is removed is never used again.   *)
(* A pointer to a removed element dangles: its key reads as any key, what   *)
(* is written to it is lost, and the properties stop speaking of the rest   *)
(* of such a behaviour.                                                     *)
(***************************************************************************)
EXTENDS Integers, FiniteSets

CONSTANTS
    Content,      \* keys SetContent may declare
    Built,        \* keys the component may declare
    Focusable,    \* keys whose semantics are focusable
    Pointers,
    MaxElements   \* bound: elements created

Keys == Content \cup Built
KeysAssumption == Keys \subseteq Nat /\ Content \cap Built = {} /\ Focusable \subseteq Keys

VARIABLES
    elements,     \* the retained children: key -> element
    lastElement,
    declared,     \* what the component's Build declares now
    revisions,    \* Revision() differs from component_revision_
    captured,     \* captured_: pointer -> element
    pressed,      \* elements that are pressed
    focused,      \* focused_: an element or 0
    dangled       \* an element was freed that captured_ or focused_ points to

interaction == <<captured, pressed, focused>>
vars == <<elements, lastElement, declared, revisions, interaction, dangled>>

Live == {elements[k] : k \in DOMAIN elements}
NoElement == 0
KeyOf(e) == CHOOSE k \in DOMAIN elements : elements[k] = e

\* The root is set, with no children yet.
Init ==
    /\ elements = << >> /\ lastElement = 0
    /\ declared = {} /\ revisions = FALSE
    /\ captured = << >> /\ pressed = {} /\ focused = NoElement /\ dangled = FALSE

------------------------------------------------------------------------------
(* Element::Update: children are matched by key; the others are made or freed  *)

Fresh(keys) == keys \ DOMAIN elements
Numbered(k, keys) == lastElement + Cardinality({l \in Fresh(keys) : l <= k})

Update(keys) ==
    /\ lastElement + Cardinality(Fresh(keys)) <= MaxElements
    /\ lastElement' = lastElement + Cardinality(Fresh(keys))
    /\ elements' = [k \in keys |-> IF k \in DOMAIN elements THEN elements[k] ELSE Numbered(k, keys)]

(* Invalidate: from a handler, or from anywhere.                               *)
Invalidate(keys) ==
    /\ declared' = keys /\ revisions' = TRUE
    /\ UNCHANGED <<elements, lastElement, interaction, dangled>>

(* The keys the element that has the focus may read as.                        *)
FocusKeys == IF focused \in Live THEN {KeyOf(focused)} ELSE Keys \cup {NoElement}

(* Variants of definitions below, each with one plausible mistake.             *)
RefocusedAnyhow(key) == focused
RefocusedNever(key) == NoElement

(* Find: the element of the new tree that has the key.                         *)
Refocused(key) == IF key \in DOMAIN elements' THEN elements'[key] ELSE NoElement

(* SetContent builds the component too; the focus is found again by its key.   *)
SetContent(keys) ==
    /\ Update(keys \cup declared)
    /\ revisions' = FALSE
    /\ captured' = << >> /\ pressed' = {}
    /\ IF focused = NoElement THEN focused' = NoElement
       ELSE \E key \in FocusKeys : focused' = Refocused(key)
    /\ UNCHANGED <<declared, dangled>>

(* Prepare: Refresh rebuilds the component if its revision is another.         *)
Prepare ==
    /\ revisions
    /\ Update((DOMAIN elements \ Built) \cup declared)
    /\ revisions' = FALSE
    /\ dangled' = (dangled \/ \E k \in DOMAIN elements \ DOMAIN elements' :
          elements[k] = focused \/ \E p \in DOMAIN captured : captured[p] = elements[k])
    /\ UNCHANGED <<declared, interaction>>

------------------------------------------------------------------------------
(* HandleEvent *)

Without(p) == [q \in DOMAIN captured \ {p} |-> captured[q]]
Holds(e, among) == \E q \in DOMAIN among : among[q] = e

(* Variants of definitions below, each with one plausible mistake.             *)
ReleasedAlways(p) == IF p \in DOMAIN captured THEN pressed \ {captured[p]} ELSE pressed

(* Release: the element stays pressed while another pointer captures it.       *)
ReleasedBy(p) ==
    IF p \notin DOMAIN captured \/ Holds(captured[p], Without(p)) THEN pressed
    ELSE pressed \ {captured[p]}

Down(p, k) ==
    /\ k \in DOMAIN elements
    /\ captured' = [q \in DOMAIN captured \cup {p} |-> IF q = p THEN elements[k] ELSE captured[q]]
    /\ pressed' = ReleasedBy(p) \cup {elements[k]}
    /\ focused' = IF k \in Focusable THEN elements[k] ELSE focused
    /\ UNCHANGED <<elements, lastElement, declared, revisions, dangled>>

(* Up, Cancel, or a Down that hits nothing.                                    *)
Release(p) ==
    /\ p \in DOMAIN captured
    /\ captured' = Without(p)
    /\ pressed' = ReleasedBy(p)
    /\ UNCHANGED <<elements, lastElement, declared, revisions, focused, dangled>>

CancelCapture ==
    /\ captured # << >>
    /\ captured' = << >>
    /\ pressed' = {e \in pressed : ~Holds(e, captured)}
    /\ UNCHANGED <<elements, lastElement, declared, revisions, focused, dangled>>

Stops == DOMAIN elements \cap Focusable
After(k) == {l \in Stops : l > k}
Before(k) == {l \in Stops : l < k}
First(keys) == CHOOSE k \in keys : \A l \in keys : k <= l
Last(keys) == CHOOSE k \in keys : \A l \in keys : k >= l

(* FocusNext: a focus that is not among the nodes begins again.                *)
Ahead(reverse) ==
    IF focused \notin {elements[k] : k \in Stops} THEN {}
    ELSE IF reverse THEN Before(KeyOf(focused)) ELSE After(KeyOf(focused))

FocusNext(reverse) ==
    /\ LET among == IF Ahead(reverse) # {} THEN Ahead(reverse) ELSE Stops
       IN  focused' = IF Stops = {} THEN NoElement
                      ELSE elements[IF reverse THEN Last(among) ELSE First(among)]
    /\ UNCHANGED <<elements, lastElement, declared, revisions, captured, pressed, dangled>>

Next ==
    \/ \E keys \in SUBSET Content : SetContent(keys)
    \/ \E keys \in SUBSET Built : Invalidate(keys)
    \/ Prepare
    \/ \E p \in Pointers : Release(p) \/ \E k \in Keys : Down(p, k)
    \/ CancelCapture
    \/ \E reverse \in BOOLEAN : FocusNext(reverse)

Spec == Init /\ [][Next]_vars

------------------------------------------------------------------------------
(* Unless an element was freed under the runtime: what it points to is part of *)
(* the tree, an element is pressed exactly while a pointer captures it, and    *)
(* the focus is on one that takes it.                                          *)
PressedWhileCaptured ==
    ~dangled =>
        /\ \A p \in DOMAIN captured : captured[p] \in Live
        /\ \A e \in Live : e \in pressed <=> Holds(e, captured)
        /\ focused # NoElement => focused \in Live /\ KeyOf(focused) \in Focusable

(* A tree that is rebuilt keeps the focus of an element that stays, by its key *)
(* and by its identity.                                                        *)
FocusStays ==
    [][elements' # elements /\ focused \in Live =>
          IF KeyOf(focused) \in DOMAIN elements' THEN focused' = elements'[KeyOf(focused)]
          ELSE focused' = NoElement \/ dangled']_vars
================================================================================
