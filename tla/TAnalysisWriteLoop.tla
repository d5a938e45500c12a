------------------------- MODULE TAnalysisWriteLoop -------------------------
(***************************************************************************)
(* The branches of the analysis tree                                       *)
(* (libraries/TLoops/TAnalysisWriteLoop.cxx): one for each class of        *)
(* detector, added when the first event with such a detector is written.   *)
(* The loop's Iteration is in SortPipeline.                                *)
(*                                                                         *)
(* A detector is the number of the event it belongs to, or Cleared.  The   *)
(* tree is external (ROOT): Fill appends to every branch what its address  *)
(* points to, and GetEntries is the number of its calls.                   *)
(***************************************************************************)
EXTENDS Naturals, Sequences, Functions

CONSTANTS
    Classes,
    EventLists,     \* the classes of an event's detectors, in its order
    WriteBound      \* events written in a behaviour

ASSUME WriteAssumption == EventLists \subseteq Seq(Classes)

VARIABLES
    fDetMap,        \* class -> the object its branch is filled from
    branches,       \* class -> what its branch was filled with
    entries,        \* fEventTree->GetEntries()
    written         \* the events, as they were written

writeVars == <<fDetMap, branches, entries, written>>

Cleared == 0

WriteInit ==
    /\ fDetMap = <<>>
    /\ branches = <<>>
    /\ entries = 0
    /\ written = <<>>

Extended(f, x, y) == [z \in DOMAIN f \cup {x} |-> IF z = x THEN y ELSE f[z]]

\* The part of the loop that WriteEvent works on.
Tree == [objects |-> fDetMap, branches |-> branches]

\* Clear("a") of every object.
ClearAll(tree) ==
    [tree EXCEPT !.objects = [c \in DOMAIN @ |-> Cleared]]

\* Faulty: a new branch begins with the present event.
AddBranchOnly(tree, cls) ==
    IF cls \in DOMAIN tree.objects THEN tree
    ELSE [objects |-> Extended(tree.objects, cls, Cleared),
          branches |-> Extended(tree.branches, cls, <<>>)]

AddBranch(tree, cls) ==
    IF cls \in DOMAIN tree.objects THEN tree
    ELSE [objects |-> Extended(tree.objects, cls, Cleared),
          branches |-> Extended(tree.branches, cls,
                                [i \in 1 .. entries |-> Cleared])]

\* The detector is copied into the object of its class.
Load(tree, cls, event) ==
    [AddBranch(tree, cls) EXCEPT !.objects[cls] = event]

FillTree(tree) ==
    [tree EXCEPT !.branches =
        [c \in DOMAIN @ |-> Append(@[c], tree.objects[c])]]

\* The detectors of an event are loaded one after the other.
Loaded(classes, event) ==
    LET tree[n \in 0 .. Len(classes)] ==
            IF n = 0 THEN ClearAll(Tree) ELSE Load(tree[n - 1], classes[n], event)
    IN  tree[Len(classes)]

WriteEvent(classes) ==
    LET event == entries + 1
        filled == FillTree(Loaded(classes, event))
    IN  /\ entries < WriteBound
        /\ fDetMap' = filled.objects
        /\ branches' = filled.branches
        /\ entries' = event
        /\ written' = Append(written, classes)

WriteNext == \E classes \in EventLists : WriteEvent(classes)

WriteSpec == WriteInit /\ [][WriteNext]_writeVars

\* Entry i of every branch is the detector of event i of that class, and a
\* cleared one where the event has none: no branch is out of step with the
\* others, whenever it was added, and no detector is left over from an
\* earlier event ("the next call to TTree::Fill will fill entry 101 of 'x',
\* but entry 1 of 'y'" is what lines 213-227 are there to prevent).
EntriesInStep ==
    \A c \in Classes :
        IF c \in DOMAIN branches
        THEN branches[c] = [i \in 1 .. entries |->
                               IF c \in Range(written[i]) THEN i ELSE Cleared]
        ELSE \A i \in DOMAIN written : c \notin Range(written[i])
=============================================================================
