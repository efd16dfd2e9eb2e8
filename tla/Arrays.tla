-------------------------------- MODULE Arrays --------------------------------
(***************************************************************************)
(* The containers that are arrays: the deque, the dynamic array and the    *)
(* heap.  They share nothing, so a behaviour uses one of them.  A graph    *)
(* has the first for its stack and the second for its lists of edges, and  *)
(* rests on what they are shown to promise here.                           *)
(***************************************************************************)
EXTENDS Deque, Dynarr, Heap

arrays == <<vars, dynarr, heapvars>>

ArraysInit == Init /\ DynarrInit /\ HeapInit

DequeUnused == pc = "idle" /\ Count = 0 /\ lead = 0 /\ iter = Unset /\ out = None /\ nelem = 1

UseDeque == d = NoArray /\ HeapInit /\ Next /\ UNCHANGED <<dynarr, heapvars>>
UseDynarr == DequeUnused /\ HeapInit /\ DynarrNext /\ UNCHANGED <<vars, heapvars>>
UseHeap == DequeUnused /\ d = NoArray /\ HeapNext /\ UNCHANGED <<vars, dynarr>>

ArraysNext == UseDeque \/ UseDynarr \/ UseHeap

ArraysSpec == ArraysInit /\ [][ArraysNext]_arrays

\* A thread inside a push keeps executing it.
ArraysFairSpec == ArraysSpec /\ WF_arrays(Running /\ UNCHANGED <<dynarr, heapvars>>)

=============================================================================
