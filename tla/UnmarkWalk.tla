----------------------------- MODULE UnmarkWalk -----------------------------
(***************************************************************************)
(* How a value loses its marks on the way to the wire.  A value is a graph *)
(* of nodes, shared ones among them, each marked or not; the walk copies it *)
(* bottom-up with a stack of its own, so that no nesting is too deep for   *)
(* Python's, and remembers by identity what it has copied.  The codec      *)
(* refuses a value with any mark left.                                     *)
(*                                                                         *)
(* Source: conversion/marshaler.py, _unmark_deep and marshal.  The value   *)
(* types, which make sure there is no cycle, are external.                 *)
(***************************************************************************)
EXTENDS Naturals, Sequences

CONSTANTS
  Size,  \* bound: nodes of the value; 1 is the root
  Width  \* bound: nodes that one holds

ASSUME SizeAssumption == Size \in Nat \ {0} /\ Width \in Nat

VARIABLES
  walkChildren,   \* what each node holds, in order
  walkMarked,     \* the nodes with marks
  walkStack,      \* stack: nodes to visit, and POST_PROCESS before its node
  walkProcessing, \* processing
  walkDone        \* done: the marked nodes left in each copy, or no copy yet

walkVars == <<walkChildren, walkMarked, walkStack, walkProcessing, walkDone>>

Node == 1..Size
Root == 1
PostProcess == 0
NoCopy == {0}

\* A node holds nodes of a higher number only: values are built bottom-up.
Graphs ==
  {g \in [Node -> UNION {[1..k -> Node] : k \in 0..Width}] :
     \A n \in Node : \A at \in DOMAIN g[n] : g[n][at] > n}

\* The marked nodes in the value under a node.
MarksUnder ==
  LET f[n \in Node] == ({n} \cap walkMarked)
        \cup UNION {f[m] : m \in {walkChildren[n][at] : at \in DOMAIN walkChildren[n]}}
  IN f

WalkInit ==
  /\ walkChildren \in Graphs
  /\ walkMarked \in SUBSET Node
  /\ walkStack = <<Root>>
  /\ walkProcessing = {}
  /\ walkDone = [n \in Node |-> NoCopy]

Top == walkStack[Len(walkStack)]
Below(n) == SubSeq(walkStack, 1, Len(walkStack) - n)

\* _rebuild_unmarked: the copy of a child when there is one, else the child;
\* the node's own marks go.
RebuildUnmarked(n) ==
  UNION {IF walkDone[m] = NoCopy THEN MarksUnder[m] ELSE walkDone[m] :
           m \in {walkChildren[n][at] : at \in DOMAIN walkChildren[n]}}

\* A node met again, shared and copied already.
SkipNode ==
  /\ walkStack # <<>> /\ Top # PostProcess
  /\ walkDone[Top] # NoCopy \/ Top \in walkProcessing
  /\ walkStack' = Below(1)
  /\ UNCHANGED <<walkChildren, walkMarked, walkProcessing, walkDone>>

IsNew == walkStack # <<>> /\ Top # PostProcess /\ walkDone[Top] = NoCopy
           /\ Top \notin walkProcessing

CopyLeaf ==
  /\ IsNew /\ walkChildren[Top] = <<>>
  /\ walkDone' = [walkDone EXCEPT ![Top] = RebuildUnmarked(Top)]
  /\ walkStack' = Below(1)
  /\ UNCHANGED <<walkChildren, walkMarked, walkProcessing>>

PushAfterChildren ==  \* mutant: the node comes up before its children
  /\ IsNew /\ walkChildren[Top] # <<>>
  /\ walkProcessing' = walkProcessing \cup {Top}
  /\ walkStack' = Below(1) \o walkChildren[Top] \o <<Top, PostProcess>>
  /\ UNCHANGED <<walkChildren, walkMarked, walkDone>>

PushChildren ==
  /\ IsNew /\ walkChildren[Top] # <<>>
  /\ walkProcessing' = walkProcessing \cup {Top}
  /\ walkStack' = Below(1) \o <<Top, PostProcess>> \o walkChildren[Top]
  /\ UNCHANGED <<walkChildren, walkMarked, walkDone>>

\* The marker comes up, with its node below it.
CopyContainer ==
  /\ walkStack # <<>> /\ Top = PostProcess
  /\ LET node == walkStack[Len(walkStack) - 1]
     IN /\ walkDone' = [walkDone EXCEPT ![node] = RebuildUnmarked(node)]
        /\ walkProcessing' = walkProcessing \ {node}
  /\ walkStack' = Below(2)
  /\ UNCHANGED <<walkChildren, walkMarked>>

WalkNext == SkipNode \/ CopyLeaf \/ PushChildren \/ CopyContainer

WalkSpec == WalkInit /\ [][WalkNext]_walkVars

-----------------------------------------------------------------------------
\* When the walk is over, there is a copy of the whole value and no mark at
\* any depth of it, whatever its nodes share.
WireIsUnmarked == walkStack = <<>> => walkDone[Root] = {}
=============================================================================
