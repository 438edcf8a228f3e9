------------------------- MODULE MCProfilingContext -------------------------
(***************************************************************************)
(* A small instance of ProfilingContext: a root with a child and a        *)
(* grandchild, so that the snapshot is recursive and an exit re-parents a *)
(* running process to init.                                                *)
(***************************************************************************)
EXTENDS ProfilingContext, TLC

CONSTANTS r, a, b

\* a is forked by the root, b by a.
MCParent0 == (r :> RootParent) @@ (a :> r) @@ (b :> a)

=============================================================================
