------------------------------- MODULE MCCore -------------------------------
(* The core language for TLC: books for the kernel (MCKernel), bodies for  *)
(* the match compiler that writes its terms (MCSurface) and native         *)
(* operations on numbers (MCNumbers).  A behaviour checks one book,        *)
(* compiles one body or evaluates one operation.                           *)
EXTENDS MCKernel, MCSurface, MCNumbers

NoBook == title = <<>> /\ at = 0 /\ engine = <<>> /\ verdict = "none"
NoSource == source = <<>> /\ current = <<>> /\ saved = <<>> /\ fresh = 0 /\ outcome = "none"
NoTask == task = <<>> /\ focus = <<>> /\ frames = <<>> /\ seen = 0 /\ ending = "none"

MCInit ==
    \/ Init /\ NoSource /\ NoTask
    \/ SurfaceInit /\ NoBook /\ NoTask
    \/ NumberInit /\ NoBook /\ NoSource
MCNext ==
    \/ verdict # "none" /\ Next /\ UNCHANGED <<bodyVars, numberVars>>
    \/ outcome # "none" /\ SurfaceNext /\ UNCHANGED <<vars, numberVars>>
    \/ ending # "none" /\ NumberNext /\ UNCHANGED <<vars, bodyVars>>
MCSpec == MCInit /\ [][MCNext]_<<vars, bodyVars, numberVars>>
=============================================================================
