--------------------------- MODULE MCSingletonGlobal ---------------------------
(***************************************************************************)
(* Small instances of SingletonGlobal for TLC.  Where every process has    *)
(* one thread the two go by the same model value, and the processes are    *)
(* interchangeable.                                                        *)
(***************************************************************************)
EXTENDS SingletonKept, TLC

CONSTANTS p1, p2, p3, t1, t2, t3

OneEach   == [p \in Processes |-> p]
TwoAndOne == t1 :> p1 @@ t2 :> p1 @@ t3 :> p2
TwoInOne  == t1 :> p1 @@ t2 :> p1

Symmetry == Permutations(Processes)
=============================================================================
