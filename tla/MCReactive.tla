----------------------------- MODULE MCReactive -----------------------------
(* An instance of the reactive runtime for TLC: a value derived from two   *)
(* states, another one derived from it, and two effects that write each    *)
(* other's sources: e1 copies x into y, and e2, which follows the second   *)
(* derived value, resets x.  A when block writes y besides.                *)
EXTENDS Reactive, TLC

CONSTANTS x, y, d1, d2, e1, e2, w1

MCState   == {x, y}
MCDerived == {d1, d2}
MCEffect  == {e1, e2}
MCWhen    == {w1}
MCCreated == <<x, y, d1, d2, e1, e2, w1>>
MCReads   == (d1 :> <<x, y>>) @@ (d2 :> <<d1>>) @@ (e1 :> <<x>>)
               @@ (e2 :> <<d2>>) @@ (w1 :> <<x>>)
MCWrites  == (e1 :> y) @@ (e2 :> x) @@ (w1 :> y)
MCResets  == {e2}
MCGone    == {e1}
MCData    == {}

(* A module with a reactive variable and a reactive function, the nodes of *)
(* which module_interface.c:440-469 creates.                               *)
MCVariable       == {x}
MCFunction       == {e1}
MCModuleCreated  == <<x, e1>>
MCFunctionReads  == e1 :> <<>>
MCFunctionWrites == e1 :> Nowhere
===============================================================================
