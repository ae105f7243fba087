--------------------------- MODULE MCIpsecReplay ---------------------------
(***************************************************************************)
(* One association that carries two flows, to a gateway with two workers.  *)
(***************************************************************************)
EXTENDS IpsecReplay

CONSTANTS f1, f2, c1, c2

\* RSS on the outer addresses (transport mode): one association, one worker.
RssOuter == [f \in Flows |-> c1]

\* RSS on the inner addresses (tunnel mode): the flows inside one tunnel are
\* spread over the workers.
RssInner == [f \in Flows |-> IF f = f1 THEN c1 ELSE c2]
=============================================================================
