------------------------ MODULE MCInboundPipeline ------------------------
(* Instances of InboundPipeline: one customer, whose second message comes  *)
(* again in a second webhook; or a single batch.                           *)
EXTENDS InboundPipeline, TLC

CONSTANTS j1, j2, m1, m2, c1

OneCustomer == [m \in {m1, m2} |-> c1]
Overlapping == (j1 :> <<m1, m2>>) @@ (j2 :> <<m2>>)
OneBatch    == (j1 :> <<m1, m2>>)

On(l, k1, k2) == [line |-> l, kind |-> (m1 :> k1) @@ (m2 :> k2)]

Various == {On("shared", "ordinary", "ordinary"), On("shared", "bad", "stop"),
            On("personal", "ordinary", "stop"), On("former", "ordinary", "ordinary")}
Plain        == {On("shared", "ordinary", "ordinary")}
PersonalLine == {On("personal", "ordinary", "ordinary")}
==========================================================================
