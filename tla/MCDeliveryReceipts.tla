------------------------ MODULE MCDeliveryReceipts ------------------------
(* Instances of DeliveryReceipts: receipts of two messages that come in    *)
(* either order and share deliveries, and an echo that comes twice.        *)
EXTENDS DeliveryReceipts, TLC

CONSTANTS r, c, t, e, d1, d2

KindsOf == (r :> "reply") @@ (c :> "recipient") @@ (t :> "test") @@ (e :> "echo")
OneReply == (r :> "reply")

Item_(m, s) == [of |-> m, status |-> s]
Two(first, second) == (d1 :> first) @@ (d2 :> second)

Various == {Two(<<Item_(r, "read"), Item_(t, "failed")>>, <<Item_(t, "delivered"), Item_(r, "delivered")>>),
            Two(<<Item_(c, "failed"), Item_(r, "read")>>, <<Item_(c, "read")>>),
            Two(<<Item_(e, "echo")>>, <<Item_(e, "read")>>)}
Ladder  == {Two(<<Item_(r, "sent")>>, <<Item_(r, "delivered")>>)}
===========================================================================
