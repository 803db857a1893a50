--------------------------- MODULE MCTriggerInbox ---------------------------
(* Constants of the trigger inbox runs. *)
EXTENDS TriggerInbox, TLC

CONSTANTS m1, m2, m3, i1, i2, r1, r2

\* "m1 " is m1 with white space around it, "" is blank.
RawForms == {"m1", "m1 ", "m2", "m3", ""}
Trim == ("m1" :> m1) @@ ("m1 " :> m1) @@ ("m2" :> m2) @@ ("m3" :> m3) @@ ("" :> Invalid)

\* m1 and m2 have the same prefix, and their 32-bit hashes collide.
DerivedInboxId == (m1 :> i1) @@ (m2 :> i1) @@ (m3 :> i2)

DerivedRunId == (i1 :> r1) @@ (i2 :> r2)

HandlerSymmetry == Permutations(Handlers)
=============================================================================
