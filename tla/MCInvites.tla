------------------------------- MODULE MCInvites -------------------------------
(* Small instances of GroupInvites for TLC: bob may be invited in two spellings. *)
EXTENDS GroupInvites, TLC

CONSTANTS owner, guest

TwoUsers == {owner, guest}
TwoMailboxes == {"ann", "bob", "BOB"}
OneMailbox == {"bob", "BOB"}
MailboxOf == [u \in TwoUsers |-> IF u = owner THEN "ann" ELSE "bob"]
LowerCase == [e \in TwoMailboxes |-> IF e = "BOB" THEN "bob" ELSE e]

SlotSymmetry == Permutations(Slots)
================================================================================
