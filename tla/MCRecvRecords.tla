--------------------------- MODULE MCRecvRecords ---------------------------
(* RecvRecords on small instances. *)
EXTENDS RecvRecords, TLC

CONSTANTS r1, r2

OneReader == {r1}
TwoReaders == {r1, r2}
AllCalls == {"Read", "RecvMsg", "ReadMsg"}
AllKinds == {"PartialDelivery", "Restart", "Lost", "Complete", "Other"}
AllForms == {"whole", "malformed", "tooLong", "cut"}

ReaderSymmetry == Permutations(Readers)
=============================================================================
