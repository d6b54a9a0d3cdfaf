--------------------------- MODULE MCRecordReplay ---------------------------
(* RecordReplay on small instances: the datasets.                          *)
EXTENDS RecordReplay

AllModes == {"auto", "replay", "live"}
AutoReplay == {"auto", "replay"}

TwoInputs == <<"x", "y">>
SameInput == <<"x", "x">>
TwoAnswers == {1, 2}
=============================================================================
