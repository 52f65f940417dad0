----------------------------- MODULE MCStcbWatch -----------------------------
(***************************************************************************)
(* Instances of StcbWatch for TLC: one stream over openings of its own      *)
(* device and of a device that another instance gave the same id.          *)
(***************************************************************************)
EXTENDS StcbWatchInv

CONSTANTS w1, h1, h2, h3

\* h1 and h2 are two openings of the device of the stream, h3 is not.
MCKeyOf == [h \in Handles |-> [inst |-> IF h = h3 THEN "i2" ELSE "i1", dev |-> 1]]
MCInstOf == [w \in Watches |-> "i1"]

\* The request names the device, or the configuration of the instance does, or
\* the stream takes whatever is open.
MCAskOne    == [w \in Watches |-> <<1>>]
MCAskNone   == [w \in Watches |-> <<>>]
MCNoDefault == [i \in Instances |-> NoDev]
MCDefault1  == [i \in Instances |-> 1]

MCV1        == [h \in Handles |-> "v1"]
MCOneOfEach == [h \in Handles |-> IF h = h1 THEN "v1" ELSE "legacy"]

\* Boards that send nothing but events.
MCSilent    == [h \in Handles |-> "legacy"]
=============================================================================
