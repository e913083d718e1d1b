---------------------------- MODULE MCRnnServer ----------------------------
\* Small instances of RnnServer for TLC.
EXTENDS RnnServer

\* Two texts to train on, a short one, and the two that cannot be trained on.
Texts == {"tofu wrap", "", "soup", "salmon"}
Letters == [t \in Texts |-> CASE t = "" -> {} [] t = "salmon" -> {1, 2, 3} [] OTHER -> {1, 2}]
LongTexts == {"soup", "salmon"}
=============================================================================
