------------------------- MODULE MCSessionIntents -------------------------
\* Instances of the session intents for TLC.
EXTENDS SessionIntents

CONSTANTS a, b

AllWishes == Kinds

\* Only the setting is touched.
Selections == {"config"}
=============================================================================
