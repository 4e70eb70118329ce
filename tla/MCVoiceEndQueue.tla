--------------------------- MODULE MCVoiceEndQueue ---------------------------
\* Four handles, a queue of three: one frame may bring more ends than it holds.
EXTENDS VoiceEndQueue
==============================================================================
