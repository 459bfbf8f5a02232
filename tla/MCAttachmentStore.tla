------------------------- MODULE MCAttachmentStore -------------------------
(* A small instance of the attachment store for TLC.                        *)
EXTENDS AttachmentStore

CONSTANTS a1, a2, old, new, d1, d2, d3
=============================================================================
