------------------------ MODULE MCClipboardPersist ------------------------
(* Constants for model-checking ClipboardPersist: one mime type whose data fits
   a single buffer and one whose buffer must grow. *)
EXTENDS ClipboardPersist, TLC

CONSTANTS text, image

MCMimeList == <<text, image>>
MCLength == (text :> 1) @@ (image :> 2)
=============================================================================
