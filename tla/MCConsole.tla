----------------------------- MODULE MCConsole ------------------------------
(* A screen of two lines, each as wide as one tab.  Two colours tell the
   cells apart, so one glyph is enough. *)
EXTENDS Console

MCGlyphs == {SPACE}
=============================================================================
