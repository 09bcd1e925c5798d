---------------------------- MODULE MCTextPipeline ----------------------------
(* Small instances of TextPipeline for TLC. *)
EXTENDS TextPipeline

AllClasses == {"heading", "fence", "row", "long", "short", "blank",
               "dollars", "opens", "ends", "formula"}

\* Two of the texts begin alike.
TwoAlike == <<1, 2, 1>>
=============================================================================
