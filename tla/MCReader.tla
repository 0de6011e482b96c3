-------------------------------- MODULE MCReader --------------------------------
(* Texts with a pair stored whole and one encoded apart among ASCII and a  *)
(* unit of two bytes, so that seeks from both ends end in and beside them. *)
EXTENDS Reader

astral == <<240, 144, 128, 128>>
apart == <<237, 160, 189, 237, 176, 128>>
Mixed == {<<97, 195, 169>> \o astral \o <<97>>, astral \o astral \o <<97>>, <<97>> \o apart \o <<195, 169>>,
          <<97, 97, 97>>, <<>>}
================================================================================
