-------------------------------- MODULE MCFs --------------------------------
(* Fs for TLC.  Names and texts are interchangeable.                       *)
EXTENDS Fs, TLC

CONSTANTS name1, name2, text1, text2

NamesTyped == Names \cup {Bad}
AnyTyped == NamesTyped \cup {Dot, DotDot, DotDotX}
Symm == Permutations(Names) \cup Permutations(Texts)
=============================================================================
