----------------------------- MODULE MCReadline -----------------------------
(***************************************************************************)
(* Readline in two scenes, one per behaviour: "line" is one line of two    *)
(* letters, edited in every way; "history" is four lines of one letter.    *)
(***************************************************************************)
EXTENDS Readline

VARIABLE scene
mcVars == <<vars, scene>>

Letters == [line |-> Chars, history |-> {"a"}]
Lines == [line |-> 1, history |-> MaxLines]

MCNext == /\ \/ \E c \in Letters[scene] : Insert(c)
             \/ Backspace \/ Delete \/ Left \/ Home \/ Right \/ End \/ Up \/ Down
             \/ Return \/ Message
          /\ Len(past') <= Lines[scene] /\ UNCHANGED scene

MCInit == Init /\ scene \in DOMAIN Letters
MCSpec == MCInit /\ [][MCNext]_mcVars
=============================================================================
