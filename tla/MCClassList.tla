----------------------------- MODULE MCClassList -----------------------------
(***************************************************************************)
(* ClassList on a small instance: words of three bits and one module of    *)
(* three bytes, in which the byte 200 stands twice.  The pure algorithms   *)
(* are compared with their reference on every input up to a bound; they    *)
(* depend on no variable, so this is done once, in the initial states.     *)
(***************************************************************************)
EXTENDS ClassList, TLC

MCLiterals     == ("1" :> 1) @@ ("0x2" :> 2) @@ ("7" :> 7)
MCLibraryWords == {"lib.dll", "other.dll"}
MCNames        == {<<"lib.dll">>, <<"other.dll">>, <<"7", " ", "lib.dll">>}
MCModules      == << [name |-> <<"lib.dll">>, base |-> 4, size |-> 3] >>
MCTarget       == <<"lib.dll">>
MCImage        == (4 :> 5) @@ (5 :> 200) @@ (6 :> 200)
MCTexts        == {<<"lib.dll", " ", "+", " ", "1", "-", "1">>}
MCStrings      == {<<-56>>, <<5, -56>>}
MCBadSignature == {<<"\\", "x", "Z", "0">>}
MCAlphabet     == {5, -56, 92}
MCIdaSignature == {<<"C", "8", " ", "?", "?">>}

BlockSymmetry == Permutations(Blocks)
=============================================================================
