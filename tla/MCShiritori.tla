---------------------------- MODULE MCShiritori ----------------------------
(* Values for model checking Shiritori.                                    *)
EXTENDS Shiritori, TLC

\* A cycle of words, one that begins and ends with the same letter, one whose
\* end is mute, one with no sounding letter, and one the table never has.
MCSpelling ==
  ("tin" :> <<"t", "i", "n">>) @@ ("net" :> <<"n", "e", "t">>) @@
  ("note" :> <<"n", "o", "t", "e">>) @@ ("nun" :> <<"n", "u", "n">>) @@
  ("eq" :> <<"e", "q">>) @@ ("nat" :> <<"n", "a", "t">>)

MCInitial == <<"tin", "net", "note", "nun">>
=============================================================================
